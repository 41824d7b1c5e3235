------------------------- MODULE ReplicationProofs -------------------------
(***************************************************************************)
(* Proofs about Replication, for any number of sessions and any bounds: a  *)
(* replica applies the master's commands in order, and never knows more    *)
(* than the master.  The master's part comes from MasterReplicationProofs. *)
(***************************************************************************)
EXTENDS Replication, SequenceTheorems, TLAPS

MasterProofs == INSTANCE MasterReplicationProofs

-----------------------------------------------------------------------------
(* Steps of the composition are steps of the master                        *)

\* The invariants of the two instances of MasterReplication are the same.
LEMMA SameInvariant ==
  /\ MasterProofs!IInv <=> Master!IInv
  /\ \A c \in Conn : MasterProofs!CarriesInv(c) <=> Master!CarriesInv(c)
<1>1. MasterProofs!TypeOK <=> Master!TypeOK
  BY DEF MasterProofs!TypeOK, Master!TypeOK
<1>2. MasterProofs!WriteInv <=> Master!WriteInv
  BY DEF MasterProofs!WriteInv, Master!WriteInv
<1>3. \A c \in Conn : MasterProofs!LinkInv(c) <=> Master!LinkInv(c)
  BY DEF MasterProofs!LinkInv, Master!LinkInv, MasterProofs!PhaseInv,
     Master!PhaseInv, MasterProofs!OrderInv, Master!OrderInv,
     MasterProofs!KeepsUpInv, Master!KeepsUpInv, MasterProofs!Consecutive,
     Master!Consecutive, MasterProofs!OnTransport, Master!OnTransport,
     MasterProofs!Reach, Master!Reach
<1>4. QED
  BY <1>1, <1>2, <1>3 DEF MasterProofs!IInv, Master!IInv,
     MasterProofs!CarriesInv, Master!CarriesInv

\* The two instances have the same steps, too.
LEMMA SameActions ==
  /\ Master!Writes => MasterProofs!Writes
  /\ \A c \in Conn :
       /\ Master!Register(c) => MasterProofs!Resync(c)
       /\ Master!SendSnapshot(c) => MasterProofs!Resync(c)
       /\ Master!EncodeFails(c) => MasterProofs!Resync(c)
       /\ Master!FlushBatch(c) => MasterProofs!Resync(c)
       /\ Master!GoLive(c) => MasterProofs!Resync(c)
       /\ Master!HandlerExit(c) => MasterProofs!Resync(c)
       /\ Master!Background(c) => MasterProofs!Background(c)
       /\ Master!ConnectionLost(c) => MasterProofs!ConnectionLost(c)
<1> USE DEF MasterProofs!storeVars, Master!storeVars, MasterProofs!linkVars,
    Master!linkVars, MasterProofs!resyncVars, Master!resyncVars
<1>1. ASSUME Master!Writes PROVE MasterProofs!Writes
  BY <1>1, Zenon DEF Master!Writes, MasterProofs!Writes, Master!Write, MasterProofs!Write,
     Master!Appended, MasterProofs!Appended, Master!AppendFails,
     MasterProofs!AppendFails, Master!FsyncLoopFails, MasterProofs!FsyncLoopFails,
     Master!propagate, MasterProofs!propagate, Master!PropagateTo,
     MasterProofs!PropagateTo, Master!Takes, MasterProofs!Takes,
     Master!Overflows, MasterProofs!Overflows
<1>2. ASSUME NEW c \in Conn
      PROVE  /\ Master!Register(c) => MasterProofs!Resync(c)
             /\ Master!SendSnapshot(c) => MasterProofs!Resync(c)
             /\ Master!EncodeFails(c) => MasterProofs!Resync(c)
             /\ Master!FlushBatch(c) => MasterProofs!Resync(c)
             /\ Master!GoLive(c) => MasterProofs!Resync(c)
             /\ Master!HandlerExit(c) => MasterProofs!Resync(c)
  BY Zenon DEF MasterProofs!Resync, Master!Register, MasterProofs!Register,
     Master!SendSnapshot, MasterProofs!SendSnapshot, Master!EncodeFails,
     MasterProofs!EncodeFails, Master!FlushBatch,
     MasterProofs!FlushBatch, Master!GoLive, MasterProofs!GoLive,
     Master!HandlerExit, MasterProofs!HandlerExit, Master!unregister,
     MasterProofs!unregister
<1>3. ASSUME NEW c \in Conn
      PROVE  /\ Master!Background(c) => MasterProofs!Background(c)
             /\ Master!ConnectionLost(c) => MasterProofs!ConnectionLost(c)
  BY DEF Master!Background, MasterProofs!Background, Master!UnregisterTask,
     MasterProofs!UnregisterTask, Master!unregister, MasterProofs!unregister,
     Master!DrainGet, MasterProofs!DrainGet, Master!DrainDone,
     MasterProofs!DrainDone, Master!DrainFails, MasterProofs!DrainFails,
     Master!ConnectionLost, MasterProofs!ConnectionLost
<1>4. QED
  BY <1>1, <1>2, <1>3

\* The initial state of the composition is one of the master.
LEMMA MasterInit ==
  ASSUME Init
  PROVE  MasterProofs!Init
BY DEF Init, Master!Init, MasterProofs!Init

\* A session that ends closes its connection, as a loss of the connection does;
\* the other steps of the replica are not seen by the master.
LEMMA MasterNext ==
  ASSUME [Next]_vars, open \in [Conn -> BOOLEAN]
  PROVE  [MasterProofs!Next]_(MasterProofs!vars)
<1> USE DEF masterVars, MasterProofs!vars, MasterProofs!storeVars,
    MasterProofs!linkVars, MasterProofs!resyncVars
<1>1. CASE Master!Writes
  BY <1>1, SameActions, Zenon DEF MasterProofs!Next
<1>2. ASSUME NEW c \in Conn, Replica!SessionFails(c), UNCHANGED masterVars
      PROVE  MasterProofs!Next \/ UNCHANGED MasterProofs!vars
  <2>1. CASE open[c]
    <3>1. MasterProofs!ConnectionLost(c)
      BY <1>2, <2>1 DEF Replica!SessionFails, MasterProofs!ConnectionLost
    <3>2. QED
      BY <3>1, Zenon DEF MasterProofs!Next
  <2>2. CASE ~open[c]
    <3>1. open' = open
      BY <1>2, <2>2 DEF Replica!SessionFails
    <3>2. QED
      BY <1>2, <3>1 DEF Replica!SessionFails
  <2>3. QED
    BY <2>1, <2>2
<1>3. ASSUME NEW c \in Conn, Psync(c) \/ MasterStep(c) \/ ConnectionLost(c)
      PROVE  MasterProofs!Next
  BY <1>3, SameActions, Zenon
     DEF Psync, MasterStep, ConnectionLost, MasterProofs!Next
<1>4. ASSUME NEW c \in Conn, Connect(c)
      PROVE  UNCHANGED MasterProofs!vars
  BY <1>4 DEF Connect, Replica!Handshake
<1>5. ASSUME NEW c \in Conn, ReplicaReads(c) \/ ReplicaEnds(c)
      PROVE  MasterProofs!Next \/ UNCHANGED MasterProofs!vars
  <2>1. CASE Replica!SessionFails(c)
    BY <1>2, <1>5, <2>1, SMTT(20) DEF ReplicaReads, ReplicaEnds
  <2>2. CASE ~Replica!SessionFails(c)
    <3>1. UNCHANGED <<sent, open, masterVars>>
      BY <1>5, <2>2, Zenon DEF ReplicaReads, ReplicaEnds, Replica!SessionEnds,
         Replica!Read, Replica!ReadFullresync, Replica!ReadFullresyncAndRdb,
         Replica!ReadRefused, Replica!ReadRdb, Replica!ReadCommands
    <3>2. QED
      BY <3>1
  <2>3. QED
    BY <2>1, <2>2
<1>6. CASE UNCHANGED vars
  BY <1>6 DEF vars
<1>7. QED
  BY <1>1, <1>3, <1>4, <1>5, <1>6, Zenon DEF Next

-----------------------------------------------------------------------------
(* What a session applies                                                  *)

\* Reading on: h is what was applied when a - 1 items of the stream s were read;
\* the commands completed when b - 1 items are read continue it.
LEMMA ReadOn ==
  ASSUME NEW s \in Seq(Nat), NEW f \in Nat, Master!Consecutive(s, f),
         NEW h \in Seq(Nat), h # <<>>, NEW a \in Nat, NEW b \in Nat, a <= b,
         b - 1 <= Len(s), Stretch(h, f, a - 1),
         NEW t, t = h \o SubSeq(s, a, b - 1)
  PROVE  t \in Seq(Nat) /\ t # <<>> /\ Stretch(t, f, b - 1)
<1>0. /\ \A i \in 1..Len(s) : s[i] = f + i - 1
      /\ 1 <= Len(h) /\ Len(h) <= a - 1 /\ h[1] = f
      /\ \A i \in 2..Len(h) : h[i] = f + (a - 1 - Len(h)) + i - 1
  <2>1. 1 <= Len(h)
    OBVIOUS
  <2>2. QED
    BY <2>1, Zenon DEF Master!Consecutive, Stretch
<1> DEFINE r == SubSeq(s, a, b - 1)
<1>1. PICK l \in Nat : l = Len(h)
  OBVIOUS
<1>2. PICK m \in Nat : m = Len(s)
  OBVIOUS
<1>3. a \in 1..m + 1 /\ b - 1 \in a - 1 .. m
  BY <1>0, <1>1, <1>2
<1>4. /\ r \in Seq(Nat) /\ Len(r) = b - a
      /\ \A i \in 1..(b - a) : r[i] = s[a + i - 1]
  <2>1. PICK e \in Int : e = b - 1
    OBVIOUS
  <2>2. \A i \in a..e : s[i] \in Nat
    <3>1. \A i \in a..e : i \in 1..Len(s)
      BY <1>2, <1>3, <2>1
    <3>2. QED
      BY <3>1, ElementOfSeq, Zenon
  <2>3. a \in Int /\ e \in Int
    OBVIOUS
  <2>4. /\ SubSeq(s, a, e) \in Seq(Nat)
        /\ Len(SubSeq(s, a, e)) = IF a <= e THEN e - a + 1 ELSE 0
        /\ \A i \in 1 .. e - a + 1 : SubSeq(s, a, e)[i] = s[a + i - 1]
    BY ONLY <2>2, <2>3, SubSeqProperties, SMTT(20)
  <2>5. r = SubSeq(s, a, e) /\ e - a + 1 = b - a
    BY <2>1
  <2> HIDE DEF r
  <2>6. Len(r) = b - a
    BY <2>1, <2>4, <2>5
  <2>7. QED
    BY <2>4, <2>5, <2>6, Zenon
<1>5. \A i \in 1..(b - a) : r[i] = f + (a + i - 1) - 1
  <2>1. ASSUME NEW i \in 1..(b - a) PROVE r[i] = f + (a + i - 1) - 1
    <3>1. a + i - 1 \in 1..m
      BY <1>3
    <3>2. QED
      BY <1>0, <1>2, <1>4, <3>1, Zenon
  <2>2. QED
    BY <2>1, Zenon
<1> HIDE DEF r
<1>6. PICK k \in Nat : k = b - a
  OBVIOUS
<1>7. /\ t \in Seq(Nat) /\ Len(t) = l + k
      /\ \A i \in 1..l + k : t[i] = IF i <= l THEN h[i] ELSE r[i - l]
  <2>1. t = h \o r /\ Len(r) = k
    BY <1>4, <1>6 DEF r
  <2>2. /\ h \o r \in Seq(Nat)
        /\ Len(h \o r) = Len(h) + Len(r)
        /\ \A i \in 1..Len(h) + Len(r) :
             (h \o r)[i] = IF i <= Len(h) THEN h[i] ELSE r[i - Len(h)]
    BY <1>4, ConcatProperties, Zenon
  <2>3. QED
    BY <1>1, <2>1, <2>2, Zenon
<1>8. t[1] = f /\ Len(t) <= b - 1 /\ t # <<>>
  BY <1>0, <1>1, <1>6, <1>7
<1>9. ASSUME NEW i \in 2..(l + k) PROVE t[i] = f + (b - 1 - (l + k)) + i - 1
  <2>1. CASE i <= l
    BY <1>0, <1>1, <1>6, <1>7, <2>1, SMTT(20)
  <2>2. CASE i > l
    <3>1. i - l \in 1..(b - a) /\ t[i] = r[i - l]
      <4>1. t[i] = r[i - l]
        <5>1. i \in 1..(l + k) /\ ~(i <= l)
          BY <2>2
        <5>2. QED
          BY <1>7, <5>1, Zenon
      <4>2. i - l \in 1..(b - a)
        BY <1>6, <2>2
      <4>3. QED
        BY <4>1, <4>2, Zenon
    <3>2. r[i - l] = f + (a + (i - l) - 1) - 1
      BY <1>5, <3>1
    <3>3. PICK x \in Int : x = i - l
      OBVIOUS
    <3>4. t[i] = f + (a + x - 1) - 1
      BY <3>1, <3>2, <3>3, Zenon
    <3>5. f + (a + x - 1) - 1 = f + (b - 1 - (l + k)) + i - 1
      BY <1>6, <3>3
    <3>6. QED
      BY <3>4, <3>5, Zenon
  <2>3. i <= l \/ i > l
    OBVIOUS
  <2>4. QED
    BY <2>1, <2>2, <2>3, Zenon
<1>10. QED
  BY <1>7, <1>8, <1>9, Zenon DEF Stretch

\* A session that reads nothing: the master may write meanwhile, or the session
\* may connect or fail.
Quiet(c) ==
  /\ got'[c] = got[c] /\ have'[c] = have[c]
  /\ \/ phase'[c] = phase[c]
     \/ phase'[c] = "down"
     \/ phase[c] = "idle" /\ phase'[c] = "handshake"

\* The part of CInv that is about one session.
SessionInv(c) ==
  /\ phase[c] \in {"idle", "handshake", "rdb", "stream", "down"}
  /\ got[c] \in Nat /\ have[c] \in Seq(Nat)
  /\ got[c] <= Replica!Written(c)
  /\ AppliedInv(c)

\* What CInv gives of the stream of a connection.
LEMMA StreamFacts ==
  ASSUME Master!IInv, NEW c \in Conn
  PROVE  /\ sent[c] \in Seq(Nat) /\ snap[c] \in Nat
         /\ Master!Consecutive(sent[c], snap[c])
         /\ open \in [Conn -> BOOLEAN]
BY DEF Master!IInv, Master!TypeOK, Master!LinkInv, Master!OrderInv

\* While a session reads nothing, what was written stays written.
LEMMA QuietSession ==
  ASSUME NEW c \in Conn, SessionInv(c), Quiet(c),
         sent[c] \in Seq(Nat), sent'[c] \in Seq(Nat),
         Len(sent[c]) <= Len(sent'[c]),
         sent[c] # <<>> => sent'[c] # <<>> /\ snap'[c] = snap[c]
  PROVE  SessionInv(c)'
<1>1. PICK m \in Nat : m = Len(sent[c])
  OBVIOUS
<1>2. PICK n \in Nat : n = Len(sent'[c])
  OBVIOUS
<1>3. PICK g \in Nat : g = got[c]
  BY DEF SessionInv
<1>4. g <= IF sent[c] = <<>> THEN 0 ELSE 2 + 2 * m
  BY <1>1, <1>3 DEF SessionInv, Replica!Written
<1>5. got'[c] <= Replica!Written(c)'
  <2>1. CASE sent[c] = <<>>
    <3>1. g = 0
      BY <1>4, <2>1
    <3>2. Replica!Written(c)' = IF sent'[c] = <<>> THEN 0 ELSE 2 + 2 * n
      BY <1>2 DEF Replica!Written
    <3>3. QED
      BY <1>3, <3>1, <3>2 DEF Quiet
  <2>2. CASE sent[c] # <<>>
    <3>1. Replica!Written(c)' = 2 + 2 * n /\ g <= 2 + 2 * m /\ m <= n
      BY <1>1, <1>2, <1>4, <2>2, SMTT(20) DEF Replica!Written
    <3>2. QED
      BY <1>3, <3>1 DEF Quiet
  <2>3. QED
    BY <2>1, <2>2
<1>6. have[c] # <<>> => snap'[c] = snap[c]
  <2> SUFFICES ASSUME have[c] # <<>> PROVE snap'[c] = snap[c]
    OBVIOUS
  <2>1. Len(have[c]) <= g \div 2 - 1
    BY <1>3 DEF SessionInv, AppliedInv, ItemsRead, Stretch
  <2>2. PICK l \in Nat : l = Len(have[c]) /\ l > 0
    BY DEF SessionInv
  <2>3. g > 0
    BY <2>1, <2>2
  <2>4. sent[c] # <<>>
    BY <1>4, <2>3
  <2>5. QED
    BY <2>4
<1>7. AppliedInv(c)'
  <2>1. ItemsRead(c)' = ItemsRead(c)
    BY DEF ItemsRead, Quiet
  <2>2. phase'[c] \in {"idle", "handshake", "rdb"} => have'[c] = <<>>
    BY DEF Quiet, SessionInv, AppliedInv
  <2>3. phase'[c] = "stream" => have'[c] # <<>>
    BY DEF Quiet, SessionInv, AppliedInv
  <2>4. have'[c] # <<>> =>
          Stretch(have'[c], snap'[c], ItemsRead(c)')
    BY <1>6, <2>1, Zenon DEF Quiet, SessionInv, AppliedInv
  <2>5. QED
    BY <2>2, <2>3, <2>4 DEF AppliedInv
<1>8. QED
  BY <1>5, <1>7 DEF SessionInv, Quiet

\* The first item of a stream of which four units are written is the snapshot.
LEMMA FirstIsSnapshot ==
  ASSUME Master!IInv, NEW c \in Conn, NEW n \in Nat, n >= 4, n <= Replica!Written(c)
  PROVE  sent[c][1] = snap[c]
<1>1. PICK m \in Nat : m = Len(sent[c])
  BY StreamFacts
<1>2. m >= 1
  BY <1>1 DEF Replica!Written
<1>3. \A i \in 1..m : sent[c][i] = snap[c] + i - 1
  BY <1>1, StreamFacts, Zenon DEF Master!Consecutive
<1>4. snap[c] \in Nat
  BY StreamFacts, Zenon
<1>5. QED
  BY <1>2, <1>3, <1>4

\* The snapshot is loaded: it is all that was applied.
LEMMA LoadSession ==
  ASSUME Master!IInv, NEW c \in Conn, SessionInv(c), NEW n \in Nat, n >= 4,
         n <= Replica!Written(c), got'[c] = n, have'[c] = <<sent[c][1]>>,
         phase'[c] = "stream", sent' = sent, snap' = snap
  PROVE  SessionInv(c)'
<1>1. sent[c][1] = snap[c] /\ snap[c] \in Nat
  BY FirstIsSnapshot, StreamFacts
<1>2. have'[c] = <<snap[c]>> /\ have'[c] \in Seq(Nat) /\ Len(have'[c]) = 1
  BY <1>1
<1>3. have'[c][1] = snap'[c] /\ have'[c] # <<>>
  BY <1>2
<1>4. 1 <= ItemsRead(c)'
  BY DEF ItemsRead
<1>5. \A i \in 2..Len(have'[c]) :
        have'[c][i] = snap'[c] + (ItemsRead(c)' - Len(have'[c])) + i - 1
  BY <1>2
<1>6. AppliedInv(c)'
  <2>1. Stretch(have'[c], snap'[c], ItemsRead(c)')
    BY <1>2, <1>3, <1>4, <1>5 DEF Stretch
  <2>2. QED
    BY <1>3, <2>1 DEF AppliedInv
<1>7. got'[c] <= Replica!Written(c)'
  BY DEF Replica!Written
<1>8. QED
  BY <1>2, <1>6, <1>7, SMTT(20) DEF SessionInv

\* A read of the command stream applies the commands that it completes.
LEMMA CommandsSession ==
  ASSUME Master!IInv, NEW c \in Conn, SessionInv(c), NEW n \in Nat, got[c] < n,
         n <= Replica!Written(c), phase[c] = "stream", got'[c] = n,
         have'[c] = have[c] \o Replica!Completed(c, got[c], n),
         phase'[c] = phase[c], sent' = sent, snap' = snap
  PROVE  SessionInv(c)'
<1>1. PICK g \in Nat : g = got[c]
  BY DEF SessionInv
<1>2. PICK a \in Nat : a = g \div 2
  OBVIOUS
<1>3. PICK b \in Nat : b = n \div 2
  OBVIOUS
<1>4. have[c] \in Seq(Nat) /\ have[c] # <<>> /\ Stretch(have[c], snap[c], a - 1)
  BY <1>1, <1>2, Zenon DEF SessionInv, AppliedInv, ItemsRead
<1>5. /\ sent[c] \in Seq(Nat) /\ snap[c] \in Nat
      /\ Master!Consecutive(sent[c], snap[c])
  BY StreamFacts, Zenon
<1>6. a <= b /\ b - 1 <= Len(sent[c])
  <2>1. PICK m \in Nat : m = Len(sent[c])
    BY <1>5
  <2>2. n <= 2 + 2 * m
    BY <2>1 DEF Replica!Written
  <2>3. QED
    BY <1>1, <1>2, <1>3, <2>1, <2>2, SMTT(20)
<1>7. have'[c] = have[c] \o SubSeq(sent[c], a, b - 1)
  BY <1>1, <1>2, <1>3, Zenon DEF Replica!Completed
<1> DEFINE t == have'[c]
<1> HIDE DEF t
<1>8. t \in Seq(Nat) /\ t # <<>> /\ Stretch(t, snap[c], b - 1)
  <2>1. t = have[c] \o SubSeq(sent[c], a, b - 1)
    BY <1>7 DEF t
  <2>2. a \in Nat /\ b \in Nat
    OBVIOUS
  <2>3. QED
    BY ONLY <1>4, <1>5, <1>6, <2>1, <2>2, ReadOn, Zenon
<1>9. ItemsRead(c)' = b - 1
  BY <1>3 DEF ItemsRead
<1>10. AppliedInv(c)'
  BY <1>8, <1>9, Zenon DEF AppliedInv, t
<1>11. got'[c] <= Replica!Written(c)'
  BY DEF Replica!Written
<1>12. QED
  BY <1>8, <1>10, <1>11, SMTT(20) DEF SessionInv, t

\* A read that does not end the session.
LEMMA ReadSession ==
  ASSUME Master!IInv, Replica!ReplicaTypeOK, NEW c \in Conn, SessionInv(c),
         NEW n \in got[c] + 1 .. Replica!Written(c), snap' = snap,
         \/ Replica!ReadFullresync(c, n) \/ Replica!ReadFullresyncAndRdb(c, n)
         \/ Replica!ReadRdb(c, n) \/ Replica!ReadCommands(c, n)
  PROVE  SessionInv(c)'
<1>1. /\ n \in Nat /\ got[c] < n /\ n <= Replica!Written(c) /\ got[c] \in Nat
      /\ phase \in [Conn -> {"idle", "handshake", "rdb", "stream", "down"}]
      /\ got \in [Conn -> Nat] /\ have \in [Conn -> Seq(Nat)]
  <2>1. PICK g \in Nat : g = got[c]
    BY DEF SessionInv
  <2>2. PICK m \in Nat : m = Len(sent[c])
    BY StreamFacts
  <2>3. Replica!Written(c) \in Nat
    BY <2>2 DEF Replica!Written
  <2>4. QED
    BY <2>1, <2>3 DEF Replica!ReplicaTypeOK
<1>2. sent' = sent /\ got'[c] = n
  BY <1>1 DEF Replica!ReadFullresync, Replica!ReadFullresyncAndRdb,
     Replica!ReadRdb, Replica!ReadCommands
<1>3. got'[c] <= Replica!Written(c)'
  BY <1>1, <1>2, SMTT(20) DEF Replica!Written
<1>4. CASE /\ have'[c] = have[c] /\ phase[c] \in {"handshake", "rdb"}
           /\ phase'[c] \in {"handshake", "rdb"}
  <2>1. have[c] = <<>>
    BY <1>4, SMTT(20) DEF SessionInv, AppliedInv
  <2>2. AppliedInv(c)'
    BY <1>4, <2>1, SMTT(20) DEF AppliedInv
  <2>3. QED
    BY <1>1, <1>2, <1>3, <1>4, <2>2 DEF SessionInv
<1>5. CASE n >= 4 /\ have'[c] = <<sent[c][1]>> /\ phase'[c] = "stream"
  BY <1>1, <1>2, <1>5, LoadSession, Zenon
<1>6. CASE Replica!ReadFullresync(c, n)
  BY <1>1, <1>4, <1>6, SMTT(20) DEF Replica!ReadFullresync
<1>7. CASE Replica!ReadFullresyncAndRdb(c, n)
  BY <1>1, <1>5, <1>7 DEF Replica!ReadFullresyncAndRdb, Replica!RdbEnd
<1>8. CASE Replica!ReadRdb(c, n)
  <2>1. CASE n < 4
    BY <1>1, <1>4, <1>8, <2>1, Zenon DEF Replica!ReadRdb, Replica!RdbEnd
  <2>2. CASE ~(n < 4)
    <3>1. n >= 4
      BY <1>1, <2>2, SMTT(20)
    <3>2. have'[c] = <<sent[c][1]>> /\ phase'[c] = "stream"
      BY <1>1, <1>8, <2>2, SMTT(20) DEF Replica!ReadRdb, Replica!RdbEnd
    <3>3. QED
      BY <1>5, <3>1, <3>2, Zenon
  <2>3. QED
    BY <2>1, <2>2, SMTT(20)
<1>9. CASE Replica!ReadCommands(c, n)
  <2>1. /\ phase[c] = "stream" /\ phase'[c] = phase[c]
        /\ have'[c] = have[c] \o Replica!Completed(c, got[c], n)
    BY <1>1, <1>9, Zenon DEF Replica!ReadCommands
  <2>2. QED
    BY <1>1, <1>2, <2>1, CommandsSession, Zenon
<1>10. QED
  BY <1>6, <1>7, <1>8, <1>9, SMTT(20)

-----------------------------------------------------------------------------
(* The inductive invariant of the composition                              *)

\* CInv says of every session what SessionInv says.
LEMMA SessionsOfCInv ==
  /\ CInv => \A c \in Conn : SessionInv(c) /\ Master!CarriesInv(c)
  /\ /\ Master!IInv
     /\ phase \in [Conn -> {"idle", "handshake", "rdb", "stream", "down"}]
     /\ got \in [Conn -> Nat] /\ have \in [Conn -> Seq(Nat)]
     /\ \A c \in Conn : SessionInv(c) /\ Master!CarriesInv(c)
     => CInv
BY Zenon DEF CInv, SessionInv, Replica!ReplicaTypeOK

\* What a step does to the sessions: one of them reads, or none does.
LEMMA SessionStep ==
  ASSUME CInv, [Next]_vars
  PROVE  /\ \A c \in Conn : SessionInv(c)'
         /\ phase' \in [Conn -> {"idle", "handshake", "rdb", "stream", "down"}]
         /\ got' \in [Conn -> Nat] /\ have' \in [Conn -> Seq(Nat)]
<1>1. /\ Master!IInv /\ Replica!ReplicaTypeOK
      /\ phase \in [Conn -> {"idle", "handshake", "rdb", "stream", "down"}]
      /\ got \in [Conn -> Nat] /\ have \in [Conn -> Seq(Nat)]
      /\ \A c \in Conn : SessionInv(c)
  BY SessionsOfCInv, ZenonT(30) DEF CInv, Replica!ReplicaTypeOK
<1>2. ASSUME NEW c \in Conn, Quiet(c) PROVE SessionInv(c)'
  <2>1. MasterProofs!IInv /\ [MasterProofs!Next]_(MasterProofs!vars)
    BY <1>1, SameInvariant, StreamFacts, MasterNext, SMTT(20)
  <2>2. /\ Len(sent[c]) <= Len(sent'[c])
        /\ sent[c] # <<>> => sent'[c] # <<>> /\ snap'[c] = snap[c]
    BY <2>1, SessionsAssumption, MasterProofs!StreamGrows, SMTT(20)
  <2>3. sent[c] \in Seq(Nat) /\ sent'[c] \in Seq(Nat)
    BY <2>1, SessionsAssumption, MasterProofs!NextInv, SMTT(20)
       DEF MasterProofs!IInv, MasterProofs!TypeOK
  <2>4. QED
    BY <1>1, <1>2, <2>2, <2>3, QuietSession, SMTT(20)
<1>3. CASE UNCHANGED <<phase, got, have>>
  BY <1>1, <1>2, <1>3 DEF Quiet
<1>4. ASSUME NEW d \in Conn,
             Replica!SessionFails(d) \/ Replica!Handshake(d)
      PROVE  /\ \A c \in Conn : SessionInv(c)'
             /\ phase' \in [Conn -> {"idle", "handshake", "rdb", "stream", "down"}]
             /\ got' \in [Conn -> Nat] /\ have' \in [Conn -> Seq(Nat)]
  <2>1. got' = got /\ have' = have
    BY <1>4 DEF Replica!SessionFails, Replica!Handshake
  <2>2. phase' \in [Conn -> {"idle", "handshake", "rdb", "stream", "down"}]
    BY <1>1, <1>4, Zenon DEF Replica!SessionFails, Replica!Handshake
  <2>3. \A c \in Conn : Quiet(c)
    BY <1>1, <1>4, <2>1, SMTT(20) DEF Replica!SessionFails, Replica!Handshake, Quiet
  <2>4. QED
    BY <1>1, <1>2, <2>1, <2>2, <2>3, SMTT(20)
<1>5. ASSUME NEW d \in Conn, NEW n \in got[d] + 1 .. Replica!Written(d),
             UNCHANGED masterVars,
             \/ Replica!ReadFullresync(d, n) \/ Replica!ReadFullresyncAndRdb(d, n)
             \/ Replica!ReadRdb(d, n) \/ Replica!ReadCommands(d, n)
      PROVE  /\ \A c \in Conn : SessionInv(c)'
             /\ phase' \in [Conn -> {"idle", "handshake", "rdb", "stream", "down"}]
             /\ got' \in [Conn -> Nat] /\ have' \in [Conn -> Seq(Nat)]
  <2>1. SessionInv(d)'
    BY <1>1, <1>5, ReadSession DEF masterVars
  <2>2. /\ \E x : phase' = [phase EXCEPT ![d] = x]
        /\ \E x : got' = [got EXCEPT ![d] = x]
        /\ \E x : have' = [have EXCEPT ![d] = x]
    <3>1. have = [have EXCEPT ![d] = have[d]] /\ phase = [phase EXCEPT ![d] = phase[d]]
      BY <1>1, SMTT(20)
    <3>2. CASE Replica!ReadFullresync(d, n)
      BY <3>1, <3>2, Zenon DEF Replica!ReadFullresync
    <3>3. CASE Replica!ReadFullresyncAndRdb(d, n)
      BY <3>1, <3>3, Zenon DEF Replica!ReadFullresyncAndRdb
    <3>4. CASE Replica!ReadRdb(d, n)
      BY <3>1, <3>4, Zenon DEF Replica!ReadRdb
    <3>5. CASE Replica!ReadCommands(d, n)
      BY <3>1, <3>5, Zenon DEF Replica!ReadCommands
    <3>6. QED
      BY <1>5, <3>2, <3>3, <3>4, <3>5, Zenon
  <2>3. ASSUME NEW c \in Conn, c # d PROVE Quiet(c)
    BY <1>1, <2>2, <2>3, SMTT(20) DEF Quiet
  <2>4. \A c \in Conn : SessionInv(c)'
    BY <1>2, <2>1, <2>3, ZenonT(30)
  <2>5. /\ phase'[d] \in {"idle", "handshake", "rdb", "stream", "down"}
        /\ got'[d] \in Nat /\ have'[d] \in Seq(Nat)
    BY <2>1, Zenon DEF SessionInv
  <2>6. phase' \in [Conn -> {"idle", "handshake", "rdb", "stream", "down"}]
    <3>1. PICK x : phase' = [phase EXCEPT ![d] = x]
      BY <2>2, Zenon
    <3>2. QED
      BY <1>1, <2>5, <3>1, SMTT(20)
  <2>7. got' \in [Conn -> Nat]
    <3>1. PICK x : got' = [got EXCEPT ![d] = x]
      BY <2>2, Zenon
    <3>2. QED
      BY <1>1, <2>5, <3>1, SMTT(20)
  <2>8. have' \in [Conn -> Seq(Nat)]
    <3>1. PICK x : have' = [have EXCEPT ![d] = x]
      BY <2>2, Zenon
    <3>2. x \in Seq(Nat)
      BY <1>1, <2>5, <3>1, SMTT(20)
    <3>3. QED
      BY <1>1, <3>1, <3>2, SMTT(20)
  <2>9. QED
    BY <2>4, <2>6, <2>7, <2>8, SMTT(20)
<1>6. CASE Next
  <2>1. CASE Master!Writes /\ UNCHANGED <<phase, got, have>>
    BY <1>3, <2>1, SMTT(20)
  <2>2. ASSUME NEW c \in Conn, Psync(c) \/ MasterStep(c) \/ ConnectionLost(c)
        PROVE  UNCHANGED <<phase, got, have>>
    BY <2>2, SMTT(20) DEF Psync, MasterStep, ConnectionLost
  <2>3. ASSUME NEW c \in Conn, Connect(c) \/ ReplicaEnds(c)
        PROVE  Replica!SessionFails(c) \/ Replica!Handshake(c)
    BY <2>3, SMTT(20) DEF Connect, ReplicaEnds, Replica!SessionEnds
  <2>4. ASSUME NEW c \in Conn, ReplicaReads(c)
        PROVE  \/ Replica!SessionFails(c)
               \/ /\ UNCHANGED masterVars
                  /\ \E n \in got[c] + 1 .. Replica!Written(c) :
                       \/ Replica!ReadFullresync(c, n)
                       \/ Replica!ReadFullresyncAndRdb(c, n)
                       \/ Replica!ReadRdb(c, n) \/ Replica!ReadCommands(c, n)
    BY <2>4, Zenon DEF ReplicaReads, Replica!Read, Replica!ReadRefused
  <2>5. QED
    BY <1>3, <1>4, <1>5, <1>6, <2>1, <2>2, <2>3, <2>4, ZenonT(30) DEF Next
<1>7. CASE UNCHANGED vars
  BY <1>3, <1>7, SMTT(20) DEF vars
<1>8. QED
  BY <1>6, <1>7, SMTT(20)

\* The composition keeps CInv.
LEMMA CInvStep ==
  ASSUME CInv, [Next]_vars
  PROVE  CInv'
<1>1. Master!IInv /\ \A c \in Conn : Master!CarriesInv(c)
  BY ZenonT(30) DEF CInv
<1>2. [MasterProofs!Next]_(MasterProofs!vars)
  BY <1>1, MasterNext, Zenon DEF Master!IInv, Master!TypeOK
<1>3. MasterProofs!IInv /\ \A c \in Conn : MasterProofs!CarriesInv(c)
  BY <1>1, SameInvariant, SMTT(20)
<1>4. MasterProofs!IInv'
  BY <1>2, <1>3, SessionsAssumption, MasterProofs!NextInv, SMTT(20)
<1>5. ASSUME NEW c \in Conn PROVE MasterProofs!CarriesInv(c)'
  BY <1>2, <1>3, SessionsAssumption, MasterProofs!Carries, SMTT(20)
<1>6. /\ MasterProofs!IInv' <=> Master!IInv'
      /\ \A c \in Conn : MasterProofs!CarriesInv(c)' <=> Master!CarriesInv(c)'
  <2>1. (/\ MasterProofs!IInv <=> Master!IInv
         /\ \A c \in Conn : MasterProofs!CarriesInv(c) <=> Master!CarriesInv(c))'
    BY SameInvariant, PTL
  <2>2. QED
    BY <2>1, Zenon
<1>7. Master!IInv' /\ \A c \in Conn : Master!CarriesInv(c)'
  BY <1>4, <1>5, <1>6, Zenon
<1>8. QED
  BY <1>7, SessionStep, Zenon DEF CInv, SessionInv, Replica!ReplicaTypeOK

\* Master and replica together keep the master's inductive invariant, and every
\* session has applied a stretch of its connection's stream.
THEOREM Inductive == Spec => []CInv
<1>1. Init => CInv
  <2> SUFFICES ASSUME Init PROVE CInv
    OBVIOUS
  <2>1. Master!IInv
    BY MasterInit, SameInvariant, SessionsAssumption, MasterProofs!InitInv, SMTT(20)
  <2>2. Replica!ReplicaTypeOK
    BY SMTT(20) DEF Init, Replica!ReplicaInit, Replica!ReplicaTypeOK, Master!Init, Replica!Written
  <2>3. ASSUME NEW c \in Conn PROVE Master!CarriesInv(c) /\ AppliedInv(c)
    <3>1. /\ snap[c] = 0 /\ applied = 0 /\ sent[c] = <<>> /\ backlog[c] = <<>>
          /\ phase[c] = "idle" /\ have[c] = <<>>
      BY DEF Init, Replica!ReplicaInit, Master!Init
    <3>2. QED
      BY <3>1 DEF Master!CarriesInv, AppliedInv
  <2>4. QED
    BY <2>1, <2>2, <2>3, SMTT(20) DEF CInv
<1>2. CInv /\ [Next]_vars => CInv'
  BY CInvStep
<1>3. QED
  BY <1>1, <1>2, PTL DEF Spec

\* The inductive invariant holds the types of both sides.
THEOREM TypeCorrect == Spec => []TypeOK
<1>1. CInv => TypeOK
  BY Zenon DEF CInv, TypeOK, Master!IInv
<1>2. QED
  BY <1>1, Inductive, PTL

\* The replica applies commands in the master's order, never twice, never one
\* that its snapshot contains, and with no gap between two commands it applies,
\* however the reads of the session cut the stream.
THEOREM InOrder == Spec => []AppliesInOrder
<1>1. CInv => AppliesInOrder
  <2> SUFFICES ASSUME CInv, NEW c \in Conn, NEW i \in 2..Len(have[c])
               PROVE  IF i = 2 THEN have[c][2] > have[c][1]
                               ELSE have[c][i] = have[c][i - 1] + 1
    BY DEF AppliesInOrder
  <2>1. have[c] \in Seq(Nat) /\ snap[c] \in Nat /\ AppliedInv(c) /\ got[c] \in Nat
    BY StreamFacts DEF CInv, Replica!ReplicaTypeOK
  <2>2. PICK l \in Nat : l = Len(have[c]) /\ l >= 2
    BY <2>1
  <2>3. PICK k \in Int : k = ItemsRead(c)
    BY <2>1 DEF ItemsRead
  <2>4. have[c] # <<>>
    BY <2>2
  <2>5. l <= k /\ have[c][1] = snap[c]
        /\ \A j \in 2..l : have[c][j] = snap[c] + (k - l) + j - 1
    BY <2>1, <2>2, <2>3, <2>4, Zenon DEF AppliedInv, Stretch
  <2>6. CASE i = 2
    BY <2>1, <2>2, <2>5, <2>6, SMTT(20)
  <2>7. CASE i # 2
    <3>1. i \in 2..l /\ i - 1 \in 2..l
      BY <2>2, <2>7
    <3>2. have[c][i] = snap[c] + (k - l) + i - 1
      BY <2>5, <3>1, Zenon
    <3>3. have[c][i - 1] = snap[c] + (k - l) + (i - 1) - 1
      BY <2>5, <3>1, Zenon
    <3>4. PICK f \in Int : f = snap[c] + (k - l)
      BY <2>1
    <3>5. f + i - 1 = (f + (i - 1) - 1) + 1
      OBVIOUS
    <3>6. have[c][i] = have[c][i - 1] + 1
      BY <3>2, <3>3, <3>4, <3>5, Zenon
    <3>7. QED
      BY <2>7, <3>6
  <2>8. QED
    BY <2>6, <2>7, SMTT(20)
<1>2. QED
  BY <1>1, Inductive, PTL

\* A replica holds no effect that the master's store lacks, and applies no
\* command that the master has not propagated.
THEOREM Behind == Spec => []ReplicaBehindMaster
<1>1. CInv => ReplicaBehindMaster
  <2> SUFFICES ASSUME CInv, NEW c \in Conn, NEW i \in 1..Len(have[c])
               PROVE  have[c][i] <= (IF i = 1 THEN applied ELSE propagated)
    BY DEF ReplicaBehindMaster
  <2>1. /\ have[c] \in Seq(Nat) /\ snap[c] \in Nat /\ AppliedInv(c) /\ got[c] \in Nat
        /\ sent[c] \in Seq(Nat) /\ Master!Consecutive(sent[c], snap[c])
        /\ got[c] <= Replica!Written(c) /\ Master!CarriesInv(c)
    BY StreamFacts DEF CInv, Replica!ReplicaTypeOK
  <2>2. PICK l \in Nat : l = Len(have[c]) /\ l >= 1
    BY <2>1
  <2>3. PICK g \in Nat : g = got[c]
    BY <2>1
  <2>4. PICK k \in Int : k = g \div 2 - 1
    OBVIOUS
  <2>5. have[c] # <<>>
    BY <2>2
  <2>6. l <= k /\ have[c][1] = snap[c]
        /\ \A j \in 2..l : have[c][j] = snap[c] + (k - l) + j - 1
    BY <2>1, <2>2, <2>3, <2>4, <2>5, Zenon DEF AppliedInv, Stretch, ItemsRead
  <2>7. CASE i = 1
    BY <2>1, <2>6, <2>7 DEF Master!CarriesInv
  <2>8. CASE i # 1
    <3>1. PICK m \in Nat : m = Len(sent[c])
      BY <2>1
    <3>2. g <= IF sent[c] = <<>> THEN 0 ELSE 2 + 2 * m
      BY <2>1, <2>3, <3>1, SMTT(20) DEF Replica!Written
    <3>3. k <= m
      BY <2>2, <2>4, <2>6, <3>2
    <3>4. PICK j \in Int : j = (k - l) + i
      OBVIOUS
    <3>5. j \in 2..m /\ i \in 2..l
      BY <2>2, <2>6, <2>8, <3>3, <3>4
    <3>6. have[c][i] = snap[c] + j - 1
      <4>1. have[c][i] = snap[c] + (k - l) + i - 1
        BY <2>6, <3>5, Zenon
      <4>2. snap[c] + (k - l) + i - 1 = snap[c] + j - 1
        BY <2>1, <3>4
      <4>3. QED
        BY <4>1, <4>2, Zenon
    <3>7. sent[c][j] = snap[c] + j - 1
      <4>1. j \in 1..Len(sent[c])
        BY <3>1, <3>5, SMTT(20)
      <4>2. QED
        BY <2>1, <4>1, Zenon DEF Master!Consecutive
    <3>8. sent[c][j] <= propagated
      BY <2>1, <3>1, <3>5, Zenon DEF Master!CarriesInv
    <3>9. QED
      BY <2>8, <3>6, <3>7, <3>8, SMTT(20)
  <2>9. QED
    BY <2>7, <2>8
<1>2. QED
  BY <1>1, Inductive, PTL

=============================================================================
