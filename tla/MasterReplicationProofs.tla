---------------------- MODULE MasterReplicationProofs ----------------------
(***************************************************************************)
(* Proofs about MasterReplication, for any set of connections and any      *)
(* bounds: the type invariant, then the inductive invariant IInv and the   *)
(* safety properties that follow from it, then the refinement of           *)
(* LogShipping.                                                            *)
(***************************************************************************)
EXTENDS MasterReplication, SequenceTheorems, TLAPS

USE BoundsAssumption

-----------------------------------------------------------------------------
(* Type correctness                                                        *)

\* propagate keeps the types of the variables it changes.
LEMMA PropagateType ==
  ASSUME TypeOK, NEW n \in Nat, propagate(n)
  PROVE  /\ offset' \in Nat
         /\ alive' \in [Conn -> BOOLEAN]
         /\ backlog' \in [Conn -> Seq(Nat)]
         /\ sent' \in [Conn -> Seq(Nat)]
         /\ pending' \in [Conn -> Nat]
         /\ linkOffset' \in [Conn -> Nat]
         /\ unregs' \in SUBSET Conn
<1>1. PICK raises \in SUBSET {c \in replicas : state[c] = "live" /\ ~open[c]} :
        PropagateTo(n, raises)
  BY DEF propagate
<1>2. \A c \in Conn : Takes(c, raises) \in BOOLEAN
  BY DEF TypeOK, Takes
<1>3. alive' \in [Conn -> BOOLEAN]
  BY <1>1, <1>2 DEF TypeOK, PropagateTo
<1>4. /\ offset' \in Nat
      /\ pending' \in [Conn -> Nat]
      /\ linkOffset' \in [Conn -> Nat]
  <2>1. offset \in Nat /\ pending \in [Conn -> Nat] /\ linkOffset \in [Conn -> Nat]
    BY DEF TypeOK
  <2>2. offset' \in Nat
    BY <1>1, <2>1 DEF PropagateTo
  <2>3. pending' \in [Conn -> Nat]
    BY <1>1, <2>1 DEF PropagateTo
  <2>4. linkOffset' \in [Conn -> Nat]
    BY <1>1, <2>1 DEF PropagateTo
  <2>5. QED
    BY <2>2, <2>3, <2>4
<1>5. \A c \in Conn : Append(backlog[c], n) \in Seq(Nat)
                       /\ Append(sent[c], n) \in Seq(Nat)
  BY DEF TypeOK
<1>6. backlog' \in [Conn -> Seq(Nat)]
  BY <1>1, <1>5 DEF TypeOK, PropagateTo
<1>7. sent' \in [Conn -> Seq(Nat)]
  BY <1>1, <1>5 DEF TypeOK, PropagateTo
<1>8. unregs' \in SUBSET Conn
  BY <1>1 DEF TypeOK, PropagateTo
<1>9. QED
  BY <1>3, <1>4, <1>6, <1>7, <1>8

\* unregister keeps the types of the variables it changes.
LEMMA UnregisterType ==
  ASSUME TypeOK, NEW c \in Conn, unregister(c)
  PROVE  /\ replicas' \in SUBSET Conn
         /\ alive' \in [Conn -> BOOLEAN]
         /\ drain' \in [Conn -> {"none", "waiting", "draining", "done"}]
BY DEF TypeOK, unregister

\* The initial state has the right types, and every step keeps them.
LEMMA InitType ==
  ASSUME Init
  PROVE  TypeOK
<1>1. <<>> \in Seq(Nat)
  OBVIOUS
<1>2. backlog \in [Conn -> Seq(Nat)] /\ sent \in [Conn -> Seq(Nat)]
  BY <1>1 DEF Init
<1>3. alive \in [Conn -> BOOLEAN] /\ open \in [Conn -> BOOLEAN]
  BY DEF Init
<1>4. /\ state \in [Conn -> {"none", "syncing", "live"}]
      /\ drain \in [Conn -> {"none", "waiting", "draining", "done"}]
      /\ pc \in [Conn -> {"none", "encoding", "draining", "held", "closed"}]
  BY DEF Init
<1>5. /\ applied \in Nat /\ propagated \in Nat /\ offset \in Nat
      /\ pending \in [Conn -> Nat] /\ linkOffset \in [Conn -> Nat]
      /\ snap \in [Conn -> Nat] /\ snapOffset \in [Conn -> Nat]
  BY DEF Init
<1>6. /\ locked \in BOOLEAN /\ healthy \in BOOLEAN
      /\ replicas \in SUBSET Conn /\ unregs \in SUBSET Conn
  BY Zenon DEF Init
<1>7. QED
  BY <1>2, <1>3, <1>4, <1>5, <1>6 DEF TypeOK

\* Every step keeps the types.
LEMMA NextType ==
  ASSUME TypeOK, [Next]_vars
  PROVE  TypeOK'
<1> USE DEF TypeOK, storeVars, linkVars, resyncVars
<1>1. ASSUME NEW e \in 0..MaxEvict, Write(e)
      PROVE  TypeOK'
  BY <1>1 DEF Write
<1>2. CASE Appended
  <2>1. propagate(propagated + 1)
    BY <1>2 DEF Appended
  <2>2. /\ applied' = applied
        /\ propagated' \in Nat
        /\ locked' \in BOOLEAN
        /\ healthy' = healthy
        /\ UNCHANGED <<replicas, state, drain, pc, snap, snapOffset, open>>
    BY <1>2 DEF Appended, propagate, PropagateTo
  <2>3. propagated + 1 \in Nat
    OBVIOUS
  <2>4. /\ offset' \in Nat
        /\ alive' \in [Conn -> BOOLEAN]
        /\ backlog' \in [Conn -> Seq(Nat)]
        /\ sent' \in [Conn -> Seq(Nat)]
        /\ pending' \in [Conn -> Nat]
        /\ linkOffset' \in [Conn -> Nat]
        /\ unregs' \in SUBSET Conn
    BY <2>1, <2>3, PropagateType, SMTT(20)
  <2>5. QED
    BY <2>2, <2>4
<1>3. CASE AppendFails
  BY <1>3, Zenon DEF AppendFails
<1>4. CASE FsyncLoopFails
  BY <1>4, Zenon DEF FsyncLoopFails
<1>5. ASSUME NEW c \in Conn, Resync(c)
      PROVE  TypeOK'
  <2>1. CASE Register(c)
    BY <2>1, SMTT(20) DEF Register
  <2>2. CASE SendSnapshot(c)
    BY <2>2 DEF SendSnapshot
  <2>3. CASE FlushBatch(c)
    BY <2>3, ConcatProperties DEF FlushBatch
  <2>4. CASE GoLive(c)
    BY <2>4, Zenon DEF GoLive
  <2>5. CASE HandlerExit(c)
    <3>1. unregister(c)
      BY <2>5 DEF HandlerExit
    <3>2. QED
      BY <2>5, <3>1, UnregisterType, SMTT(20) DEF HandlerExit, unregister
  <2>6. CASE EncodeFails(c)
    <3>1. unregister(c)
      BY <2>6 DEF EncodeFails
    <3>2. QED
      BY <2>6, <3>1, UnregisterType, SMTT(20) DEF EncodeFails, unregister
  <2>7. QED
    BY <1>5, <2>1, <2>2, <2>3, <2>4, <2>5, <2>6, Zenon DEF Resync
<1>6. ASSUME NEW c \in Conn, Background(c)
      PROVE  TypeOK'
  <2>1. CASE UnregisterTask(c)
    <3>1. unregister(c)
      BY <2>1 DEF UnregisterTask
    <3>2. QED
      BY <2>1, <3>1, UnregisterType, SMTT(20) DEF UnregisterTask, unregister
  <2>2. CASE DrainGet(c)
    BY <2>2 DEF DrainGet
  <2>3. CASE DrainDone(c)
    BY <2>3 DEF DrainDone
  <2>4. CASE DrainFails(c)
    BY <2>4 DEF DrainFails
  <2>5. QED
    BY <1>6, <2>1, <2>2, <2>3, <2>4, Zenon DEF Background
<1>7. ASSUME NEW c \in Conn, ConnectionLost(c)
      PROVE  TypeOK'
  BY <1>7 DEF ConnectionLost
<1>8. CASE UNCHANGED vars
  BY <1>8 DEF vars
<1>9. QED
  BY <1>1, <1>2, <1>3, <1>4, <1>5, <1>6, <1>7, <1>8, Zenon DEF Next, Writes

\* Every variable keeps its type: no step of the write path, of full_resync or
\* of a background task leaves, say, a negative pending count or a link in an
\* unknown state.
THEOREM TypeCorrect == Spec => []TypeOK
<1>1. Init => TypeOK
  BY InitType
<1>2. TypeOK /\ [Next]_vars => TypeOK'
  BY NextType
<1>3. QED
  BY <1>1, <1>2, PTL DEF Spec

-----------------------------------------------------------------------------
(* The inductive invariant                                                 *)

\* Nothing about link c changes.
SameLink(c) ==
  /\ state'[c] = state[c] /\ alive'[c] = alive[c] /\ backlog'[c] = backlog[c]
  /\ pending'[c] = pending[c] /\ linkOffset'[c] = linkOffset[c]
  /\ drain'[c] = drain[c] /\ pc'[c] = pc[c] /\ snap'[c] = snap[c]
  /\ snapOffset'[c] = snapOffset[c] /\ sent'[c] = sent[c]
  /\ c \in replicas' <=> c \in replicas
  /\ c \in unregs' <=> c \in unregs

\* A step that leaves a link, the write path and the offset alone keeps the
\* link's invariant.
LEMMA SameLinkInv ==
  ASSUME NEW c \in Conn, LinkInv(c), SameLink(c), UNCHANGED <<storeVars, offset>>
  PROVE  LinkInv(c)'
<1> USE DEF SameLink, storeVars
<1>1. PhaseInv(c)'
  BY DEF LinkInv, PhaseInv
<1>2. OnTransport(c)' = OnTransport(c) /\ Reach(c)' = Reach(c)
  BY DEF Reach, OnTransport
<1>3. OrderInv(c)'
  BY <1>2 DEF LinkInv, OrderInv, Consecutive
<1>4. KeepsUpInv(c)'
  BY <1>2 DEF LinkInv, KeepsUpInv
<1>5. QED
  BY <1>1, <1>3, <1>4 DEF LinkInv

\* Append adds one element.
LEMMA AppendType ==
  ASSUME NEW s \in Seq(Nat), NEW k \in Nat
  PROVE  Append(s, k) \in Seq(Nat) /\ Len(Append(s, k)) = Len(s) + 1
OBVIOUS

\* The empty sequence is consecutive.
LEMMA ConsecutiveEmpty ==
  ASSUME NEW first
  PROVE  Consecutive(<<>>, first)
BY DEF Consecutive

\* Consecutive sequences grow at their end by the next number, and by the
\* sequence that starts at the next number.
LEMMA ConsecutiveAppend ==
  ASSUME NEW s \in Seq(Nat), NEW first \in Nat, Consecutive(s, first)
  PROVE  Consecutive(Append(s, first + Len(s)), first)
<1> DEFINE t == Append(s, first + Len(s))
<1>1. /\ Len(s) \in Nat /\ Len(t) = Len(s) + 1
      /\ \A i \in 1..Len(s) : t[i] = s[i]
      /\ t[Len(s) + 1] = first + Len(s)
  OBVIOUS
<1>2. ASSUME NEW i \in 1..Len(t) PROVE t[i] = first + i - 1
  <2>1. i \in 1..Len(s) \/ i = Len(s) + 1
    BY <1>1
  <2>2. CASE i \in 1..Len(s)
    BY <1>1, <2>2 DEF Consecutive
  <2>3. CASE i = Len(s) + 1
    BY <1>1, <2>3
  <2>4. QED
    BY <2>1, <2>2, <2>3
<1>3. QED
  BY <1>2 DEF Consecutive

\* Consecutive numbers followed by those that come next are consecutive.
LEMMA ConsecutiveConcat ==
  ASSUME NEW s \in Seq(Nat), NEW r \in Seq(Nat), NEW first \in Nat,
         Consecutive(s, first), Consecutive(r, first + Len(s))
  PROVE  Consecutive(s \o r, first)
<1> DEFINE t == s \o r
<1>1. /\ Len(s) \in Nat /\ Len(r) \in Nat /\ Len(t) = Len(s) + Len(r)
      /\ \A i \in 1..Len(s) : t[i] = s[i]
      /\ \A i \in Len(s) + 1 .. Len(s) + Len(r) : t[i] = r[i - Len(s)]
  BY ConcatProperties
<1>2. ASSUME NEW i \in 1..Len(t) PROVE t[i] = first + i - 1
  <2>1. i \in 1..Len(s) \/ i \in Len(s) + 1 .. Len(s) + Len(r)
    BY <1>1
  <2>2. CASE i \in 1..Len(s)
    BY <1>1, <2>2 DEF Consecutive
  <2>3. CASE i \in Len(s) + 1 .. Len(s) + Len(r)
    <3>1. i - Len(s) \in 1..Len(r)
      BY <1>1, <2>3
    <3>2. r[i - Len(s)] = (first + Len(s)) + (i - Len(s)) - 1
      BY <3>1 DEF Consecutive
    <3>3. QED
      BY <1>1, <2>3, <3>2
  <2>4. QED
    BY <2>1, <2>2, <2>3
<1>3. QED
  BY <1>2 DEF Consecutive

\* The types and lengths a link's proofs use.
LEMMA LinkType ==
  ASSUME TypeOK, NEW c \in Conn
  PROVE  /\ backlog[c] \in Seq(Nat) /\ sent[c] \in Seq(Nat)
         /\ Len(backlog[c]) \in Nat /\ Len(sent[c]) \in Nat
         /\ sent[c] # <<>> => Len(sent[c]) > 0
         /\ snap[c] \in Nat /\ snapOffset[c] \in Nat /\ offset \in Nat
         /\ propagated \in Nat /\ pending[c] \in Nat
         /\ OnTransport(c) \in Nat /\ Reach(c) \in Nat
<1>1. /\ backlog[c] \in Seq(Nat) /\ sent[c] \in Seq(Nat)
      /\ snap[c] \in Nat /\ snapOffset[c] \in Nat /\ offset \in Nat
      /\ propagated \in Nat /\ pending[c] \in Nat
  BY DEF TypeOK
<1>2. /\ Len(backlog[c]) \in Nat /\ Len(sent[c]) \in Nat
      /\ sent[c] # <<>> => Len(sent[c]) > 0
  BY <1>1
<1>3. OnTransport(c) \in Nat
  BY <1>1, <1>2 DEF OnTransport
<1>4. Reach(c) \in Nat
  BY <1>2, <1>3 DEF Reach
<1>5. QED
  BY <1>1, <1>2, <1>3, <1>4

\* A link that is not given up and takes one more effect, the one just
\* propagated, keeps up.
LEMMA KeepsUpByOne ==
  ASSUME TypeOK, NEW c \in Conn, KeepsUpInv(c), alive[c], locked,
         NEW r \in Nat, Reach(c) = r, Reach(c)' = r + 1,
         propagated' = propagated + 1, offset' = offset + 1,
         linkOffset'[c] = offset + 1, UNCHANGED <<snap, snapOffset>>
  PROVE  r = propagated /\ KeepsUpInv(c)'
<1>1. r = propagated /\ offset = snapOffset[c] + (r - snap[c])
  BY DEF KeepsUpInv
<1>2. snap[c] \in Nat /\ snapOffset[c] \in Nat /\ offset \in Nat /\ propagated \in Nat
  BY DEF TypeOK
<1>3. r + 1 = propagated' /\ offset' = snapOffset'[c] + ((r + 1) - snap'[c])
  BY <1>1, <1>2
<1>4. QED
  BY <1>1, <1>3 DEF KeepsUpInv

\* propagate(n), n the effect after the ones propagated, keeps the link
\* invariant: a link takes n where it ends, or is given up.
LEMMA PropagateLink ==
  ASSUME IInv, Appended, NEW c \in Conn
  PROVE  LinkInv(c)'
<1> DEFINE n == propagated + 1
<1>1. PICK raises \in SUBSET {d \in replicas : state[d] = "live" /\ ~open[d]} :
        PropagateTo(n, raises)
  BY DEF Appended, propagate
<1>2. /\ TypeOK /\ LinkInv(c) /\ n \in Nat /\ locked
      /\ propagated' = n /\ applied' = applied /\ healthy' = healthy
  BY DEF IInv, TypeOK, Appended
<1>3. /\ replicas' = replicas /\ state' = state /\ drain' = drain /\ pc' = pc
      /\ snap' = snap /\ snapOffset' = snapOffset
  BY <1>1 DEF PropagateTo, resyncVars
<1>a. PICK t \in Nat : t = OnTransport(c)
  BY <1>2, LinkType
<1>b. PICK l \in Nat : l = Len(backlog[c])
  BY <1>2, LinkType
<1>c. Reach(c) = t + l /\ t + l \in Nat
  BY <1>a, <1>b DEF Reach
<1>d. backlog[c] \in Seq(Nat) /\ sent[c] \in Seq(Nat)
  BY <1>2 DEF TypeOK
<1>4. CASE Takes(c, raises) /\ state[c] = "syncing"
  <2>1. /\ backlog'[c] = Append(backlog[c], n) /\ sent'[c] = sent[c]
        /\ pending'[c] = pending[c] /\ linkOffset'[c] = offset + 1
        /\ alive'[c] = TRUE /\ offset' = offset + 1 /\ unregs \subseteq unregs'
    BY <1>1, <1>2, <1>4, SMTT(20) DEF PropagateTo, TypeOK, Takes
  <2>2. Len(backlog'[c]) = l + 1
    BY <1>b, <1>d, <2>1
  <2>3. alive[c] /\ c \in replicas /\ l + 1 <= BacklogMax
    BY <1>4, <1>b DEF Takes, Overflows
  <2>4. OnTransport(c)' = t
    BY <1>3, <1>a, <2>1 DEF OnTransport
  <2>5. Reach(c)' = (t + l) + 1
    BY <2>2, <2>4 DEF Reach
  <2>6. t + l = propagated /\ KeepsUpInv(c)'
    BY <1>2, <1>3, <1>c, <2>1, <2>3, <2>5, KeepsUpByOne, SMTT(20) DEF LinkInv
  <2>7. PhaseInv(c)'
    BY <1>2, <1>3, <1>4, <2>1, <2>3 DEF LinkInv, PhaseInv
  <2>8. Consecutive(backlog'[c], OnTransport(c)' + 1)
    <3>1. Consecutive(backlog[c], t + 1)
      BY <1>2, <1>a DEF LinkInv, OrderInv
    <3>2. t + 1 \in Nat /\ (t + 1) + l = n
      BY <2>6
    <3>3. Consecutive(Append(backlog[c], (t + 1) + Len(backlog[c])), t + 1)
      BY ONLY <1>d, <3>1, <3>2, ConsecutiveAppend, Zenon
    <3>4. QED
      BY <1>b, <2>1, <2>4, <3>2, <3>3
  <2>9. OrderInv(c)'
    BY <1>2, <1>3, <2>1, <2>8 DEF LinkInv, OrderInv, Consecutive
  <2>10. QED
    BY <1>2, <2>1, <2>2, <2>3, <2>6, <2>7, <2>9 DEF LinkInv
<1>5. CASE Takes(c, raises) /\ state[c] = "live"
  <2>1. /\ backlog'[c] = backlog[c] /\ sent'[c] = Append(sent[c], n)
        /\ pending'[c] = pending[c] + 1 /\ linkOffset'[c] = offset + 1
        /\ alive'[c] = TRUE /\ offset' = offset + 1 /\ unregs \subseteq unregs'
    BY <1>1, <1>2, <1>5, SMTT(20) DEF PropagateTo, TypeOK, Takes
  <2>2. PICK m \in Nat : m = Len(sent[c])
    BY <1>d
  <2>3. Len(sent'[c]) = m + 1 /\ sent'[c] # <<>>
    <3>1. sent'[c] \in Seq(Nat) /\ Len(sent'[c]) = m + 1
      <4>1. /\ Append(sent[c], n) \in Seq(Nat)
            /\ Len(Append(sent[c], n)) = Len(sent[c]) + 1
        <5>1. n \in Nat
          BY <1>2
        <5>2. QED
          BY ONLY <1>d, <5>1, AppendType
      <4>2. QED
        BY <2>1, <2>2, <4>1, Zenon
    <3>2. QED
      BY <2>2, <3>1
  <2>4. alive[c] /\ c \in replicas /\ pending[c] + 1 <= PendingMax
    BY <1>2, <1>5 DEF Takes, Overflows, TypeOK
  <2>5. pc[c] \in {"held", "closed"} /\ backlog[c] = <<>> /\ sent[c] # <<>>
    BY <1>2, <1>5, <2>4 DEF LinkInv, PhaseInv
  <2>6. t = snap[c] + m - 1 /\ l = 0 /\ snap[c] \in Nat
    BY <1>2, <1>a, <1>b, <2>2, <2>5 DEF OnTransport, TypeOK
  <2>7. OnTransport(c)' = t + 1
    BY <1>3, <2>2, <2>3, <2>6 DEF OnTransport
  <2>8. Reach(c)' = (t + l) + 1
    <3>1. Len(backlog'[c]) = l
      BY <1>b, <2>1
    <3>2. QED
      BY <2>7, <3>1 DEF Reach
  <2>9. t + l = propagated /\ KeepsUpInv(c)'
    BY <1>2, <1>3, <1>c, <2>1, <2>4, <2>8, KeepsUpByOne, SMTT(20) DEF LinkInv
  <2>10. PhaseInv(c)'
    BY <1>2, <1>3, <1>5, <2>1, <2>3, <2>4, <2>5 DEF LinkInv, PhaseInv
  <2>11. Consecutive(sent'[c], snap'[c])
    <3>1. Consecutive(Append(sent[c], snap[c] + Len(sent[c])), snap[c])
      BY <1>2, <1>d, <2>6, ConsecutiveAppend, Zenon DEF LinkInv, OrderInv
    <3>2. snap[c] + Len(sent[c]) = n
      BY <2>2, <2>6, <2>9
    <3>3. QED
      BY <1>3, <2>1, <3>1, <3>2
  <2>12. Consecutive(backlog'[c], OnTransport(c)' + 1)
    BY <2>1, <2>5 DEF Consecutive
  <2>13. QED
    BY <1>2, <2>1, <2>4, <2>9, <2>10, <2>11, <2>12 DEF LinkInv, OrderInv
<1>6. CASE c \in replicas /\ ~Takes(c, raises)
  <2>1. /\ backlog'[c] = backlog[c] /\ sent'[c] = sent[c]
        /\ pending'[c] = pending[c] /\ alive'[c] = FALSE /\ c \in unregs'
    BY <1>1, <1>2, <1>6, Zenon DEF PropagateTo, TypeOK, Takes
  <2>2. PhaseInv(c)'
    BY <1>2, <1>3, <2>1, Zenon DEF LinkInv, PhaseInv
  <2>3. OnTransport(c)' = OnTransport(c)
    BY <1>3, <2>1 DEF OnTransport
  <2>4. OrderInv(c)' /\ KeepsUpInv(c)'
    BY <1>2, <1>3, <2>1, <2>3, SMTT(20) DEF LinkInv, OrderInv, KeepsUpInv, Consecutive
  <2>5. QED
    BY <1>2, <2>1, <2>2, <2>4 DEF LinkInv
<1>7. CASE c \notin replicas
  <2>1. /\ backlog'[c] = backlog[c] /\ sent'[c] = sent[c]
        /\ pending'[c] = pending[c] /\ alive'[c] = alive[c]
    BY <1>1, <1>2, <1>7, SMTT(20) DEF PropagateTo, TypeOK, Takes
  <2>2. ~alive[c]
    BY <1>2, <1>7 DEF LinkInv, PhaseInv
  <2>3. OnTransport(c)' = OnTransport(c)
    BY <1>3, <2>1 DEF OnTransport
  <2>4. PhaseInv(c)' /\ OrderInv(c)' /\ KeepsUpInv(c)'
    BY <1>2, <1>3, <2>1, <2>2, <2>3
       DEF LinkInv, PhaseInv, OrderInv, KeepsUpInv, Consecutive
  <2>5. QED
    BY <1>2, <1>3, <1>7, <2>1, <2>4 DEF LinkInv
<1>8. CASE Takes(c, raises) /\ state[c] = "none"
  BY <1>2, <1>8, SMTT(20) DEF LinkInv, PhaseInv, Takes, TypeOK
<1>9. QED
  BY <1>2, <1>4, <1>5, <1>6, <1>7, <1>8 DEF TypeOK, Takes

\* A write that starts, fails, or finds the AOF failed does not disturb a link.
LEMMA WritePathLink ==
  ASSUME IInv, NEW c \in Conn,
         (\E e \in 0..MaxEvict : Write(e)) \/ AppendFails \/ FsyncLoopFails
  PROVE  LinkInv(c)'
<1>1. SameLink(c) /\ offset' = offset /\ propagated' = propagated
  BY DEF Write, AppendFails, FsyncLoopFails, SameLink, linkVars, resyncVars
<1>2. LinkInv(c) /\ WriteInv /\ TypeOK
  BY SMTT(20) DEF IInv
<1>3. OnTransport(c)' = OnTransport(c) /\ Reach(c)' = Reach(c)
  BY <1>1, Zenon DEF SameLink, Reach, OnTransport
<1>4. PhaseInv(c)'
  BY <1>1, <1>2, Zenon DEF LinkInv, PhaseInv, SameLink
<1>5. OrderInv(c)'
  BY <1>1, <1>2, <1>3, Zenon DEF LinkInv, OrderInv, Consecutive, SameLink
<1>6. alive'[c] => \/ Reach(c)' = propagated'
                   \/ ~healthy' /\ ~locked' /\ Reach(c)' = applied'
  <2>1. CASE \E e \in 0..MaxEvict : Write(e)
    BY <1>1, <1>2, <1>3, <2>1, SMTT(20) DEF Write, LinkInv, KeepsUpInv, SameLink
  <2>2. CASE AppendFails \/ FsyncLoopFails
    <3>1. /\ alive'[c] = alive[c] /\ applied' = applied
          /\ ~healthy' /\ (locked \/ (healthy /\ locked' = locked))
      BY <1>1, <2>2, Zenon DEF AppendFails, FsyncLoopFails, SameLink
    <3>2. alive[c] => \/ Reach(c) = propagated
                      \/ ~healthy /\ ~locked /\ Reach(c) = applied
      BY <1>2, Zenon DEF LinkInv, KeepsUpInv
    <3>3. QED
      BY <1>1, <1>3, <3>1, <3>2, Zenon
  <2>3. QED
    BY <2>1, <2>2
<1>7. KeepsUpInv(c)'
  BY <1>1, <1>2, <1>3, <1>6, Zenon DEF LinkInv, KeepsUpInv, SameLink
<1>8. QED
  BY <1>1, <1>2, <1>4, <1>5, <1>7, Zenon DEF LinkInv, SameLink

\* full_resync's registration and snapshot, under the write lock: the new link
\* starts from everything in the store, which is everything propagated unless
\* the AOF has failed.
LEMMA RegisterLink ==
  ASSUME IInv, NEW c \in Conn, Register(c)
  PROVE  LinkInv(c)'
<1>1. TypeOK /\ WriteInv /\ LinkInv(c) /\ pc[c] = "none" /\ ~locked
  BY DEF IInv, Register
<1>2. /\ backlog[c] = <<>> /\ sent[c] = <<>> /\ pending[c] = 0
      /\ drain[c] = "none" /\ state[c] = "none"
  BY <1>1 DEF LinkInv, PhaseInv
<1>3. /\ backlog'[c] = <<>> /\ sent'[c] = <<>> /\ pending'[c] = 0
      /\ drain'[c] = "none" /\ state'[c] = "syncing" /\ alive'[c] = TRUE
      /\ pc'[c] = "encoding" /\ c \in replicas' /\ snap'[c] = applied
      /\ snapOffset'[c] = offset /\ linkOffset'[c] = offset /\ offset' = offset
      /\ applied' = applied /\ propagated' = propagated /\ healthy' = healthy
      /\ locked' = locked
  BY <1>1, <1>2 DEF Register, TypeOK, storeVars
<1>4. applied \in Nat /\ offset \in Nat
  BY <1>1 DEF TypeOK
<1>5. Reach(c)' = applied
  <2>1. OnTransport(c)' = applied
    BY <1>3, Zenon DEF OnTransport
  <2>2. Len(backlog'[c]) = 0
    BY <1>3, EmptySeq, Zenon
  <2>3. Reach(c)' = OnTransport(c)' + Len(backlog'[c])
    BY Zenon DEF Reach
  <2>4. QED
    BY <1>4, <2>1, <2>2, <2>3
<1>6. applied = propagated \/ ~healthy
  BY <1>1 DEF WriteInv
<1>7. offset = offset + (applied - applied)
  BY <1>4
<1>8. KeepsUpInv(c)'
  BY <1>1, <1>3, <1>5, <1>6, <1>7 DEF KeepsUpInv
<1>9. OrderInv(c)'
  BY <1>3, ConsecutiveEmpty, Zenon DEF OrderInv
<1>10. PhaseInv(c)'
  BY <1>3 DEF PhaseInv
<1>11. Len(backlog'[c]) <= BacklogMax /\ pending'[c] <= PendingMax
  <2>1. Len(backlog'[c]) = 0 /\ pending'[c] = 0
    BY <1>3, EmptySeq, Zenon
  <2>2. QED
    BY <2>1
<1>12. QED
  BY <1>3, <1>8, <1>9, <1>10, <1>11, Zenon DEF LinkInv

\* The RDB is the first thing on the transport.
LEMMA SendSnapshotLink ==
  ASSUME IInv, NEW c \in Conn, SendSnapshot(c)
  PROVE  LinkInv(c)'
<1>1. TypeOK /\ LinkInv(c) /\ pc[c] = "encoding"
  BY DEF IInv, SendSnapshot
<1>2. /\ sent'[c] = <<snap[c]>> /\ pc'[c] = "draining"
      /\ replicas' = replicas /\ state' = state /\ alive' = alive
      /\ backlog' = backlog /\ pending' = pending /\ linkOffset' = linkOffset
      /\ drain' = drain /\ unregs' = unregs /\ snap' = snap
      /\ snapOffset' = snapOffset /\ UNCHANGED <<storeVars, offset>>
  BY <1>1 DEF SendSnapshot, TypeOK, linkVars
<1>3. sent[c] = <<>> /\ snap[c] \in Nat
  BY <1>1 DEF LinkInv, PhaseInv, TypeOK
<1>4. Len(sent'[c]) = 1 /\ sent'[c] # <<>> /\ sent'[c][1] = snap[c]
  BY <1>2
<1>5. OnTransport(c)' = OnTransport(c) /\ Reach(c)' = Reach(c)
  BY <1>2, <1>3, <1>4 DEF OnTransport, Reach
<1>6. Consecutive(sent'[c], snap'[c])
  BY <1>2, <1>3, <1>4 DEF Consecutive
<1>7. OrderInv(c)'
  BY <1>1, <1>2, <1>5, <1>6 DEF LinkInv, OrderInv
<1>8. KeepsUpInv(c)'
  BY <1>1, <1>2, <1>5 DEF LinkInv, KeepsUpInv, storeVars
<1>9. PhaseInv(c)'
  BY <1>1, <1>2, <1>4 DEF LinkInv, PhaseInv
<1>10. QED
  BY <1>1, <1>2, <1>7, <1>8, <1>9 DEF LinkInv

\* A flushed batch continues the transport and leaves the backlog empty.
LEMMA FlushBatchLink ==
  ASSUME IInv, NEW c \in Conn, FlushBatch(c)
  PROVE  LinkInv(c)'
<1>1. TypeOK /\ LinkInv(c) /\ pc[c] = "draining"
  BY DEF IInv, FlushBatch
<1>2. /\ sent'[c] = sent[c] \o backlog[c] /\ backlog'[c] = <<>>
      /\ replicas' = replicas /\ state' = state /\ alive' = alive
      /\ pending' = pending /\ linkOffset' = linkOffset /\ drain' = drain
      /\ unregs' = unregs /\ pc' = pc /\ snap' = snap
      /\ snapOffset' = snapOffset /\ UNCHANGED <<storeVars, offset>>
  BY <1>1, SMTT(20) DEF FlushBatch, TypeOK, resyncVars
<1>3. sent[c] # <<>> /\ sent[c] \in Seq(Nat) /\ backlog[c] \in Seq(Nat) /\ snap[c] \in Nat
  BY <1>1 DEF LinkInv, PhaseInv, TypeOK
<1>4. PICK m \in Nat : m = Len(sent[c]) /\ m > 0
  <2>1. Len(sent[c]) \in Nat \ {0}
    BY <1>3, EmptySeq, Zenon
  <2>2. QED
    BY <2>1
<1>5. PICK l \in Nat : l = Len(backlog[c])
  BY <1>3, LenProperties, Zenon
<1>6. sent'[c] \in Seq(Nat) /\ Len(sent'[c]) = m + l
  BY <1>2, <1>3, <1>4, <1>5, ConcatProperties, Zenon
<1>7. sent'[c] # <<>>
  BY <1>4, <1>6
<1>8. OnTransport(c) = snap[c] + m - 1 /\ OnTransport(c)' = snap[c] + (m + l) - 1
  BY <1>2, <1>3, <1>4, <1>6, <1>7 DEF OnTransport
<1>9. Reach(c)' = Reach(c)
  <2>1. Len(backlog'[c]) = 0
    BY <1>2
  <2>2. Reach(c) = (snap[c] + m - 1) + l
    BY <1>5, <1>8 DEF Reach
  <2>3. Reach(c)' = OnTransport(c)' + Len(backlog'[c])
    BY DEF Reach
  <2>4. PICK t \in Nat : t = snap[c] + (m + l) - 1
    BY <1>3, <1>4
  <2>5. t = OnTransport(c)'
    BY <1>8, <2>4
  <2>6. Reach(c)' = t
    BY <2>1, <2>3, <2>5
  <2>7. (snap[c] + m - 1) + l = t
    BY <1>3, <2>4
  <2>8. QED
    BY <2>2, <2>6, <2>7
<1>10. Consecutive(sent'[c], snap'[c])
  <2>1. Consecutive(sent[c], snap[c]) /\ Consecutive(backlog[c], OnTransport(c) + 1)
    BY <1>1 DEF LinkInv, OrderInv
  <2>2. OnTransport(c) + 1 = snap[c] + Len(sent[c])
    <3>1. OnTransport(c) = snap[c] + m - 1 /\ snap[c] \in Nat
      BY <1>3, <1>8, Zenon
    <3>2. OnTransport(c) + 1 = snap[c] + m
      BY <3>1
    <3>3. QED
      BY <1>4, <3>2, Zenon
  <2>3. Consecutive(backlog[c], snap[c] + Len(sent[c]))
    BY <2>1, <2>2
  <2>4. Consecutive(sent[c] \o backlog[c], snap[c])
    BY <1>3, <2>1, <2>3, ConsecutiveConcat, Zenon
  <2>5. QED
    BY <1>2, <2>4
<1>11. OrderInv(c)'
  <2>1. Consecutive(backlog'[c], OnTransport(c)' + 1)
    BY <1>2, ConsecutiveEmpty, Zenon
  <2>2. QED
    BY <1>10, <2>1 DEF OrderInv
<1>12. KeepsUpInv(c)'
  BY <1>1, <1>2, <1>9, SMTT(20) DEF LinkInv, KeepsUpInv, storeVars
<1>13. PhaseInv(c)'
  BY <1>1, <1>2, <1>7 DEF LinkInv, PhaseInv
<1>14. Len(backlog'[c]) <= BacklogMax
  <2>1. Len(backlog'[c]) = 0
    BY <1>2, EmptySeq, Zenon
  <2>2. QED
    BY <2>1
<1>15. QED
  BY <1>1, <1>2, <1>11, <1>12, <1>13, <1>14, Zenon DEF LinkInv

\* The live transition, with an empty backlog.
LEMMA GoLiveLink ==
  ASSUME IInv, NEW c \in Conn, GoLive(c)
  PROVE  LinkInv(c)'
<1>1. TypeOK /\ LinkInv(c) /\ pc[c] = "draining" /\ backlog[c] = <<>>
  BY Zenon DEF IInv, GoLive
<1>2. /\ state'[c] = "live" /\ linkOffset'[c] = offset /\ pc'[c] = "held"
      /\ drain'[c] \in {"waiting", "done"}
      /\ replicas' = replicas /\ alive' = alive /\ backlog' = backlog
      /\ pending' = pending /\ sent' = sent /\ unregs' = unregs
      /\ snap' = snap /\ snapOffset' = snapOffset /\ UNCHANGED <<storeVars, offset>>
  BY <1>1, SMTT(20) DEF GoLive, TypeOK
<1>3. OnTransport(c)' = OnTransport(c) /\ Reach(c)' = Reach(c)
  BY <1>2 DEF OnTransport, Reach
<1>4. OrderInv(c)'
  BY <1>1, <1>2, <1>3, Zenon DEF LinkInv, OrderInv
<1>5. KeepsUpInv(c)'
  BY <1>1, <1>2, <1>3, Zenon DEF LinkInv, KeepsUpInv, storeVars
<1>6. PhaseInv(c)'
  BY <1>1, <1>2 DEF LinkInv, PhaseInv
<1>7. QED
  BY <1>1, <1>2, <1>4, <1>5, <1>6, Zenon DEF LinkInv

\* A link that leaves the table is not alive, so nothing is promised of it but
\* the order of what it was sent.
LEMMA UnregisterLink ==
  ASSUME IInv, NEW c \in Conn, EncodeFails(c) \/ HandlerExit(c) \/ UnregisterTask(c)
  PROVE  LinkInv(c)'
<1>1. TypeOK /\ LinkInv(c) /\ unregister(c)
  BY DEF IInv, EncodeFails, HandlerExit, UnregisterTask
<1>2. /\ c \notin replicas' /\ (alive'[c] <=> alive[c] /\ c \notin replicas)
      /\ drain'[c] \in {drain[c], "done"} /\ (drain[c] = "none" => drain'[c] = "none")
      /\ state' = state /\ backlog' = backlog /\ pending' = pending
  BY <1>1, Zenon DEF unregister, TypeOK
<1>3. /\ pc'[c] = pc[c] \/ (pc[c] # "none" /\ pc'[c] = "closed")
      /\ sent' = sent /\ snap' = snap
  BY <1>1 DEF EncodeFails, HandlerExit, UnregisterTask, resyncVars, TypeOK
<1>4. ~alive'[c]
  BY <1>1, <1>2 DEF LinkInv, PhaseInv
<1>5. OnTransport(c)' = OnTransport(c)
  BY <1>3 DEF OnTransport
<1>6. OrderInv(c)'
  BY <1>1, <1>2, <1>3, <1>5, Zenon DEF LinkInv, OrderInv
<1>7. KeepsUpInv(c)'
  BY <1>4 DEF KeepsUpInv
<1>8. PhaseInv(c)'
  BY <1>1, <1>2, <1>3, <1>4 DEF LinkInv, PhaseInv
<1>9. QED
  BY <1>1, <1>2, <1>6, <1>7, <1>8 DEF LinkInv

\* The drain task only moves the queue, or gives the link up.
LEMMA DrainLink ==
  ASSUME IInv, NEW c \in Conn, DrainGet(c) \/ DrainDone(c) \/ DrainFails(c)
  PROVE  LinkInv(c)'
<1>1. TypeOK /\ LinkInv(c) /\ drain[c] \in {"waiting", "draining"}
  BY DEF IInv, DrainGet, DrainDone, DrainFails
<1>2. /\ drain'[c] \in {"waiting", "draining", "done"}
      /\ replicas' = replicas /\ state' = state /\ backlog' = backlog
      /\ linkOffset' = linkOffset /\ pc' = pc /\ snap' = snap
      /\ snapOffset' = snapOffset /\ sent' = sent /\ UNCHANGED <<storeVars, offset>>
  BY <1>1 DEF DrainGet, DrainDone, DrainFails, resyncVars, TypeOK
<1>3. \/ alive'[c] = alive[c] /\ unregs' = unregs
      \/ ~alive'[c] /\ c \in unregs'
  BY <1>1 DEF DrainGet, DrainDone, DrainFails, TypeOK
<1>4. pending'[c] <= PendingMax
  <2>1. pending[c] \in Nat /\ pending[c] <= PendingMax
    BY <1>1 DEF LinkInv, TypeOK
  <2>2. pending'[c] = pending[c] \/ pending'[c] = pending[c] - 1
    BY <1>1 DEF DrainGet, DrainDone, DrainFails, TypeOK
  <2>3. QED
    BY <2>1, <2>2
<1>5. OnTransport(c)' = OnTransport(c) /\ Reach(c)' = Reach(c)
  BY <1>2 DEF OnTransport, Reach
<1>6. OrderInv(c)'
  BY <1>1, <1>2, <1>5, Zenon DEF LinkInv, OrderInv
<1>7. KeepsUpInv(c)'
  BY <1>1, <1>2, <1>3, <1>5, Zenon DEF LinkInv, KeepsUpInv, storeVars
<1>8. PhaseInv(c)'
  BY <1>1, <1>2, <1>3 DEF LinkInv, PhaseInv
<1>9. QED
  BY <1>1, <1>2, <1>3, <1>4, <1>6, <1>7, <1>8 DEF LinkInv

\* A step of one connection's handler or tasks keeps every link's invariant.
LEMMA ConnectionLink ==
  ASSUME IInv, NEW c \in Conn, NEW d \in Conn,
         Resync(d) \/ Background(d) \/ ConnectionLost(d)
  PROVE  LinkInv(c)'
<1>1. TypeOK /\ LinkInv(c)
  BY DEF IInv
<1>2. UNCHANGED <<storeVars, offset>>
  BY Zenon DEF Resync, Register, SendSnapshot, EncodeFails, FlushBatch, GoLive,
         HandlerExit, Background, UnregisterTask, DrainGet, DrainDone, DrainFails, ConnectionLost
<1>3. CASE c # d
  <2> USE <1>1, <1>3 DEF TypeOK, SameLink, linkVars, resyncVars
  <2>1. CASE Register(d) \/ SendSnapshot(d) \/ FlushBatch(d) \/ GoLive(d)
    <3>1. CASE Register(d)
      BY <1>2, <3>1, SameLinkInv, Zenon DEF Register
    <3>2. CASE SendSnapshot(d)
      BY <1>2, <3>2, SameLinkInv DEF SendSnapshot
    <3>3. CASE FlushBatch(d)
      BY <1>2, <3>3, SameLinkInv DEF FlushBatch
    <3>4. CASE GoLive(d)
      BY <1>2, <3>4, SameLinkInv DEF GoLive
    <3>5. QED
      BY <2>1, <3>1, <3>2, <3>3, <3>4
  <2>2. CASE EncodeFails(d) \/ HandlerExit(d) \/ UnregisterTask(d)
    <3>1. SameLink(c)
      BY <2>2, SMTT(20) DEF EncodeFails, HandlerExit, UnregisterTask, unregister
    <3>2. QED
      BY <1>2, <3>1, SameLinkInv, Zenon
  <2>3. CASE DrainGet(d) \/ DrainDone(d) \/ DrainFails(d) \/ ConnectionLost(d)
    <3>1. SameLink(c)
      BY <2>3, SMTT(20) DEF DrainGet, DrainDone, DrainFails, ConnectionLost
    <3>2. QED
      BY <1>2, <3>1, SameLinkInv, Zenon
  <2>4. QED
    BY <2>1, <2>2, <2>3 DEF Resync, Background
<1>4. CASE c = d /\ ConnectionLost(d)
  <2>1. SameLink(c)
    BY <1>4 DEF ConnectionLost, SameLink, linkVars, resyncVars
  <2>2. QED
    BY <1>1, <1>2, <2>1, SameLinkInv
<1>5. CASE c = d /\ (Resync(d) \/ Background(d))
  BY <1>5, RegisterLink, SendSnapshotLink, FlushBatchLink, GoLiveLink,
     UnregisterLink, DrainLink DEF Resync, Background
<1>6. QED
  BY <1>3, <1>4, <1>5

\* The write path keeps its own invariant: effects wait for propagation only
\* under the lock, and are given up only with the AOF.
LEMMA WritePath ==
  ASSUME IInv, [Next]_vars
  PROVE  WriteInv'
<1>1. TypeOK /\ WriteInv
  BY DEF IInv
<1>2. applied \in Nat /\ propagated \in Nat /\ locked \in BOOLEAN /\ healthy \in BOOLEAN
  BY <1>1 DEF TypeOK
<1>3. CASE \E e \in 0..MaxEvict : Write(e)
  <2>1. PICK e \in 0..MaxEvict : Write(e)
    BY <1>3
  <2>2. QED
    BY <1>1, <1>2, <2>1 DEF Write, WriteInv
<1>4. CASE Appended
  <2>1. /\ applied' = applied /\ propagated' = propagated + 1
        /\ healthy' = healthy /\ locked
    BY <1>4 DEF Appended
  <2>2. locked' <=> healthy /\ propagated + 1 < applied
    BY <1>4, Zenon DEF Appended
  <2>3. propagated < applied
    BY <1>1, <2>1 DEF WriteInv
  <2>4. QED
    BY <1>2, <2>1, <2>2, <2>3 DEF WriteInv
<1>5. CASE AppendFails \/ FsyncLoopFails
  BY <1>1, <1>2, <1>5 DEF AppendFails, FsyncLoopFails, WriteInv
<1>6. CASE UNCHANGED vars \/ \E c \in Conn : Resync(c) \/ Background(c) \/ ConnectionLost(c)
  <2>1. UNCHANGED storeVars
    BY <1>6, Zenon DEF vars, Resync, Register, SendSnapshot, EncodeFails, FlushBatch,
       GoLive, HandlerExit,
       Background, UnregisterTask, DrainGet, DrainDone, DrainFails, ConnectionLost
  <2>2. QED
    BY <1>1, <2>1 DEF storeVars, WriteInv
<1>7. QED
  BY <1>3, <1>4, <1>5, <1>6 DEF Next, Writes

\* IInv holds initially ...
LEMMA InitInv ==
  ASSUME Init
  PROVE  IInv
<1>1. TypeOK
  BY InitType
<1>2. WriteInv
  BY DEF Init, WriteInv
<1>3. ASSUME NEW c \in Conn PROVE LinkInv(c)
  <2>1. /\ pc[c] = "none" /\ c \notin replicas /\ state[c] = "none"
        /\ backlog[c] = <<>> /\ sent[c] = <<>> /\ pending[c] = 0
        /\ drain[c] = "none" /\ alive[c] = FALSE
    BY DEF Init
  <2>2. PhaseInv(c) /\ KeepsUpInv(c)
    BY <2>1 DEF PhaseInv, KeepsUpInv
  <2>3. OrderInv(c)
    BY <2>1, ConsecutiveEmpty, Zenon DEF OrderInv
  <2>4. Len(backlog[c]) <= BacklogMax /\ pending[c] <= PendingMax
    <3>1. Len(backlog[c]) = 0
      BY <2>1, EmptySeq, Zenon
    <3>2. QED
      BY <2>1, <3>1
  <2>5. QED
    BY <2>1, <2>2, <2>3, <2>4, Zenon DEF LinkInv
<1>4. QED
  BY <1>1, <1>2, <1>3 DEF IInv

\* ... every step keeps it ...
LEMMA NextInv ==
  ASSUME IInv, [Next]_vars
  PROVE  IInv'
<1>1. TypeOK'
  BY NextType DEF IInv
<1>2. WriteInv'
  BY WritePath
<1>3. ASSUME NEW c \in Conn PROVE LinkInv(c)'
  <2>1. CASE Writes
    BY <2>1, PropagateLink, WritePathLink DEF Writes
  <2>2. ASSUME NEW d \in Conn, Resync(d) \/ Background(d) \/ ConnectionLost(d)
        PROVE  LinkInv(c)'
    BY <2>2, ConnectionLink
  <2>3. CASE UNCHANGED vars
    <3>1. SameLink(c) /\ UNCHANGED <<storeVars, offset>>
      BY <2>3 DEF vars, SameLink, linkVars, resyncVars
    <3>2. LinkInv(c)
      BY DEF IInv
    <3>3. QED
      BY <3>1, <3>2, SameLinkInv
  <2>4. QED
    BY <2>1, <2>2, <2>3 DEF Next
<1>4. QED
  BY <1>1, <1>2, <1>3 DEF IInv

\* ... and so it is an invariant, and an inductive one.
THEOREM Inductive == Spec => []IInv
<1>1. Init => IInv
  BY InitInv
<1>2. IInv /\ [Next]_vars => IInv'
  BY NextInv
<1>3. QED
  BY <1>1, <1>2, PTL DEF Spec

-----------------------------------------------------------------------------
(* What follows from it                                                    *)

\* Links are of connections.
LEMMA LinksOfConn == IInv => \A c \in replicas : c \in Conn
BY Zenon DEF IInv, TypeOK

\* full_resync and propagate give every connection its snapshot and then the
\* effects after it in order, with no gap and no effect twice.
THEOREM OrderedStreams == Spec => []StreamInOrder
<1>1. IInv => StreamInOrder
  BY Zenon DEF IInv, LinkInv, OrderInv, StreamInOrder
<1>2. QED
  BY <1>1, Inductive, PTL

\* A link that was not given up ends at the last propagated effect: writes during
\* the resync and the flush of the backlog drop nothing.
THEOREM NoneMissed == Spec => []NothingMissed
<1>1. IInv => NothingMissed
  BY LinksOfConn DEF IInv, LinkInv, KeepsUpInv, NothingMissed
<1>2. QED
  BY <1>1, Inductive, PTL

\* A link that went live has no effect left in its backlog, where nobody would
\* look for it again.
THEOREM NoneStranded == Spec => []NothingStranded
<1>1. IInv => NothingStranded
  BY DEF IInv, LinkInv, PhaseInv, NothingStranded
<1>2. QED
  BY <1>1, Inductive, PTL

\* The offset the master reports of a link and its own count the same effects.
THEOREM AgreeingOffsets == Spec => []OffsetsAgree
<1>1. IInv => OffsetsAgree
  BY LinksOfConn DEF IInv, LinkInv, KeepsUpInv, OffsetsAgree
<1>2. QED
  BY <1>1, Inductive, PTL

\* Backlogs and pending queues stay within their limits for any positive limits.
THEOREM BoundedBuffers == Spec => []BuffersBounded
<1>1. IInv => BuffersBounded
  BY Zenon DEF IInv, LinkInv, BuffersBounded
<1>2. QED
  BY <1>1, Inductive, PTL

\* propagate never leaves a link that it gave up without a task that unregisters it.
THEOREM ReapedLinks == Spec => []GivenUpIsReaped
<1>1. IInv => GivenUpIsReaped
  BY LinksOfConn, Zenon DEF IInv, LinkInv, GivenUpIsReaped
<1>2. QED
  BY <1>1, Inductive, PTL

\* A held connection that was given up is never written to again: only
\* propagate writes to a held connection, and it skips a link that is not alive.
THEOREM Silence == Spec => GivenUpStaysSilent
<1> DEFINE Silent == \A c \in Conn : pc[c] = "held" /\ ~alive[c] => sent'[c] = sent[c]
<1>1. IInv /\ [Next]_vars => [Silent]_vars
  <2> SUFFICES ASSUME IInv, [Next]_vars, NEW c \in Conn, pc[c] = "held", ~alive[c]
               PROVE  sent'[c] = sent[c]
    OBVIOUS
  <2>1. TypeOK
    BY DEF IInv
  <2>2. CASE Appended
    <3>1. PICK raises \in SUBSET {d \in replicas : state[d] = "live" /\ ~open[d]} :
            PropagateTo(propagated + 1, raises)
      BY <2>2 DEF Appended, propagate
    <3>2. QED
      BY <3>1 DEF PropagateTo, Takes
  <2>3. CASE (\E e \in 0..MaxEvict : Write(e)) \/ AppendFails \/ FsyncLoopFails
    BY <2>3 DEF Write, AppendFails, FsyncLoopFails
  <2>4. ASSUME NEW d \in Conn, Resync(d) \/ Background(d) \/ ConnectionLost(d)
        PROVE  sent'[c] = sent[c]
    <3>1. CASE SendSnapshot(d) \/ FlushBatch(d)
      <4>1. c # d
        BY <3>1, Zenon DEF SendSnapshot, FlushBatch
      <4>2. QED
        BY <2>1, <3>1, <4>1 DEF SendSnapshot, FlushBatch, TypeOK
    <3>2. CASE ~(SendSnapshot(d) \/ FlushBatch(d))
      BY <2>4, <3>2, Zenon DEF Resync, Register, EncodeFails, GoLive, HandlerExit, Background,
         UnregisterTask, DrainGet, DrainDone, DrainFails, ConnectionLost
    <3>3. QED
      BY <3>1, <3>2
  <2>5. CASE UNCHANGED vars
    BY <2>5 DEF vars
  <2>6. QED
    BY <2>2, <2>3, <2>4, <2>5 DEF Next, Writes
<1>2. QED
  BY <1>1, Inductive, PTL DEF Spec, GivenUpStaysSilent

-----------------------------------------------------------------------------
(* How a stream grows                                                      *)

\* Concatenating does not shorten a sequence.
LEMMA ConcatLonger ==
  ASSUME NEW s \in Seq(Nat), NEW r \in Seq(Nat)
  PROVE  Len(s) <= Len(s \o r)
<1>1. PICK l \in Nat : l = Len(s)
  OBVIOUS
<1>2. PICK m \in Nat : m = Len(r)
  OBVIOUS
<1>3. Len(s \o r) = l + m
  BY <1>1, <1>2, ConcatProperties
<1>4. QED
  BY <1>1, <1>3

\* Appending and concatenating keep a bound on a sequence's elements from some
\* place on.
LEMMA AppendBound ==
  ASSUME NEW s \in Seq(Nat), NEW n \in Nat, NEW b \in Nat, NEW k \in Nat, n <= b,
         \A i \in k..Len(s) : i > 0 => s[i] <= b
  PROVE  \A i \in k..Len(Append(s, n)) : i > 0 => Append(s, n)[i] <= b
<1>1. PICK l \in Nat : l = Len(s)
  OBVIOUS
<1>2. /\ Len(Append(s, n)) = l + 1 /\ Append(s, n)[l + 1] = n
      /\ \A i \in 1..l : Append(s, n)[i] = s[i]
  BY <1>1
<1>3. ASSUME NEW i \in k..(l + 1), i > 0 PROVE Append(s, n)[i] <= b
  BY <1>1, <1>2, <1>3
<1>4. QED
  BY <1>1, <1>2, <1>3

\* What bounds both parts bounds the whole.
LEMMA ConcatBound ==
  ASSUME NEW s \in Seq(Nat), NEW r \in Seq(Nat), NEW b \in Nat, NEW k \in Nat,
         \A i \in k..Len(s) : i > 0 => s[i] <= b,
         \A i \in 1..Len(r) : r[i] <= b
  PROVE  \A i \in k..Len(s \o r) : i > 0 => (s \o r)[i] <= b
<1>1. PICK l \in Nat : l = Len(s)
  OBVIOUS
<1>2. PICK m \in Nat : m = Len(r)
  OBVIOUS
<1> DEFINE t == s \o r
<1>3. /\ Len(t) = l + m
      /\ \A i \in 1..l : t[i] = s[i]
      /\ \A i \in l + 1 .. l + m : t[i] = r[i - l]
  BY <1>1, <1>2, ConcatProperties
<1> HIDE DEF t
<1>4. ASSUME NEW i \in k..(l + m), i > 0 PROVE t[i] <= b
  <2>1. CASE i <= l
    BY <1>1, <1>3, <1>4, <2>1
  <2>2. CASE i > l
    <3>1. i - l \in 1..m /\ t[i] = r[i - l]
      BY <1>3, <1>4, <2>2
    <3>2. QED
      BY <1>2, <3>1
  <2>3. QED
    BY <2>1, <2>2
<1>5. \A i \in k..Len(t) : i > 0 => t[i] <= b
  BY <1>1, <1>3, <1>4
<1>6. QED
  BY <1>5 DEF t

\* What a step may do to a connection: nothing goes onto a transport but the
\* snapshot first, then the backlog or the effect being propagated; a snapshot
\* is taken only before anything is written.
LEMMA StreamStep ==
  ASSUME IInv, [Next]_vars, NEW c \in Conn
  PROVE  /\ applied <= applied' /\ propagated <= propagated'
         /\ \/ snap'[c] = snap[c]
            \/ snap'[c] = applied /\ sent[c] = <<>> /\ sent'[c] = <<>>
         /\ \/ sent'[c] = sent[c] /\ backlog'[c] = backlog[c]
            \/ sent[c] = <<>> /\ sent'[c] = <<snap[c]>> /\ backlog'[c] = backlog[c]
            \/ sent'[c] = sent[c] \o backlog[c] /\ backlog'[c] = <<>>
            \/ sent'[c] = Append(sent[c], propagated') /\ backlog'[c] = backlog[c]
            \/ sent'[c] = sent[c] /\ backlog'[c] = Append(backlog[c], propagated')
<1>1. TypeOK /\ LinkInv(c) /\ applied \in Nat /\ propagated \in Nat
  BY SMTT(20) DEF IInv, TypeOK
<1> DEFINE Grows == /\ \/ snap'[c] = snap[c]
                       \/ snap'[c] = applied /\ sent[c] = <<>> /\ sent'[c] = <<>>
                    /\ \/ sent'[c] = sent[c] /\ backlog'[c] = backlog[c]
                       \/ sent[c] = <<>> /\ sent'[c] = <<snap[c]>>
                            /\ backlog'[c] = backlog[c]
                       \/ sent'[c] = sent[c] \o backlog[c] /\ backlog'[c] = <<>>
                       \/ sent'[c] = Append(sent[c], propagated')
                            /\ backlog'[c] = backlog[c]
                       \/ sent'[c] = sent[c]
                            /\ backlog'[c] = Append(backlog[c], propagated')
<1>2. CASE Appended
  <2>1. PICK raises \in SUBSET {d \in replicas : state[d] = "live" /\ ~open[d]} :
          PropagateTo(propagated + 1, raises)
    BY <1>2, SMTT(20) DEF Appended, propagate
  <2>2. propagated' = propagated + 1 /\ applied' = applied /\ snap' = snap
    BY <1>2, <2>1 DEF Appended, PropagateTo, resyncVars
  <2>3. /\ backlog'[c] = IF Takes(c, raises) /\ state[c] = "syncing"
                         THEN Append(backlog[c], propagated') ELSE backlog[c]
        /\ sent'[c] = IF Takes(c, raises) /\ state[c] = "live"
                      THEN Append(sent[c], propagated') ELSE sent[c]
    BY <2>1, <2>2 DEF PropagateTo
  <2>4. Grows
    <3>1. CASE state[c] = "live"
      BY <2>2, <2>3, <3>1, Zenon
    <3>2. CASE state[c] # "live"
      BY <2>2, <2>3, <3>2, Zenon
    <3>3. QED
      BY <3>1, <3>2, Zenon
  <2>5. applied <= applied' /\ propagated <= propagated'
    BY <1>1, <2>2
  <2>6. QED
    BY <2>4, <2>5, Zenon
<1>3. CASE (\E e \in 0..MaxEvict : Write(e)) \/ AppendFails \/ FsyncLoopFails
  <2>1. /\ propagated' = propagated /\ sent' = sent /\ snap' = snap
        /\ backlog' = backlog
    BY <1>3 DEF Write, AppendFails, FsyncLoopFails, linkVars, resyncVars
  <2>2. applied <= applied'
    BY <1>1, <1>3 DEF Write, AppendFails, FsyncLoopFails
  <2>3. propagated <= propagated'
    BY <1>1, <2>1
  <2>4. QED
    BY <2>1, <2>2, <2>3, Zenon
<1>4. ASSUME NEW d \in Conn, Register(d)
      PROVE  /\ UNCHANGED <<applied, propagated, sent, backlog>>
             /\ snap'[c] = snap[c] \/ (snap'[c] = applied /\ sent[c] = <<>>)
  <2>1. sent[d] = <<>>
    BY <1>4 DEF IInv, LinkInv, PhaseInv, Register
  <2>2. QED
    BY <1>1, <1>4, <2>1, SMTT(20) DEF Register, storeVars, TypeOK
<1>5. ASSUME NEW d \in Conn, SendSnapshot(d)
      PROVE  /\ UNCHANGED <<applied, propagated, snap, backlog>>
             /\ sent'[c] = sent[c] \/ (sent[c] = <<>> /\ sent'[c] = <<snap[c]>>)
  <2>1. sent[d] = <<>>
    BY <1>5, SMTT(20) DEF IInv, LinkInv, PhaseInv, SendSnapshot
  <2>2. QED
    BY <1>1, <1>5, <2>1, SMTT(20) DEF SendSnapshot, storeVars, linkVars, TypeOK
<1>6. ASSUME NEW d \in Conn, FlushBatch(d)
      PROVE  /\ UNCHANGED <<applied, propagated, snap>>
             /\ \/ sent'[c] = sent[c] /\ backlog'[c] = backlog[c]
                \/ sent'[c] = sent[c] \o backlog[c] /\ backlog'[c] = <<>>
  BY <1>1, <1>6, ZenonT(30) DEF FlushBatch, storeVars, resyncVars, TypeOK
<1>7. ASSUME NEW d \in Conn, Resync(d) \/ Background(d) \/ ConnectionLost(d),
             ~Register(d), ~SendSnapshot(d), ~FlushBatch(d)
      PROVE  UNCHANGED <<applied, propagated, snap, sent, backlog>>
  BY <1>7, Zenon DEF Resync, EncodeFails, GoLive, HandlerExit, Background, UnregisterTask,
     unregister, DrainGet, DrainDone, DrainFails, ConnectionLost, storeVars,
     linkVars, resyncVars
<1>8. CASE UNCHANGED vars
  <2>1. UNCHANGED <<applied, propagated, snap, sent, backlog>>
    BY <1>8, Zenon DEF vars, storeVars, linkVars, resyncVars
  <2>2. applied <= applied' /\ propagated <= propagated'
    BY <1>1, <2>1
  <2>3. QED
    BY <2>1, <2>2, Zenon
<1>9. ASSUME NEW d \in Conn, Resync(d) \/ Background(d) \/ ConnectionLost(d)
      PROVE  /\ applied <= applied' /\ propagated <= propagated'
             /\ Grows
  <2>1. UNCHANGED <<applied, propagated>>
    BY <1>4, <1>5, <1>6, <1>7, <1>9, Zenon
  <2>2. Grows
    <3>1. CASE Register(d)
      BY <1>4, <3>1, Zenon
    <3>2. CASE SendSnapshot(d)
      BY <1>5, <3>2, Zenon
    <3>3. CASE FlushBatch(d)
      BY <1>6, <3>3, Zenon
    <3>4. CASE ~Register(d) /\ ~SendSnapshot(d) /\ ~FlushBatch(d)
      BY <1>7, <1>9, <3>4, Zenon
    <3>5. QED
      BY <3>1, <3>2, <3>3, <3>4, Zenon
  <2>3. applied <= applied' /\ propagated <= propagated'
    BY <1>1, <2>1
  <2>4. QED
    BY <2>2, <2>3, Zenon
<1>10. QED
  BY <1>2, <1>3, <1>8, <1>9, Zenon DEF Next, Writes

\* A stream never shrinks, and its snapshot stays what it is.
LEMMA StreamGrows ==
  ASSUME IInv, [Next]_vars, NEW c \in Conn
  PROVE  /\ Len(sent[c]) <= Len(sent'[c])
         /\ sent[c] # <<>> => sent'[c] # <<>> /\ snap'[c] = snap[c]
<1>1. sent[c] \in Seq(Nat) /\ backlog[c] \in Seq(Nat)
  BY DEF IInv, TypeOK
<1>2. propagated' \in Nat /\ sent'[c] \in Seq(Nat) /\ snap[c] \in Nat
  BY NextType DEF IInv, TypeOK
<1>3. Len(sent[c]) <= Len(sent'[c])
  <2>1. CASE sent'[c] = sent[c]
    BY <1>1, <2>1
  <2>2. CASE sent[c] = <<>>
    BY <1>2, <2>2
  <2>3. CASE sent'[c] = sent[c] \o backlog[c]
    BY <1>1, <2>3, ConcatLonger, Zenon
  <2>4. CASE sent'[c] = Append(sent[c], propagated')
    BY <1>1, <1>2, <2>4
  <2>5. QED
    BY <2>1, <2>2, <2>3, <2>4, StreamStep, Zenon
<1>4. sent[c] # <<>> => sent'[c] # <<>>
  BY <1>1, <1>2, <1>3
<1>5. QED
  BY <1>3, <1>4, StreamStep, Zenon

\* Whatever a connection carries was propagated or is its snapshot.
LEMMA Carries ==
  ASSUME IInv, [Next]_vars, NEW c \in Conn, CarriesInv(c)
  PROVE  CarriesInv(c)'
<1>1. sent[c] \in Seq(Nat) /\ backlog[c] \in Seq(Nat) /\ snap[c] \in Nat
  BY DEF IInv, TypeOK
<1>2. /\ applied \in Nat /\ applied' \in Nat
      /\ propagated \in Nat /\ propagated' \in Nat /\ snap'[c] \in Nat
  BY NextType, SMTT(20) DEF IInv, TypeOK
<1>3. applied <= applied' /\ propagated <= propagated'
  BY StreamStep, Zenon
<1>4. snap'[c] <= applied'
  <2>1. snap[c] <= applied
    BY DEF CarriesInv
  <2>2. snap'[c] = snap[c] \/ snap'[c] = applied
    BY StreamStep, Zenon
  <2>3. QED
    BY <1>1, <1>2, <1>3, <2>1, <2>2
<1> DEFINE Below(q, k) == \A i \in k..Len(q) : i > 0 => q[i] <= propagated'
<1>5. Below(sent[c], 2) /\ Below(backlog[c], 1)
  <2>1. ASSUME NEW i \in 2..Len(sent[c]), i > 0 PROVE sent[c][i] <= propagated'
    <3>1. PICK e \in Nat : e = sent[c][i]
      BY <1>1
    <3>2. e <= propagated
      BY <3>1 DEF CarriesInv
    <3>3. QED
      BY <1>2, <1>3, <3>1, <3>2
  <2>2. ASSUME NEW i \in 1..Len(backlog[c]), i > 0 PROVE backlog[c][i] <= propagated'
    <3>1. PICK e \in Nat : e = backlog[c][i]
      BY <1>1
    <3>2. e <= propagated
      BY <3>1 DEF CarriesInv
    <3>3. QED
      BY <1>2, <1>3, <3>1, <3>2
  <2>3. QED
    BY <2>1, <2>2
<1>6. Below(sent'[c], 2)
  <2>1. CASE sent'[c] = sent[c]
    BY <1>5, <2>1
  <2>2. CASE sent'[c] = <<snap[c]>>
    BY <1>1, <2>2
  <2>3. CASE sent'[c] = sent[c] \o backlog[c]
    <3>1. \A i \in 1..Len(backlog[c]) : backlog[c][i] <= propagated'
      BY <1>5
    <3>2. 2 \in Nat
      OBVIOUS
    <3>3. Below(sent[c] \o backlog[c], 2)
      BY ONLY <1>1, <1>2, <1>5, <3>1, <3>2, ConcatBound, Zenon
    <3>4. QED
      BY <2>3, <3>3, Zenon
  <2>4. CASE sent'[c] = Append(sent[c], propagated')
    <3>1. 2 \in Nat /\ propagated' <= propagated'
      BY <1>2
    <3>2. Below(Append(sent[c], propagated'), 2)
      BY ONLY <1>1, <1>2, <1>5, <3>1, AppendBound, Zenon
    <3>3. QED
      BY <2>4, <3>2, Zenon
  <2>5. QED
    BY <2>1, <2>2, <2>3, <2>4, StreamStep, Zenon
<1>7. Below(backlog'[c], 1)
  <2>1. CASE backlog'[c] = backlog[c]
    BY <1>5, <2>1
  <2>2. CASE backlog'[c] = <<>>
    BY <2>2
  <2>3. CASE backlog'[c] = Append(backlog[c], propagated')
    <3>1. 1 \in Nat /\ propagated' <= propagated'
      BY <1>2
    <3>2. Below(Append(backlog[c], propagated'), 1)
      BY ONLY <1>1, <1>2, <1>5, <3>1, AppendBound, Zenon
    <3>3. QED
      BY <2>3, <3>2, Zenon
  <2>4. QED
    BY <2>1, <2>2, <2>3, StreamStep, Zenon
<1>8. QED
  BY <1>4, <1>6, <1>7 DEF CarriesInv

-----------------------------------------------------------------------------
(* MasterReplication implements LogShipping.  The mapping takes a link's   *)
(* transport and backlog for its feed, so the steps that move effects from *)
(* one to the other, and those of the drain task, become stutters.         *)

\* The abstract flag: no write is running and none will be taken.
Refusing == ~healthy /\ ~locked

-----------------------------------------------------------------------------
(* Feeds                                                                   *)

\* Sequences of effects.
LEMMA EffectSequences ==
  ASSUME NEW s \in Seq(Nat), NEW t \in Seq(Nat), NEW k \in Nat
  PROVE  /\ s \o Append(t, k) = Append(s \o t, k)
         /\ s \o <<>> = s
         /\ Append(s, k) # <<>>
         /\ s # <<>> => s \o t # <<>>
<1>1. <<k>> \in Seq(Nat) /\ s \o t \in Seq(Nat)
  BY ConcatProperties
<1>2. Append(t, k) = t \o <<k>> /\ Append(s \o t, k) = (s \o t) \o <<k>>
  BY <1>1, AppendIsConcat
<1>3. (s \o t) \o <<k>> = s \o (t \o <<k>>)
  BY <1>1, ConcatAssociative, SMTT(20)
<1>4. s \o <<>> = s
  BY ConcatEmptySeq
<1>5. s # <<>> => s \o t # <<>>
  BY ConcatEqualIffEmpty
<1>6. Append(s, k) # <<>>
  BY AppendType, SMTT(20)
<1>7. QED
  BY <1>2, <1>3, <1>4, <1>5, <1>6, Zenon

\* A link has a feed once full_resync has registered it.
LEMMA FeedBegun ==
  ASSUME IInv, NEW c \in Conn
  PROVE  FeedOf(c) = <<>> <=> pc[c] = "none"
<1>1. /\ backlog[c] \in Seq(Nat) /\ sent[c] \in Seq(Nat)
      /\ snap[c] \in Nat
  BY LinkType DEF IInv
<1>2. CASE pc[c] = "none"
  BY <1>2 DEF FeedOf
<1>3. CASE pc[c] # "none"
  <2> DEFINE head == IF sent[c] = <<>> THEN <<snap[c]>> ELSE sent[c]
  <2>1. head \in Seq(Nat) /\ head # <<>>
    BY <1>1
  <2>2. head \o backlog[c] # <<>>
    BY <1>1, <2>1, EffectSequences
  <2>3. FeedOf(c) = head \o backlog[c]
    BY <1>3, Zenon DEF FeedOf
  <2>4. QED
    BY <1>3, <2>2, <2>3
<1>4. QED
  BY <1>2, <1>3

\* A feed depends on four variables.
LEMMA SameFeed ==
  ASSUME NEW c \in Conn, pc'[c] = pc[c] \/ {pc[c], pc'[c]} \cap {"none"} = {},
         sent'[c] = sent[c], snap'[c] = snap[c], backlog'[c] = backlog[c]
  PROVE  FeedOf(c)' = FeedOf(c)
BY Zenon DEF FeedOf

\* A step that changes nothing the mapping shows is a stutter.
LEMMA Stutters ==
  ASSUME UNCHANGED <<applied, propagated>>, Refusing' = Refusing,
         CutOff' = CutOff, \A c \in Conn : FeedOf(c)' = FeedOf(c)
  PROVE  UNCHANGED Shipping!vars
BY DEF Shipping!vars, Refusing

-----------------------------------------------------------------------------
(* The write path                                                          *)

\* Links are as they were: so are the feeds, and what is cut off.
LEMMA SameLinks ==
  ASSUME UNCHANGED <<pc, sent, snap, backlog, alive>>
  PROVE  CutOff' = CutOff /\ \A c \in Conn : FeedOf(c)' = FeedOf(c)
BY DEF CutOff, FeedOf

\* A write commits; a failure closes.
LEMMA WriteShips ==
  ASSUME IInv, (\E e \in 0..MaxEvict : Write(e)) \/ AppendFails \/ FsyncLoopFails
  PROVE  [Shipping!Next]_(Shipping!vars)
<1>1. /\ applied \in Nat /\ propagated \in Nat
      /\ locked \in BOOLEAN /\ healthy \in BOOLEAN /\ WriteInv
  BY DEF IInv, TypeOK
<1>2. UNCHANGED <<pc, sent, snap, backlog, alive, propagated>>
  BY DEF Write, AppendFails, FsyncLoopFails, linkVars, resyncVars
<1>3. CutOff' = CutOff /\ \A c \in Conn : FeedOf(c)' = FeedOf(c)
  BY <1>2, SameLinks
<1>4. ASSUME NEW e \in 0..MaxEvict, Write(e)
      PROVE  Shipping!Commit
  <2>1. /\ ~locked /\ healthy /\ applied = propagated
        /\ applied' \in Nat /\ applied' > applied
        /\ locked' /\ healthy'
    BY <1>1, <1>4 DEF Write, WriteInv
  <2>2. QED
    BY <1>2, <1>3, <2>1 DEF Shipping!Commit
<1>5. CASE AppendFails
  <2>1. Shipping!Close
    BY <1>2, <1>3, <1>5 DEF AppendFails, Shipping!Close
  <2>2. QED
    BY <2>1 DEF Shipping!Next
<1>6. CASE FsyncLoopFails
  <2>1. CASE locked
    BY <1>2, <1>3, <1>6, <2>1, Stutters, SMTT(20) DEF FsyncLoopFails, Refusing
  <2>2. CASE ~locked
    <3>1. Shipping!Close
      BY <1>2, <1>3, <1>6, <2>2, SMTT(20) DEF FsyncLoopFails, Shipping!Close
    <3>2. QED
      BY <3>1 DEF Shipping!Next
  <2>3. QED
    BY <2>1, <2>2, SMTT(20)
<1>7. QED
  BY <1>4, <1>5, <1>6 DEF Shipping!Next

\* propagate gives the effect to each feed that is not cut, or cuts it.
LEMMA AppendedShips ==
  ASSUME IInv, IInv', Appended
  PROVE  Shipping!Ship
<1> DEFINE n == propagated + 1
<1>1. PICK raises \in SUBSET {d \in replicas : state[d] = "live" /\ ~open[d]} :
        PropagateTo(n, raises)
  BY SMTT(20) DEF Appended, propagate
<1>2. /\ ~Refusing /\ propagated < applied /\ propagated' = n /\ applied' = applied
      /\ n \in Nat /\ pc' = pc /\ snap' = snap /\ replicas' = replicas
  BY <1>1, ZenonT(30) DEF IInv, TypeOK, WriteInv, Appended, PropagateTo, resyncVars, Refusing
<1>3. \A c \in Conn : /\ alive'[c] => alive[c]
                      /\ alive'[c] <=> Takes(c, raises)
  <2> TAKE c \in Conn
  <2>1. alive[c] => c \in replicas
    BY Zenon DEF IInv, LinkInv, PhaseInv
  <2>2. alive'[c] = IF c \in replicas THEN Takes(c, raises) ELSE alive[c]
    BY <1>1, Zenon DEF PropagateTo
  <2>3. QED
    BY <2>1, <2>2, Zenon DEF Takes
<1>4. CutOff \subseteq CutOff'
  BY <1>2, <1>3, Zenon DEF CutOff
<1>5. ASSUME NEW c \in Conn
      PROVE  FeedOf(c)' = IF FeedOf(c) # <<>> /\ c \notin CutOff'
                          THEN Append(FeedOf(c), n) ELSE FeedOf(c)
  <2>1. c \in CutOff' <=> pc[c] # "none" /\ ~Takes(c, raises)
    BY <1>2, <1>3, Zenon DEF CutOff
  <2>2. CASE ~Takes(c, raises)
    <3>1. sent'[c] = sent[c] /\ backlog'[c] = backlog[c]
      BY <1>1, <2>2, Zenon DEF PropagateTo
    <3>2. FeedOf(c)' = FeedOf(c)
      BY <1>2, <3>1, SameFeed
    <3>3. QED
      BY <2>1, <2>2, <3>2, FeedBegun, SMTT(20)
  <2>3. CASE Takes(c, raises)
    <3>1. \/ /\ pc[c] \in {"encoding", "draining"} /\ state[c] = "syncing"
          \/ /\ pc[c] = "held" /\ state[c] = "live" /\ backlog[c] = <<>>
             /\ sent[c] # <<>>
      <4>1. PhaseInv(c) /\ c \in replicas
        BY <2>3, Zenon DEF IInv, LinkInv, Takes
      <4>2. pc[c] \in {"none", "encoding", "draining", "held", "closed"}
        BY DEF IInv, TypeOK
      <4>3. pc[c] \in {"encoding", "draining", "held"}
        BY <4>1, <4>2, SMTT(20) DEF PhaseInv
      <4>4. pc[c] = "held" => /\ state[c] = "live" /\ backlog[c] = <<>>
                              /\ sent[c] # <<>>
        BY <4>1, SMTT(20) DEF PhaseInv
      <4>5. QED
        BY <4>1, <4>3, <4>4, SMTT(20) DEF PhaseInv
    <3>2. backlog[c] \in Seq(Nat) /\ sent[c] \in Seq(Nat) /\ snap[c] \in Nat
      BY LinkType, Zenon DEF IInv
    <3>3. FeedOf(c)' = Append(FeedOf(c), n)
      <4>1. CASE state[c] = "syncing"
        <5>1. sent'[c] = sent[c] /\ backlog'[c] = Append(backlog[c], n)
          BY <1>1, <2>3, <4>1, Zenon DEF PropagateTo
        <5> DEFINE head == IF sent[c] = <<>> THEN <<snap[c]>> ELSE sent[c]
        <5>2. head \in Seq(Nat)
          BY <3>2
        <5>3. head \o Append(backlog[c], n) = Append(head \o backlog[c], n)
          <6>1. \A s, t \in Seq(Nat), k \in Nat :
                  s \o Append(t, k) = Append(s \o t, k)
            BY EffectSequences, SMTT(20)
          <6> HIDE DEF head, n
          <6>2. QED
            BY <1>2, <3>2, <5>2, <6>1, Zenon
        <5>4. QED
          BY <1>2, <3>1, <4>1, <5>1, <5>3, ZenonT(30) DEF FeedOf
      <4>2. CASE state[c] = "live"
        <5>1. sent'[c] = Append(sent[c], n) /\ backlog'[c] = <<>>
          BY <1>1, <2>3, <3>1, <4>2, Zenon DEF PropagateTo
        <5>2. /\ Append(sent[c], n) \o <<>> = Append(sent[c], n)
              /\ sent[c] \o <<>> = sent[c] /\ Append(sent[c], n) # <<>>
          <6>1. Append(sent[c], n) \in Seq(Nat)
            BY <1>2, <3>2, AppendProperties
          <6>2. QED
            BY <1>2, <3>2, <6>1, EffectSequences, Zenon
        <5>3. FeedOf(c) = sent[c] /\ FeedOf(c)' = Append(sent[c], n)
          BY <1>2, <3>1, <4>2, <5>1, <5>2, Zenon DEF FeedOf
        <5>4. QED
          BY <5>3, SMTT(20)
      <4>3. QED
        BY <3>1, <4>1, <4>2, SMTT(20)
    <3>4. FeedOf(c) # <<>> /\ c \notin CutOff'
      BY <2>1, <2>3, <3>1, FeedBegun, Zenon
    <3>5. QED
      BY <3>3, <3>4, SMTT(20)
  <2>4. QED
    BY <2>2, <2>3, SMTT(20)
<1>6. Refusing' \in BOOLEAN
  BY DEF Refusing
<1>7. QED
  BY <1>2, <1>4, <1>5, <1>6 DEF Shipping!Ship, Refusing

-----------------------------------------------------------------------------
(* Links                                                                   *)

\* A link other than d is as it was.
Elsewhere(d) ==
  \A c \in Conn \ {d} :
    /\ pc'[c] = pc[c] /\ sent'[c] = sent[c] /\ snap'[c] = snap[c]
    /\ backlog'[c] = backlog[c] /\ alive'[c] = alive[c]

\* Each step of link d leaves the others and the write path alone.
LEMMA LinkSteps ==
  ASSUME TypeOK, NEW d \in Conn, Resync(d) \/ Background(d) \/ ConnectionLost(d)
  PROVE  Elsewhere(d) /\ UNCHANGED storeVars
<1>1. CASE Register(d) \/ SendSnapshot(d) \/ FlushBatch(d) \/ GoLive(d)
  BY <1>1, ZenonT(30) DEF TypeOK, Elsewhere, Register, SendSnapshot, FlushBatch, GoLive,
     linkVars, resyncVars
<1>2. CASE EncodeFails(d) \/ HandlerExit(d) \/ UnregisterTask(d)
  <2>1. /\ \A c \in Conn \ {d} : alive'[c] = alive[c] /\ pc'[c] = pc[c]
        /\ UNCHANGED <<sent, snap, backlog, storeVars>>
    BY <1>2, ZenonT(30) DEF TypeOK, EncodeFails, HandlerExit, UnregisterTask, unregister,
       resyncVars
  <2>2. QED
    BY <2>1, Zenon DEF Elsewhere
<1>3. CASE DrainGet(d) \/ DrainDone(d) \/ DrainFails(d) \/ ConnectionLost(d)
  BY <1>3, Zenon DEF TypeOK, Elsewhere, DrainGet, DrainDone, DrainFails,
     ConnectionLost, linkVars, resyncVars
<1>4. QED
  BY <1>1, <1>2, <1>3, SMTT(20) DEF Resync, Background

\* What becomes of link d, seen through the mapping.
LEMMA LinkStutters ==
  ASSUME NEW d \in Conn, Elsewhere(d), UNCHANGED storeVars,
         FeedOf(d)' = FeedOf(d), d \in CutOff' <=> d \in CutOff
  PROVE  UNCHANGED Shipping!vars
<1>1. \A c \in Conn : FeedOf(c)' = FeedOf(c)
  BY SameFeed, ZenonT(30) DEF Elsewhere
<1>2. \A c \in Conn : c \in CutOff' <=> c \in CutOff
  BY Zenon DEF Elsewhere, CutOff
<1>3. CutOff' = CutOff
  BY <1>2, Zenon DEF CutOff
<1>4. QED
  BY <1>1, <1>3, Stutters, SMTT(20) DEF storeVars, Refusing

\* A link that is given up keeps its feed, which is cut.
LEMMA LinkCut ==
  ASSUME NEW d \in Conn, Elsewhere(d), UNCHANGED storeVars,
         FeedOf(d) # <<>>, FeedOf(d)' = FeedOf(d), d \in CutOff'
  PROVE  Shipping!Cut(d)
<1>1. \A c \in Conn : FeedOf(c)' = FeedOf(c)
  BY SameFeed, SMTT(20) DEF Elsewhere
<1>2. \A c \in Conn : c # d => (c \in CutOff' <=> c \in CutOff)
  BY DEF Elsewhere, CutOff
<1>3. CutOff \subseteq Conn /\ CutOff' \subseteq Conn
  BY DEF CutOff
<1>4. CutOff' = CutOff \cup {d}
  BY <1>2, <1>3, SMTT(20)
<1>5. QED
  BY <1>1, <1>4, SMTT(20) DEF storeVars, Shipping!Cut

\* A replica registers: it subscribes.
LEMMA RegisterSubscribes ==
  ASSUME IInv, NEW d \in Conn, Register(d)
  PROVE  Shipping!Subscribe(d)
<1>1. Elsewhere(d) /\ UNCHANGED storeVars
  BY LinkSteps, SMTT(20) DEF IInv, Resync
<1>2. /\ pc[d] = "none" /\ pc'[d] = "encoding" /\ snap'[d] = applied
      /\ backlog'[d] = <<>> /\ sent'[d] = <<>> /\ alive'[d] = TRUE
  BY Zenon DEF IInv, TypeOK, LinkInv, PhaseInv, Register
<1>3. applied \in Nat /\ (applied = propagated \/ Refusing)
  BY DEF IInv, TypeOK, WriteInv, Register, Refusing
<1>4. <<applied>> \o <<>> = <<applied>>
  BY <1>3
<1>5. FeedOf(d) = <<>> /\ FeedOf(d)' = <<applied>>
  BY <1>2, <1>4, SMTT(20) DEF FeedOf
<1>6. \A c \in Conn \ {d} : FeedOf(c)' = FeedOf(c)
  BY <1>1, SameFeed, Zenon DEF Elsewhere
<1>7. \A c \in Conn : c \in CutOff' <=> c \in CutOff
  BY <1>1, <1>2 DEF Elsewhere, CutOff
<1>8. CutOff' = CutOff
  BY <1>7, Zenon DEF CutOff
<1>9. [c \in Conn |-> FeedOf(c)]' = [[c \in Conn |-> FeedOf(c)] EXCEPT ![d] = <<applied>>]
  BY <1>5, <1>6, Zenon
<1>10. QED
  BY <1>1, <1>3, <1>5, <1>8, <1>9 DEF Shipping!Subscribe, Refusing, storeVars

\* The flush loop and the transition to live move effects within the feed.
LEMMA ResyncStutters ==
  ASSUME IInv, NEW d \in Conn, SendSnapshot(d) \/ FlushBatch(d) \/ GoLive(d)
  PROVE  UNCHANGED Shipping!vars
<1>1. Elsewhere(d) /\ UNCHANGED storeVars
  BY LinkSteps, SMTT(20) DEF IInv, Resync
<1>2. alive' = alive /\ pc[d] # "none" /\ pc'[d] # "none" /\ snap' = snap
  BY ZenonT(30) DEF IInv, TypeOK, SendSnapshot, FlushBatch, GoLive, linkVars, resyncVars
<1>3. d \in CutOff' <=> d \in CutOff
  BY <1>2, ZenonT(30) DEF CutOff
<1>4. backlog[d] \in Seq(Nat) /\ sent[d] \in Seq(Nat) /\ snap[d] \in Nat
  BY LinkType, Zenon DEF IInv
<1>5. FeedOf(d)' = FeedOf(d)
  <2>1. CASE SendSnapshot(d)
    <3>1. /\ sent[d] = <<>> /\ sent'[d] = <<snap[d]>> /\ backlog' = backlog
          /\ <<snap[d]>> # <<>>
      BY <2>1, ZenonT(30) DEF IInv, TypeOK, LinkInv, PhaseInv, SendSnapshot, linkVars
    <3>2. QED
      BY <1>2, <3>1, SMTT(20) DEF FeedOf
  <2>2. CASE FlushBatch(d)
    <3>1. /\ sent[d] # <<>> /\ sent'[d] = sent[d] \o backlog[d]
          /\ backlog'[d] = <<>>
      BY <2>2, ZenonT(30) DEF IInv, TypeOK, LinkInv, PhaseInv, FlushBatch
    <3>2. sent[d] \o backlog[d] \in Seq(Nat)
      BY <1>4, ConcatProperties, SMTT(20)
    <3>3. /\ sent[d] \o backlog[d] # <<>>
          /\ (sent[d] \o backlog[d]) \o <<>> = sent[d] \o backlog[d]
      BY <1>4, <3>1, <3>2, EffectSequences, SMTT(20)
    <3>4. QED
      BY <1>2, <3>1, <3>3, Zenon DEF FeedOf
  <2>3. CASE GoLive(d)
    BY <1>2, <2>3, SameFeed, Zenon DEF GoLive
  <2>4. QED
    BY <2>1, <2>2, <2>3, SMTT(20)
<1>6. QED
  BY <1>1, <1>3, <1>5, LinkStutters

\* The end of a handler, of an unregister task or of the drain task cuts the
\* feed; the rest of the drain task and a lost connection do not show.
LEMMA EndCuts ==
  ASSUME IInv, NEW d \in Conn,
         EncodeFails(d) \/ HandlerExit(d) \/ Background(d) \/ ConnectionLost(d)
  PROVE  Shipping!Cut(d) \/ UNCHANGED Shipping!vars
<1>1. Elsewhere(d) /\ UNCHANGED storeVars
  BY LinkSteps, SMTT(20) DEF IInv, Resync
<1>2. PhaseInv(d) /\ TypeOK
  BY Zenon DEF IInv, LinkInv
<1>3. CASE EncodeFails(d) \/ HandlerExit(d) \/ UnregisterTask(d) \/ DrainFails(d)
  <2>1. /\ ~alive'[d] /\ (pc[d] = "none" <=> pc'[d] = "none")
        /\ snap' = snap /\ sent' = sent /\ backlog' = backlog
    BY <1>2, <1>3, ZenonT(30) DEF PhaseInv, TypeOK, EncodeFails, HandlerExit,
       UnregisterTask, DrainFails, unregister, resyncVars
  <2>2. FeedOf(d)' = FeedOf(d)
    BY <2>1, Zenon DEF FeedOf
  <2>3. CASE pc[d] = "none"
    <3>1. d \notin CutOff /\ d \notin CutOff'
      BY <2>1, <2>3, Zenon DEF CutOff
    <3>2. QED
      BY <1>1, <2>2, <3>1, LinkStutters, SMTT(20)
  <2>4. CASE pc[d] # "none"
    <3>1. d \in CutOff' /\ FeedOf(d) # <<>>
      BY <2>1, <2>4, FeedBegun, Zenon DEF CutOff
    <3>2. QED
      BY <1>1, <2>2, <3>1, LinkCut, SMTT(20)
  <2>5. QED
    BY <2>3, <2>4, SMTT(20)
<1>4. CASE DrainGet(d) \/ DrainDone(d) \/ ConnectionLost(d)
  <2>1. UNCHANGED <<pc, sent, snap, backlog, alive>>
    BY <1>4, Zenon DEF DrainGet, DrainDone, ConnectionLost, linkVars, resyncVars
  <2>2. FeedOf(d)' = FeedOf(d) /\ CutOff' = CutOff
    BY <2>1, SameLinks
  <2>3. QED
    BY <1>1, <2>2, LinkStutters, SMTT(20)
<1>5. QED
  BY <1>3, <1>4 DEF Background

-----------------------------------------------------------------------------
\* The master implements log shipping: every behaviour of full_resync,
\* propagate, unregister and the drain tasks, with any failures and overflows,
\* gives each connection a snapshot and then every later effect, once and in
\* order, until it is cut off.
THEOREM Refinement == Spec => ImplementsLogShipping
<1>1. Init => Shipping!Init
  BY DEF Init, Shipping!Init, FeedOf, CutOff
<1>2. IInv /\ IInv' /\ [Next]_vars => [Shipping!Next]_(Shipping!vars)
  <2> SUFFICES ASSUME IInv, IInv', [Next]_vars
               PROVE  [Shipping!Next]_(Shipping!vars)
    OBVIOUS
  <2>1. CASE (\E e \in 0..MaxEvict : Write(e)) \/ AppendFails \/ FsyncLoopFails
    BY <2>1, WriteShips
  <2>2. CASE Appended
    BY <2>2, AppendedShips, SMTT(20) DEF Shipping!Next
  <2>3. ASSUME NEW d \in Conn, Resync(d) \/ Background(d) \/ ConnectionLost(d)
        PROVE  [Shipping!Next]_(Shipping!vars)
    BY <2>3, RegisterSubscribes, ResyncStutters, EndCuts, SMTT(20)
       DEF Resync, Shipping!Next
  <2>4. CASE UNCHANGED vars
    <3>1. UNCHANGED <<pc, sent, snap, backlog, alive, storeVars>>
      BY <2>4 DEF vars, linkVars, resyncVars
    <3>2. QED
      BY <3>1, SameLinks, Stutters, SMTT(20) DEF storeVars, Refusing
  <2>5. QED
    BY <2>1, <2>2, <2>3, <2>4 DEF Next, Writes
<1>3. QED
  BY <1>1, <1>2, Inductive, PTL DEF Spec, ImplementsLogShipping, Shipping!Spec

=============================================================================
