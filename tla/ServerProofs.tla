---------------------------- MODULE ServerProofs ----------------------------
(***************************************************************************)
(* Proofs about two parts of the server that share no state.  Connection,  *)
(* for any set of connections and any limits: slots, waits and wrong       *)
(* passwords, each with an inductive invariant of its own over the type    *)
(* invariant.  RdbFile, for any number of versions and files, and however  *)
(* SAVE and BGSAVE overlap.                                                *)
(***************************************************************************)
EXTENDS Connection, RdbFile, FiniteSetTheorems, TLAPS

-----------------------------------------------------------------------------
(* Client connections                                                      *)

USE ConnectionAssumption

\* A batch that runs has a command left.
TypeInv ==
  /\ TypeOK
  /\ \A c \in Conn : handler[c] = "run" => todo[c] >= 1

\* The handlers that hold a slot.
Held == {c \in Conn : handler[c] \in Counted}

SlotInv == IsFiniteSet(Held) /\ SlotsAreExact

\* The timers of a connection: a read is due before the frame it waits for is
\* overdue, counted from partial_since, which is no later than the frame.
WaitInv(c) ==
  /\ partial_since[c] <= now
  /\ frame_since[c] # None => /\ partial_since[c] # None
                              /\ partial_since[c] <= frame_since[c]
  /\ handler[c] = "read" =>
       /\ now <= deadline[c]
       /\ deadline[c] <= read_since[c] + IdleTimeout
       /\ frame_since[c] # None => deadline[c] <= partial_since[c] + PartialTimeout

\* While a handler goes on, the failures it counts are those its client saw.
GuessInv(c) ==
  /\ rejected[c] <= MaxAuthFailures
  /\ handler[c] \in Serving \cup {"new"} =>
       rejected[c] = failures[c] /\ failures[c] < MaxAuthFailures

-----------------------------------------------------------------------------
(* Types                                                                   *)

\* A new connection has no batch and no timer.
LEMMA TypeInit == Init => TypeInv
BY DEF Init, TypeInv, TypeOK, None

\* The steps that run a command of a batch.
LEMMA RanType ==
  ASSUME TypeInv, NEW c \in Conn, Ran(c)
  PROVE  /\ todo' \in [Conn -> 0..Batch]
         /\ todo[c] # 1 => todo'[c] >= 1
         /\ \A d \in Conn \ {c} : todo'[d] = todo[d]
<1>1. todo[c] \in 1..Batch /\ todo \in [Conn -> 0..Batch]
  BY DEF TypeInv, TypeOK, Ran
<1>2. QED
  BY <1>1 DEF Ran

\* Every step of a handler keeps the types.
LEMMA TypeStep ==
  ASSUME TypeInv, [Next]_vars
  PROVE  TypeInv'
<1> USE DEF Serving, Counted, timers, auth
<1>1. CASE Tick
  BY <1>1 DEF TypeInv, TypeOK, Tick
<1>2. ASSUME NEW c \in Conn, Refuse(c) \/ Accept(c) \/ Finish(c)
      PROVE  TypeInv'
  BY <1>2 DEF TypeInv, TypeOK, Refuse, Accept, Finish, goto
<1>3. ASSUME NEW c \in Conn, LoopTop(c)
      PROVE  TypeInv'
  BY <1>3 DEF TypeInv, TypeOK, LoopTop, goto, remaining, None
<1>4. ASSUME NEW c \in Conn, NEW n \in 0..Batch, NEW incomplete \in BOOLEAN,
             Receive(c, n, incomplete)
      PROVE  TypeInv'
  <2>1. /\ todo' \in [Conn -> 0..Batch]
        /\ frame_since' \in [Conn -> None..MaxTime]
        /\ partial_since' \in [Conn -> None..MaxTime]
    BY <1>4 DEF TypeInv, TypeOK, Receive, None
  <2>2. /\ handler' \in [Conn -> Counted \cup {"new", "refused", "closed"}]
        /\ \A d \in Conn : handler'[d] = "run" => todo'[d] >= 1
        /\ \A d \in Conn : handler[d] \in Serving => handler'[d] \in Serving
        /\ \A d \in Conn : handler[d] = "finally" => handler'[d] = "finally"
    BY <1>4 DEF TypeInv, TypeOK, Receive, goto
  <2>3. QED
    BY <1>4, <2>1, <2>2 DEF TypeInv, TypeOK, Receive
<1>5. ASSUME NEW c \in Conn, ReadTimeout(c) \/ ClientGone(c)
      PROVE  TypeInv'
  BY <1>5 DEF TypeInv, TypeOK, ReadTimeout, ClientGone, goto
<1>6. ASSUME NEW c \in Conn,
             Command(c) \/ AuthSucceeds(c) \/ AuthFails(c) \/ Psync(c)
      PROVE  TypeInv'
  <2>1. /\ todo' \in [Conn -> 0..Batch]
        /\ todo[c] # 1 => todo'[c] >= 1
        /\ \A d \in Conn \ {c} : todo'[d] = todo[d]
    BY <1>6, RanType DEF Command, AuthSucceeds, AuthFails, Psync
  <2>2. /\ handler[c] = "run"
        /\ \/ handler' = [handler EXCEPT ![c] = "top"]
           \/ handler' = [handler EXCEPT ![c] = "run"] /\ todo[c] # 1
           \/ handler' = [handler EXCEPT ![c] = "finally"]
           \/ handler' = [handler EXCEPT ![c] = "replica"]
    BY <1>6 DEF Command, AuthSucceeds, AuthFails, Psync, Ran, NextCommand, goto
  <2>3. /\ failures' \in [Conn -> Nat] /\ rejected' \in [Conn -> Nat]
        /\ authenticated' = authenticated \/ authenticated' = authenticated \cup {c}
        /\ UNCHANGED <<now, count, deadline, partial_since, frame_since, read_since>>
    BY <1>6 DEF TypeInv, TypeOK, Command, AuthSucceeds, AuthFails, Psync
  <2>4. QED
    BY <2>1, <2>2, <2>3 DEF TypeInv, TypeOK
<1>7. ASSUME NEW c \in Conn, Cleanup(c)
      PROVE  TypeInv'
  BY <1>7 DEF TypeInv, TypeOK, Cleanup, goto
<1>8. CASE UNCHANGED vars
  BY <1>8 DEF vars, TypeInv, TypeOK
<1>9. QED
  BY <1>1, <1>2, <1>3, <1>4, <1>5, <1>6, <1>7, <1>8 DEF Next, Serve

\* The variables of handle_client keep their types, and a handler runs a batch
\* only while a command of it is left.
THEOREM TypeCorrect == Spec => []TypeInv
BY TypeInit, TypeStep, PTL DEF Spec

\* handle_client's tables stay within their types; only connections whose handler
\* has not yet cleaned up are in _authenticated_connections.
THEOREM WellTyped == Spec => []TypeOK
BY TypeCorrect, PTL DEF TypeInv

-----------------------------------------------------------------------------
(* Slots                                                                   *)

\* Steps that neither take nor give back a slot.
SameSlots == Held' = Held /\ count' = count

\* Between admission and the end of its finally block a handler keeps its slot,
\* whichever way it goes.
LEMMA HandlersKeepSlots ==
  ASSUME TypeInv, NEW c \in Conn, Serve(c), ~Accept(c), ~Finish(c)
  PROVE  SameSlots
<1> USE DEF TypeInv, TypeOK, Serving, Counted, Held, SameSlots, goto
<1>1. CASE Refuse(c)
  BY <1>1 DEF Refuse
<1>2. CASE LoopTop(c)
  BY <1>2 DEF LoopTop
<1>3. ASSUME NEW n \in 0..Batch, NEW incomplete \in BOOLEAN,
             Receive(c, n, incomplete)
      PROVE  SameSlots
  BY <1>3 DEF Receive
<1>4. CASE ReadTimeout(c) \/ ClientGone(c) \/ Cleanup(c)
  BY <1>4 DEF ReadTimeout, ClientGone, Cleanup
<1>5. CASE Command(c) \/ AuthSucceeds(c) \/ AuthFails(c) \/ Psync(c)
  BY <1>5 DEF Command, AuthSucceeds, AuthFails, Psync, Ran, NextCommand
<1>6. QED
  BY <1>1, <1>2, <1>3, <1>4, <1>5 DEF Serve

\* Admission adds its connection to the holders and to the count; the end of
\* the handler removes both.
LEMMA SlotStep ==
  ASSUME TypeInv, SlotInv, [Next]_vars
  PROVE  SlotInv'
<1> USE DEF TypeInv, TypeOK, SlotInv, SlotsAreExact
<1>h. Held = {c \in Conn : handler[c] \in Counted}
  BY DEF Held
<1>s. ASSUME SameSlots PROVE SlotInv'
  BY <1>s, Zenon DEF SameSlots, Held
<1>1. ASSUME NEW c \in Conn, Accept(c)
      PROVE  SlotInv'
  <2>1. Held' = Held \cup {c} /\ c \notin Held
    BY <1>1 DEF Accept, goto, Held, Serving, Counted
  <2>2. IsFiniteSet(Held \cup {c}) /\ Cardinality(Held \cup {c}) = Cardinality(Held) + 1
    BY <2>1, FS_AddElement
  <2>3. count' = count + 1 /\ count < MaxClients /\ count = Cardinality(Held)
    BY <1>1, <1>h DEF Accept
  <2>4. count' = Cardinality(Held') /\ count' <= MaxClients
    BY <2>1, <2>2, <2>3
  <2>5. QED
    BY <2>1, <2>2, <2>4, Zenon DEF Held
<1>2. ASSUME NEW c \in Conn, Finish(c)
      PROVE  SlotInv'
  <2>1. Held' = Held \ {c} /\ c \in Held
    BY <1>2 DEF Finish, goto, Held, Serving, Counted
  <2>2. IsFiniteSet(Held \ {c}) /\ Cardinality(Held \ {c}) = Cardinality(Held) - 1
    BY <2>1, FS_RemoveElement
  <2>3. count' = count - 1 /\ count <= MaxClients /\ count = Cardinality(Held)
    BY <1>2, <1>h DEF Finish
  <2>4. count' = Cardinality(Held') /\ count' <= MaxClients
    BY <2>1, <2>2, <2>3
  <2>5. QED
    BY <2>1, <2>2, <2>4, Zenon DEF Held
<1>3. ASSUME Tick \/ UNCHANGED vars
      PROVE  SlotInv'
  BY <1>3, <1>s DEF Tick, vars, SameSlots, Held
<1>4. QED
  BY <1>1, <1>2, <1>3, <1>s, HandlersKeepSlots DEF Next

\* No handler holds a slot at first.
LEMMA SlotInit == Init => SlotInv
<1> SUFFICES ASSUME Init PROVE SlotInv
  OBVIOUS
<1>1. Held = {}
  BY DEF Init, Held, Serving, Counted
<1>2. IsFiniteSet(Held) /\ Cardinality(Held) = 0
  BY <1>1, FS_EmptySet
<1>3. QED
  BY <1>2 DEF Init, SlotInv, SlotsAreExact, Held

\* _client_count is the number of admitted handlers that have not finished, and
\* never more than max_clients, for any number of connections.
THEOREM ExactSlots == Spec => []SlotsAreExact
<1>1. SlotInv => SlotsAreExact
  BY DEF SlotInv
<1>2. QED
  BY SlotInit, SlotStep, TypeCorrect, <1>1, PTL DEF Spec

-----------------------------------------------------------------------------
(* Waits                                                                   *)

\* A handler's step keeps its own timers right; it leaves the others alone.
LEMMA WaitServe ==
  ASSUME TypeInv, NEW c \in Conn, Serve(c), NEW d \in Conn, WaitInv(d)
  PROVE  WaitInv(d)'
<1> USE DEF TypeInv, TypeOK, None, goto, timers
<1>1. CASE LoopTop(c)
  <2>1. CASE d = c
    <3> DEFINE partial == frame_since[c] # None /\ partial_since[c] # None
    <3>1. CASE partial /\ remaining(c) <= 0
      BY <1>1, <2>1, <3>1 DEF LoopTop, WaitInv
    <3>2. CASE partial /\ remaining(c) > 0
      BY <1>1, <2>1, <3>2 DEF LoopTop, WaitInv, remaining
    <3>3. CASE ~partial
      BY <1>1, <2>1, <3>3 DEF LoopTop, WaitInv
    <3>4. remaining(c) \in Int
      BY DEF remaining
    <3>5. QED
      BY <3>1, <3>2, <3>3, <3>4
  <2>2. CASE d # c
    BY <1>1, <2>2 DEF LoopTop, WaitInv
  <2>3. QED
    BY <2>1, <2>2
<1>2. ASSUME NEW n \in 0..Batch, NEW incomplete \in BOOLEAN,
             Receive(c, n, incomplete)
      PROVE  WaitInv(d)'
  BY <1>2 DEF Receive, WaitInv
<1>3. CASE Refuse(c) \/ Accept(c) \/ ReadTimeout(c) \/ ClientGone(c)
           \/ Cleanup(c) \/ Finish(c)
  BY <1>3 DEF Refuse, Accept, ReadTimeout, ClientGone, Cleanup, Finish, WaitInv
<1>4. CASE Command(c) \/ AuthSucceeds(c) \/ AuthFails(c) \/ Psync(c)
  BY <1>4 DEF Command, AuthSucceeds, AuthFails, Psync, Ran, NextCommand, WaitInv
<1>5. QED
  BY <1>1, <1>2, <1>3, <1>4 DEF Serve

\* Time does not pass a timer that is due.
LEMMA WaitStep ==
  ASSUME TypeInv, \A d \in Conn : WaitInv(d), [Next]_vars
  PROVE  \A d \in Conn : WaitInv(d)'
<1>1. CASE Tick
  BY <1>1 DEF Tick, WaitInv, TypeInv, TypeOK, timers, None
<1>2. CASE \E c \in Conn : Serve(c)
  BY <1>2, WaitServe
<1>3. CASE UNCHANGED vars
  BY <1>3 DEF vars, timers, WaitInv
<1>4. QED
  BY <1>1, <1>2, <1>3 DEF Next

\* A handler's read never outlasts the idle timeout, nor the partial timeout of
\* the frame it waits for, for any timeouts and however the bytes arrive.
THEOREM BoundedWaits == Spec => []WaitsAreBounded
<1> DEFINE Waits == \A d \in Conn : WaitInv(d)
<1>1. Init => Waits
  BY DEF Init, WaitInv, None
<1>2. TypeInv /\ Waits /\ [Next]_vars => Waits'
  BY WaitStep
<1>3. TypeInv /\ Waits => WaitsAreBounded
  BY DEF TypeInv, TypeOK, WaitInv, WaitsAreBounded, None
<1> HIDE DEF Waits
<1>4. QED
  BY <1>1, <1>2, <1>3, TypeCorrect, PTL DEF Spec

-----------------------------------------------------------------------------
(* Wrong passwords                                                         *)

\* A failed AUTH ends the handler at the limit, also inside a batch.
LEMMA GuessServe ==
  ASSUME TypeInv, NEW c \in Conn, Serve(c), NEW d \in Conn, GuessInv(d)
  PROVE  GuessInv(d)'
<1> USE DEF TypeInv, TypeOK, Serving, Counted, goto, auth
<1>1. CASE LoopTop(c)
  BY <1>1 DEF LoopTop, GuessInv
<1>2. ASSUME NEW n \in 0..Batch, NEW incomplete \in BOOLEAN,
             Receive(c, n, incomplete)
      PROVE  GuessInv(d)'
  BY <1>2 DEF Receive, GuessInv
<1>3. CASE Refuse(c) \/ Accept(c) \/ ReadTimeout(c) \/ ClientGone(c)
           \/ Cleanup(c) \/ Finish(c)
  BY <1>3 DEF Refuse, Accept, ReadTimeout, ClientGone, Cleanup, Finish, GuessInv
<1>4. CASE Command(c) \/ AuthSucceeds(c) \/ Psync(c)
  BY <1>4 DEF Command, AuthSucceeds, Psync, Ran, NextCommand, GuessInv
<1>5. CASE AuthFails(c)
  BY <1>5 DEF AuthFails, Ran, NextCommand, GuessInv
<1>6. QED
  BY <1>1, <1>2, <1>3, <1>4, <1>5 DEF Serve

\* No client sees more than max_auth_failures wrong answers in a row, for any
\* limit and any batches.
THEOREM BoundedGuesses == Spec => []GuessesAreBounded
<1> DEFINE Guesses == \A d \in Conn : GuessInv(d)
<1>1. Init => Guesses
  BY DEF Init, GuessInv
<1>2. TypeInv /\ Guesses /\ [Next]_vars => Guesses'
  <2> SUFFICES ASSUME TypeInv, Guesses, [Next]_vars, NEW d \in Conn
               PROVE  GuessInv(d)'
    OBVIOUS
  <2>1. CASE Tick
    BY <2>1 DEF Tick, GuessInv, auth
  <2>2. CASE \E c \in Conn : Serve(c)
    BY <2>2, GuessServe
  <2>3. CASE UNCHANGED vars
    BY <2>3 DEF vars, auth, GuessInv
  <2>4. QED
    BY <2>1, <2>2, <2>3 DEF Next
<1>3. Guesses => GuessesAreBounded
  BY DEF GuessInv, GuessesAreBounded
<1> HIDE DEF Guesses
<1>4. QED
  BY <1>1, <1>2, <1>3, TypeCorrect, PTL DEF Spec

-----------------------------------------------------------------------------
(* The dump: that of a save that ran alone is whole, and not older than    *)
(* the one it replaces                                                     *)

HIDE ConnectionAssumption
USE RdbFileAssumption

\* A file holds nothing newer than the keyspace.
NotAhead(i) == \A k \in DOMAIN content[i] : content[i][k] <= version

\* The dump holds nothing newer than version v.
DumpUpTo(v) == content[dump] # <<>> => Head(content[dump]) <= v

\* What holds of a save that is under way, overlapped or not: what it encodes,
\* writes to and will rename is not ahead of the keyspace.
SaverInv(s) ==
  step[s] # "idle" =>
    /\ payload[s] <= version
    /\ step[s] \in {"write", "replace"} => NotAhead(handle[s]) /\ NotAhead(tmp)

\* What holds of one that runs alone: where it is decides what the file under the
\* temporary name holds.
LoneInv(s) ==
  step[s] # "idle" /\ ~shared =>
    /\ \A t \in Saver : t # s => step[t] = "idle"
    /\ step[s] \in {"write", "replace"} => handle[s] = tmp
    /\ step[s] = "write" => content[tmp] = <<>>
    /\ step[s] = "replace" => content[tmp] = Encode(payload[s])
    /\ DumpUpTo(payload[s])

\* The two names never refer to one file, nobody has a clean dump open, and what
\* is dumped was once in memory.
RdbInv ==
  /\ RdbTypeOK
  /\ LoneDumpIsWhole
  /\ content[NoFile] = <<>>
  /\ tmp # NoFile => tmp # dump
  /\ clean /\ dump # NoFile => \A s \in Saver : handle[s] # dump
  /\ NotAhead(dump)
  /\ \A s \in Saver : SaverInv(s) /\ LoneInv(s)

-----------------------------------------------------------------------------
(* Encodings                                                               *)

\* An encoding is a sequence of its version.
LEMMA EncodeFacts ==
  ASSUME NEW v \in 0..MaxVersion
  PROVE  /\ Encode(v) \in Seq(0..MaxVersion)
         /\ Encode(v) # <<>>
         /\ Head(Encode(v)) = v
         /\ \A k \in DOMAIN Encode(v) : Encode(v)[k] = v
         /\ SubSeq(Encode(v), 1, 1) \in Seq(0..MaxVersion)
         /\ \A k \in DOMAIN SubSeq(Encode(v), 1, 1) : SubSeq(Encode(v), 1, 1)[k] = v
<1>1. Size(v) \in Nat /\ Size(v) >= 1
  BY DEF Size
<1>2. /\ Encode(v) \in Seq(0..MaxVersion)
      /\ Len(Encode(v)) = Size(v)
      /\ \A i \in 1..Size(v) : Encode(v)[i] = v
  BY <1>1 DEF Encode
<1>3. /\ Encode(v) # <<>> /\ Head(Encode(v)) = v
      /\ \A k \in DOMAIN Encode(v) : Encode(v)[k] = v
  BY <1>1, <1>2
<1>4. /\ SubSeq(Encode(v), 1, 1) \in Seq(0..MaxVersion)
      /\ Len(SubSeq(Encode(v), 1, 1)) = 1
      /\ SubSeq(Encode(v), 1, 1)[1] = Encode(v)[1]
  BY <1>1, <1>2
<1>5. \A k \in DOMAIN SubSeq(Encode(v), 1, 1) : SubSeq(Encode(v), 1, 1)[k] = v
  BY <1>1, <1>2, <1>4
<1>6. QED
  BY <1>2, <1>3, <1>4, <1>5

\* What a concatenation holds.
LEMMA Concatenation ==
  ASSUME NEW S, NEW a \in Seq(S), NEW b \in Seq(S)
  PROVE  /\ a \o b \in Seq(S)
         /\ Len(a \o b) = Len(a) + Len(b)
         /\ \A k \in 1..Len(a \o b) :
              (a \o b)[k] = IF k <= Len(a) THEN a[k] ELSE b[k - Len(a)]
OBVIOUS

\* Version v written over a file from offset 0.
Over(old, v) == Encode(v) \o SubSeq(old, Len(Encode(v)) + 1, Len(old))

\* The elements of the file then are v, or were there before.
LEMMA Overwrite ==
  ASSUME NEW v \in 0..MaxVersion, NEW old \in Seq(0..MaxVersion)
  PROVE  /\ Over(old, v) \in Seq(0..MaxVersion)
         /\ \A k \in DOMAIN Over(old, v) :
              Over(old, v)[k] = v \/ \E j \in DOMAIN old : Over(old, v)[k] = old[j]
         /\ old = <<>> => Over(old, v) = Encode(v)
<1>1. /\ Encode(v) \in Seq(0..MaxVersion) /\ Encode(v) # <<>>
      /\ \A k \in DOMAIN Encode(v) : Encode(v)[k] = v
  BY EncodeFacts
<1> DEFINE e == Encode(v)
           rest == SubSeq(old, Len(e) + 1, Len(old))
           all == e \o rest
<1>2. Len(e) \in Nat /\ Len(old) \in Nat
  BY <1>1
<1> HIDE DEF e
<1>3. /\ rest \in Seq(0..MaxVersion)
      /\ Len(rest) = IF Len(e) < Len(old) THEN Len(old) - Len(e) ELSE 0
      /\ \A j \in 1..Len(rest) : rest[j] = old[Len(e) + j]
  BY <1>2
<1>n. Over(old, v) = all
  BY DEF e, Over
<1> HIDE DEF rest
<1>4. /\ all \in Seq(0..MaxVersion) /\ Len(all) = Len(e) + Len(rest)
      /\ \A k \in 1..Len(all) :
           all[k] = IF k <= Len(e) THEN e[k] ELSE rest[k - Len(e)]
  <2>1. e \in Seq(0..MaxVersion) /\ rest \in Seq(0..MaxVersion)
    BY <1>1, <1>3 DEF e
  <2>2. QED
    BY <2>1, Concatenation
<1>5. ASSUME NEW k \in DOMAIN all
      PROVE  all[k] = v \/ \E j \in DOMAIN old : all[k] = old[j]
  <2>1. k \in 1..Len(all) /\ k \in Int
    BY <1>2, <1>3, <1>4
  <2>2. CASE k <= Len(e)
    BY <1>1, <1>2, <1>4, <2>1, <2>2 DEF e
  <2>3. CASE k > Len(e)
    <3>1. k - Len(e) \in 1..Len(rest) /\ k \in 1..Len(old)
      BY <1>2, <1>3, <1>4, <2>1, <2>3
    <3>2. all[k] = old[Len(e) + (k - Len(e))]
      BY <1>2, <1>3, <1>4, <2>1, <2>3, <3>1
    <3>3. all[k] = old[k] /\ k \in DOMAIN old
      BY <1>2, <2>1, <3>1, <3>2
    <3>4. QED
      BY <3>3
  <2>4. QED
    BY <1>2, <2>1, <2>2, <2>3
<1>6. ASSUME old = <<>> PROVE all = Encode(v)
  <2>1. rest = <<>>
    BY <1>2, <1>3, <1>6
  <2>2. QED
    BY <1>1, <2>1 DEF e
<1>7. QED
  BY <1>4, <1>5, <1>6, <1>n

\* A whole dump holds a version, its first element.
LEMMA LoadedVersion ==
  ASSUME Loadable
  PROVE  /\ content[dump] # <<>>
         /\ Head(content[dump]) \in 0..MaxVersion
         /\ \A k \in DOMAIN content[dump] : content[dump][k] = Head(content[dump])
<1>1. PICK v \in 0..MaxVersion : content[dump] = Encode(v)
  BY DEF Loadable
<1>2. QED
  BY <1>1, EncodeFacts, Zenon

-----------------------------------------------------------------------------
\* There is no file at first.
LEMMA RdbInvInit == RdbInit => RdbInv
<1> SUFFICES ASSUME RdbInit PROVE RdbInv
  OBVIOUS
<1>1. RdbTypeOK
  <2>1. content \in [Inode -> Seq(0..MaxVersion)]
    BY DEF RdbInit
  <2>2. /\ version \in 0..MaxVersion /\ created \in 0..MaxInode
        /\ tmp \in 0..created /\ dump \in 0..created
    BY DEF RdbInit, NoFile
  <2>3. /\ payload \in [Saver -> 0..MaxVersion]
        /\ handle \in [Saver -> 0..MaxInode]
    BY DEF RdbInit, NoFile
  <2>4. QED
    BY <2>1, <2>2, <2>3, Zenon DEF RdbInit, RdbTypeOK
<1>2. content[NoFile] = <<>> /\ dump = NoFile /\ tmp = NoFile
  BY DEF RdbInit, NoFile, Inode
<1>3. NotAhead(dump)
  BY <1>2 DEF NotAhead
<1>4. \A s \in Saver : SaverInv(s) /\ LoneInv(s)
  BY DEF RdbInit, SaverInv, LoneInv
<1>5. QED
  BY <1>1, <1>2, <1>3, <1>4 DEF RdbInv, LoneDumpIsWhole, DumpIsWhole

\* A step that leaves the dump and its contents alone keeps it as it is.
LEMMA SameDump ==
  ASSUME dump' = dump, content'[dump] = content[dump]
  PROVE  /\ DumpIsWhole => DumpIsWhole'
         /\ \A v : DumpUpTo(v) <=> DumpUpTo(v)'
BY DEF DumpIsWhole, Loadable, DumpUpTo

\* A dump that is not ahead of the keyspace is no newer than it.
LEMMA DumpUpToVersion ==
  ASSUME RdbTypeOK, NotAhead(dump)
  PROVE  DumpUpTo(version)
<1>1. content[dump] \in Seq(0..MaxVersion)
  BY SMTT(20) DEF RdbTypeOK, Inode
<1>2. QED
  BY <1>1 DEF NotAhead, DumpUpTo

-----------------------------------------------------------------------------
(* Steps                                                                   *)

\* While one save runs alone no other one is under way.
LEMMA OnlyOne ==
  ASSUME RdbInv, NEW s \in Saver, step[s] # "idle",
         NEW t \in Saver, t # s, step[t] # "idle"
  PROVE  shared
BY Zenon DEF RdbInv, LoneInv

\* A snapshot of the keyspace is taken: it is no older than the dump.
LEMMA SnapshotStep ==
  ASSUME RdbInv, NEW s \in Saver, Snapshot(s)
  PROVE  RdbInv'
<1>1. /\ RdbTypeOK /\ DumpUpTo(version)
      /\ UNCHANGED <<version, handle, tmp, dump, created, content, clean>>
  BY DumpUpToVersion, Zenon DEF RdbInv, Snapshot, fileVars
<1>2. /\ step' = [step EXCEPT ![s] = "open"]
      /\ payload' = [payload EXCEPT ![s] = version]
      /\ shared' = \E t \in Saver : step[t] # "idle"
  BY DEF Snapshot
<1>3. RdbTypeOK'
  <2>1. shared' \in BOOLEAN
    BY <1>2
  <2>2. /\ step' \in [Saver -> {"idle", "open", "write", "replace"}]
        /\ payload' \in [Saver -> 0..MaxVersion]
    BY <1>1, <1>2 DEF RdbTypeOK
  <2>3. step[s] = "idle" /\ step'[s] = "open" /\ \A t \in Saver : t # s => step'[t] = step[t]
    BY <1>1, <1>2 DEF RdbTypeOK, Snapshot
  <2>4. QED
    BY <1>1, <2>1, <2>2, <2>3, Zenon DEF RdbTypeOK
<1>4. ASSUME NEW t \in Saver PROVE SaverInv(t)' /\ LoneInv(t)'
  <2>1. CASE t = s
    <3>1. step'[s] = "open" /\ payload'[s] = version
      BY <1>1, <1>2 DEF RdbTypeOK
    <3>2. SaverInv(s)'
      BY <1>1, <3>1 DEF SaverInv, RdbTypeOK
    <3>3. ASSUME ~shared' PROVE \A u \in Saver : u # s => step'[u] = "idle"
      BY <1>1, <1>2, <3>3 DEF RdbTypeOK
    <3>4. DumpUpTo(payload[s])'
      BY <1>1, <3>1, SMTT(20) DEF DumpUpTo
    <3>5. LoneInv(s)'
      BY <3>1, <3>3, <3>4 DEF LoneInv
    <3>6. QED
      BY <2>1, <3>2, <3>5
  <2>2. CASE t # s
    <3>1. step'[t] = step[t] /\ payload'[t] = payload[t]
      BY <1>1, <1>2, <2>2, SMTT(20) DEF RdbTypeOK
    <3>2. SaverInv(t)'
      BY <1>1, <3>1, SMTT(20) DEF RdbInv, SaverInv, NotAhead
    <3>3. LoneInv(t)'
      BY <1>2, <3>1, Zenon DEF LoneInv
    <3>4. QED
      BY <3>2, <3>3
  <2>3. QED
    BY <2>1, <2>2
<1>5. NotAhead(dump)' /\ LoneDumpIsWhole'
  BY <1>1, SameDump, Zenon DEF RdbInv, NotAhead, LoneDumpIsWhole
<1>6. QED
  BY <1>1, <1>3, <1>4, <1>5, Zenon DEF RdbInv

\* The temporary file is opened: it is another one than the dump, and empty.
LEMMA OpenStep ==
  ASSUME RdbInv, NEW s \in Saver, Open(s)
  PROVE  RdbInv' /\ dump' = dump /\ content'[dump] = content[dump]
<1>i. PICK i : i = IF tmp # NoFile THEN tmp ELSE created + 1
  OBVIOUS
<1>1. /\ i \in 1..MaxInode /\ i # dump /\ i # NoFile
      /\ i \in 0..created' /\ created' \in 0..MaxInode /\ created <= created'
  BY <1>i DEF RdbInv, RdbTypeOK, Open, NoFile
<1>2. /\ tmp' = i /\ dump' = dump
      /\ handle' = [handle EXCEPT ![s] = i]
      /\ content' = [content EXCEPT ![i] = <<>>]
      /\ step[s] = "open" /\ step' = [step EXCEPT ![s] = "write"]
      /\ UNCHANGED <<version, payload, shared, clean>>
  BY <1>i DEF Open, historyVars
<1>3. dump \in Inode /\ NoFile \in Inode /\ i \in Inode /\ RdbTypeOK
  BY <1>1, SMTT(20) DEF RdbInv, RdbTypeOK, Inode, NoFile
<1>4. /\ \A j \in Inode : j # i => content'[j] = content[j]
      /\ content'[i] = <<>>
  BY <1>2, <1>3 DEF RdbTypeOK
<1>5. \A j \in Inode : NotAhead(j) => NotAhead(j)'
  BY <1>2, <1>4 DEF NotAhead
<1>6. NotAhead(i)'
  BY <1>4 DEF NotAhead
<1>7. /\ step'[s] = "write" /\ handle'[s] = i
      /\ \A t \in Saver : t # s => step'[t] = step[t] /\ handle'[t] = handle[t]
  BY <1>2, <1>3, SMTT(20) DEF RdbTypeOK
<1>8. RdbTypeOK'
  <2>1. content' \in [Inode -> Seq(0..MaxVersion)]
    BY <1>2, <1>3 DEF RdbTypeOK
  <2>2. /\ handle' \in [Saver -> 0..MaxInode]
        /\ step' \in [Saver -> {"idle", "open", "write", "replace"}]
    BY <1>1, <1>2, <1>3 DEF RdbTypeOK
  <2>3. \A t \in Saver :
          handle'[t] # NoFile <=> step'[t] \in {"write", "replace"}
    BY <1>1, <1>3, <1>7 DEF RdbTypeOK
  <2>4. QED
    BY <1>1, <1>2, <1>3, <2>1, <2>2, <2>3, SMTT(20) DEF RdbTypeOK
<1>9. dump' = dump /\ content'[dump] = content[dump] /\ content'[NoFile] = content[NoFile]
  BY <1>1, <1>2, <1>3, <1>4
<1>10. NotAhead(dump)' /\ LoneDumpIsWhole'
  <2>1. NotAhead(dump)'
    BY <1>3, <1>5, <1>9, Zenon DEF RdbInv, NotAhead
  <2>2. QED
    BY <1>2, <1>9, <2>1, SameDump, SMTT(20) DEF RdbInv, LoneDumpIsWhole
<1>11. ASSUME NEW t \in Saver PROVE SaverInv(t)' /\ LoneInv(t)'
  <2>1. SaverInv(t) /\ LoneInv(t) /\ handle[t] \in Inode
    BY <1>3 DEF RdbInv, RdbTypeOK, Inode
  <2>2. NotAhead(tmp)'
    BY <1>2, <1>6, SMTT(20) DEF NotAhead
  <2>3. CASE t = s
    <3>1. SaverInv(s)'
      BY <1>2, <1>6, <1>7, <2>1, <2>2, <2>3 DEF SaverInv, NotAhead
    <3>2. LoneInv(s)'
      <4>1. SUFFICES ASSUME ~shared PROVE LoneInv(s)'
        BY <1>2 DEF LoneInv
      <4>2. /\ \A u \in Saver : u # s => step'[u] = "idle"
            /\ DumpUpTo(payload[s])
        BY <1>2, <1>7, <2>1, <2>3, <4>1 DEF LoneInv
      <4>3. DumpUpTo(payload[s])'
        BY <1>2, <1>9, <4>2 DEF DumpUpTo
      <4>4. QED
        BY <1>2, <1>4, <1>7, <4>2, <4>3 DEF LoneInv
    <3>3. QED
      BY <2>3, <3>1, <3>2
  <2>4. CASE t # s
    <3>1. step'[t] = step[t] /\ handle'[t] = handle[t] /\ payload'[t] = payload[t]
      BY <1>2, <1>7, <2>4, SMTT(20)
    <3>2. NotAhead(handle[t]) => NotAhead(handle[t])'
      BY <1>5, <2>1, <3>1 DEF NotAhead
    <3>3. SaverInv(t)'
      BY <1>2, <2>1, <2>2, <3>1, <3>2 DEF SaverInv
    <3>4. step[t] # "idle" => shared
      BY <1>2, <2>4, OnlyOne
    <3>5. LoneInv(t)'
      BY <1>2, <3>1, <3>4, SMTT(20) DEF LoneInv
    <3>6. QED
      BY <3>3, <3>5
  <2>5. QED
    BY <2>3, <2>4
<1>12. clean /\ dump # NoFile => \A t \in Saver : handle'[t] # dump
  BY <1>1, <1>7, Zenon DEF RdbInv
<1>13. QED
  BY <1>1, <1>2, <1>8, <1>9, <1>10, <1>11, <1>12 DEF RdbInv

\* What becomes of the files when a saver writes to the one it has open.
LEMMA Written ==
  ASSUME RdbInv, NEW s \in Saver, step[s] = "write", version' = version,
         NEW new \in Seq(0..MaxVersion), \A k \in DOMAIN new : new[k] <= version,
         content' = [content EXCEPT ![handle[s]] = new]
  PROVE  /\ content' \in [Inode -> Seq(0..MaxVersion)]
         /\ content'[handle[s]] = new
         /\ content'[NoFile] = <<>>
         /\ \A j \in Inode : NotAhead(j) => NotAhead(j)'
         /\ clean \/ ~shared => content'[dump] = content[dump]
<1>1. /\ handle[s] \in Inode /\ handle[s] # NoFile /\ dump \in Inode /\ NoFile \in Inode
      /\ content \in [Inode -> Seq(0..MaxVersion)]
  BY SMTT(20) DEF RdbInv, RdbTypeOK, Inode, NoFile
<1>2. /\ content' \in [Inode -> Seq(0..MaxVersion)]
      /\ content'[handle[s]] = new
      /\ \A j \in Inode : j # handle[s] => content'[j] = content[j]
  BY <1>1
<1>3. content'[NoFile] = <<>>
  BY <1>1, <1>2 DEF RdbInv
<1>4. \A j \in Inode : NotAhead(j) => NotAhead(j)'
  BY <1>2 DEF NotAhead
<1>5. ASSUME clean \/ ~shared PROVE content'[dump] = content[dump]
  <2>1. CASE dump = NoFile
    BY <1>3, <2>1 DEF RdbInv
  <2>2. CASE dump # NoFile /\ clean
    BY <1>1, <1>2, <2>2 DEF RdbInv
  <2>3. CASE dump # NoFile /\ ~shared
    <3>1. handle[s] = tmp /\ tmp # NoFile /\ tmp # dump
      BY <1>1, <2>3, SMTT(20) DEF RdbInv, LoneInv
    <3>2. QED
      BY <1>1, <1>2, <3>1
  <2>4. QED
    BY <1>5, <2>1, <2>2, <2>3
<1>6. QED
  BY <1>2, <1>3, <1>4, <1>5

\* The payload is written over the open file, which is empty if nobody else is
\* at work.
LEMMA WriteStep ==
  ASSUME RdbInv, NEW s \in Saver, WritePayload(s)
  PROVE  /\ RdbInv' /\ dump' = dump
         /\ clean => content'[dump] = content[dump]
<1>1. /\ RdbTypeOK /\ step[s] = "write" /\ payload[s] \in 0..MaxVersion
      /\ payload[s] <= version /\ version \in Nat
      /\ NotAhead(handle[s]) /\ handle[s] \in Inode /\ tmp \in Inode /\ dump \in Inode
      /\ content[handle[s]] \in Seq(0..MaxVersion)
  <2>1. RdbTypeOK /\ step[s] = "write" /\ SaverInv(s)
    BY DEF RdbInv, WritePayload
  <2>2. /\ payload[s] \in 0..MaxVersion /\ version \in Nat /\ handle[s] \in Inode
        /\ tmp \in Inode /\ dump \in Inode
    BY <2>1 DEF RdbTypeOK, Inode
  <2>3. payload[s] <= version /\ NotAhead(handle[s])
    BY <2>1 DEF SaverInv
  <2>4. content[handle[s]] \in Seq(0..MaxVersion)
    BY <2>1, <2>2 DEF RdbTypeOK
  <2>5. QED
    BY <2>1, <2>2, <2>3, <2>4, Zenon
<1>2. PICK new :
        /\ new = Over(content[handle[s]], payload[s])
        /\ content' = [content EXCEPT ![handle[s]] = new]
  BY Zenon DEF WritePayload, Over
<1>3. /\ step' = [step EXCEPT ![s] = "replace"]
      /\ UNCHANGED <<version, payload, handle, tmp, dump, created, shared, clean>>
  BY DEF WritePayload, historyVars
<1>4. /\ new \in Seq(0..MaxVersion)
      /\ \A k \in DOMAIN new :
           new[k] = payload[s] \/ \E j \in DOMAIN content[handle[s]] :
                                    new[k] = content[handle[s]][j]
      /\ content[handle[s]] = <<>> => new = Encode(payload[s])
  <2>1. PICK old \in Seq(0..MaxVersion) : old = content[handle[s]]
    BY <1>1
  <2>2. PICK v \in 0..MaxVersion : v = payload[s]
    BY <1>1
  <2>3. new = Over(old, v)
    BY <1>2, <2>1, <2>2
  <2>4. /\ new \in Seq(0..MaxVersion)
        /\ \A k \in DOMAIN new : new[k] = v \/ \E j \in DOMAIN old : new[k] = old[j]
        /\ old = <<>> => new = Encode(v)
    BY <2>3, Overwrite, Zenon
  <2>5. QED
    BY <2>1, <2>2, <2>4, Zenon
<1>5. \A k \in DOMAIN new : new[k] <= version
  BY <1>1, <1>4, Zenon DEF NotAhead
<1>6. /\ content' \in [Inode -> Seq(0..MaxVersion)]
      /\ content'[handle[s]] = new
      /\ content'[NoFile] = <<>>
      /\ \A j \in Inode : NotAhead(j) => NotAhead(j)'
      /\ clean \/ ~shared => content'[dump] = content[dump]
  BY <1>1, <1>2, <1>3, <1>4, <1>5, Written, Zenon
<1>7. /\ step'[s] = "replace"
      /\ \A t \in Saver : t # s => step'[t] = step[t]
      /\ step' \in [Saver -> {"idle", "open", "write", "replace"}]
  BY <1>1, <1>3 DEF RdbTypeOK
<1>8. RdbTypeOK'
  <2>1. \A t \in Saver :
          handle'[t] # NoFile <=> step'[t] \in {"write", "replace"}
    BY <1>1, <1>3, <1>7 DEF RdbTypeOK
  <2>2. QED
    BY <1>1, <1>3, <1>6, <1>7, <2>1, SMTT(20) DEF RdbTypeOK
<1>9. NotAhead(dump)' /\ LoneDumpIsWhole'
  <2>1. NotAhead(dump)'
    BY <1>1, <1>3, <1>6, ZenonT(30) DEF RdbInv, NotAhead
  <2>2. LoneDumpIsWhole'
    BY <1>3, <1>6, SameDump, Zenon DEF RdbInv, LoneDumpIsWhole
  <2>3. QED
    BY <2>1, <2>2, SMTT(20)
<1>10. ASSUME NEW t \in Saver PROVE SaverInv(t)' /\ LoneInv(t)'
  <2>1. SaverInv(t) /\ LoneInv(t) /\ handle[t] \in Inode
    BY <1>1, SMTT(20) DEF RdbInv, RdbTypeOK, Inode
  <2>2. /\ NotAhead(handle[t]) => NotAhead(handle[t])'
        /\ NotAhead(tmp) => NotAhead(tmp)'
    BY <1>1, <1>3, <1>6, <2>1, ZenonT(30) DEF NotAhead
  <2>3. CASE t = s
    <3>1. SaverInv(s)'
      BY <1>1, <1>3, <1>7, <2>1, <2>2, <2>3, ZenonT(30) DEF SaverInv
    <3>2. LoneInv(s)'
      <4>1. SUFFICES ASSUME ~shared PROVE LoneInv(s)'
        BY <1>3, Zenon DEF LoneInv
      <4>2. /\ \A u \in Saver : u # s => step'[u] = "idle"
            /\ handle[s] = tmp /\ content[tmp] = <<>> /\ DumpUpTo(payload[s])
        BY <1>1, <1>7, <2>1, <2>3, <4>1, ZenonT(30) DEF LoneInv
      <4>3. DumpUpTo(payload[s])'
        BY <1>3, <1>6, <4>1, <4>2, ZenonT(30) DEF DumpUpTo
      <4>4. content'[tmp] = Encode(payload[s])
        BY <1>4, <1>6, <4>2, Zenon
      <4>5. QED
        BY <1>3, <1>7, <4>2, <4>3, <4>4, ZenonT(30) DEF LoneInv
    <3>3. QED
      BY <2>3, <3>1, <3>2
  <2>4. CASE t # s
    <3>1. SaverInv(t)'
      BY <1>3, <1>7, <2>1, <2>2, <2>4 DEF SaverInv
    <3>2. step[t] # "idle" => shared
      BY <1>1, <2>4, OnlyOne, Zenon
    <3>3. LoneInv(t)'
      BY <1>3, <1>7, <2>4, <3>2, Zenon DEF LoneInv
    <3>4. QED
      BY <3>1, <3>3
  <2>5. QED
    BY <2>3, <2>4
<1>11. QED
  BY <1>3, <1>6, <1>8, <1>9, <1>10, ZenonT(30) DEF RdbInv

\* The rename.  The temporary file of a save that ran alone is whole and no older
\* than the dump, and nobody has it open.
LEMMA ReplaceStep ==
  ASSUME RdbInv, NEW s \in Saver, Replace(s)
  PROVE  /\ RdbInv' /\ content' = content
         /\ \/ dump' = dump
            \/ ~clean'
            \/ /\ content[dump'] = Encode(payload[s])
               /\ DumpUpTo(payload[s])
<1>1. /\ RdbTypeOK /\ step[s] = "replace" /\ SaverInv(s) /\ LoneInv(s)
      /\ payload[s] \in 0..MaxVersion
  BY Zenon DEF RdbInv, RdbTypeOK, Replace
<1>2. /\ step' = [step EXCEPT ![s] = "idle"]
      /\ handle' = [handle EXCEPT ![s] = NoFile]
      /\ UNCHANGED <<version, payload, created, content, shared>>
  BY SMTT(20) DEF Replace
<1>3. /\ step'[s] = "idle" /\ handle'[s] = NoFile
      /\ \A t \in Saver : t # s => step'[t] = step[t] /\ handle'[t] = handle[t]
      /\ step' \in [Saver -> {"idle", "open", "write", "replace"}]
      /\ handle' \in [Saver -> 0..MaxInode]
  BY <1>1, <1>2, SMTT(20) DEF RdbTypeOK, NoFile
<1>4. \A t \in Saver : handle'[t] # NoFile <=> step'[t] \in {"write", "replace"}
  BY <1>1, <1>3 DEF RdbTypeOK
<1>5. ASSUME NEW t \in Saver, t # s, step[t] # "idle" PROVE shared
  BY <1>1, <1>5, OnlyOne, SMTT(20)
<1>6. \A t \in Saver : LoneInv(t)'
  BY <1>2, <1>3, <1>5, ZenonT(30) DEF LoneInv
<1>7. CASE tmp = NoFile
  <2>1. UNCHANGED <<dump, tmp, clean>>
    BY <1>7, SMTT(20) DEF Replace
  <2>2. RdbTypeOK'
    BY <1>1, <1>2, <1>3, <1>4, <2>1, SMTT(20) DEF RdbTypeOK
  <2>3. NotAhead(dump)' /\ LoneDumpIsWhole'
    BY <1>2, <2>1, SameDump, ZenonT(30) DEF RdbInv, NotAhead, LoneDumpIsWhole
  <2>4. \A t \in Saver : SaverInv(t)'
    BY <1>2, <1>3, <2>1, ZenonT(30) DEF RdbInv, SaverInv, NotAhead
  <2>5. clean /\ dump # NoFile => \A t \in Saver : handle'[t] # dump
    BY <1>3, Zenon DEF RdbInv
  <2>6. QED
    BY <1>2, <1>6, <2>1, <2>2, <2>3, <2>4, <2>5, Zenon DEF RdbInv
<1>8. CASE tmp # NoFile
  <2>1. dump' = tmp /\ tmp' = NoFile /\ clean' = ~shared
    BY <1>8, SMTT(20) DEF Replace
  <2>2. RdbTypeOK'
    BY <1>1, <1>2, <1>3, <1>4, <2>1 DEF RdbTypeOK, NoFile
  <2>3. NotAhead(dump)' /\ NotAhead(tmp)'
    BY <1>1, <1>2, <2>1 DEF RdbInv, SaverInv, NotAhead
  <2>4. ~shared => content[tmp] = Encode(payload[s]) /\ DumpUpTo(payload[s])
    BY <1>1, ZenonT(30) DEF LoneInv
  <2>5. LoneDumpIsWhole'
    BY <1>1, <1>2, <2>1, <2>4, ZenonT(30) DEF LoneDumpIsWhole, DumpIsWhole, Loadable
  <2>6. ASSUME NEW t \in Saver PROVE SaverInv(t)'
    BY <1>2, <1>3, <2>3, ZenonT(30) DEF RdbInv, SaverInv, NotAhead
  <2>7. ASSUME NEW t \in Saver, ~shared PROVE handle'[t] # tmp
    <3>1. CASE t = s
      BY <1>3, <1>8, <3>1, SMTT(20)
    <3>2. CASE t # s
      BY <1>1, <1>3, <1>5, <1>8, <2>7, <3>2, SMTT(20) DEF RdbTypeOK
    <3>3. QED
      BY <3>1, <3>2
  <2>8. QED
    BY <1>2, <1>6, <2>1, <2>2, <2>3, <2>4, <2>5, <2>6, <2>7, Zenon DEF RdbInv
<1>9. QED
  BY <1>7, <1>8, SMTT(20)

\* A save that fails: it leaves a part of the payload, or nothing, in the file.
LEMMA FailsStep ==
  ASSUME RdbInv, NEW s \in Saver, Fails(s)
  PROVE  /\ RdbInv' /\ dump' = dump
         /\ clean => content'[dump] = content[dump]
<1>1. /\ RdbTypeOK /\ step[s] # "idle" /\ SaverInv(s)
      /\ payload[s] \in 0..MaxVersion /\ tmp \in Inode /\ dump \in Inode
  BY DEF RdbInv, RdbTypeOK, Fails, Inode
<1>2. /\ step' = [step EXCEPT ![s] = "idle"]
      /\ handle' = [handle EXCEPT ![s] = NoFile]
      /\ UNCHANGED <<version, payload, tmp, dump, created, shared, clean>>
  BY DEF Fails, historyVars
<1>3. /\ content' \in [Inode -> Seq(0..MaxVersion)]
      /\ content'[NoFile] = <<>>
      /\ \A j \in Inode : NotAhead(j) => NotAhead(j)'
      /\ clean => content'[dump] = content[dump]
  <2>1. CASE content' = content
    BY <1>1, <1>2, <2>1, Zenon DEF RdbInv, RdbTypeOK, NotAhead
  <2>2. CASE /\ step[s] = "write"
             /\ content' = [content EXCEPT ![handle[s]] =
                              SubSeq(Encode(payload[s]), 1, 1)]
    <3>1. PICK new :
            /\ new = SubSeq(Encode(payload[s]), 1, 1)
            /\ content' = [content EXCEPT ![handle[s]] = new]
      BY <2>2, Zenon
    <3>2. new \in Seq(0..MaxVersion) /\ \A k \in DOMAIN new : new[k] = payload[s]
      BY <1>1, <3>1, EncodeFacts, Zenon
    <3>3. \A k \in DOMAIN new : new[k] <= version
      BY <1>1, <3>2, SMTT(20) DEF SaverInv
    <3>4. QED
      BY <1>2, <2>2, <3>1, <3>2, <3>3, Written, Zenon
  <2>3. QED
    BY <2>1, <2>2, Zenon DEF Fails
<1>4. /\ step'[s] = "idle" /\ handle'[s] = NoFile
      /\ \A t \in Saver : t # s => step'[t] = step[t] /\ handle'[t] = handle[t]
      /\ step' \in [Saver -> {"idle", "open", "write", "replace"}]
      /\ handle' \in [Saver -> 0..MaxInode]
  BY <1>1, <1>2 DEF RdbTypeOK, NoFile
<1>5. RdbTypeOK'
  <2>1. \A t \in Saver : handle'[t] # NoFile <=> step'[t] \in {"write", "replace"}
    BY <1>1, <1>4, ZenonT(30) DEF RdbTypeOK
  <2>2. QED
    BY <1>1, <1>2, <1>3, <1>4, <2>1, Zenon DEF RdbTypeOK
<1>6. NotAhead(dump)' /\ LoneDumpIsWhole'
  <2>1. NotAhead(dump)'
    BY <1>1, <1>2, <1>3, ZenonT(30) DEF RdbInv, NotAhead
  <2>2. LoneDumpIsWhole'
    BY <1>2, <1>3, SameDump, ZenonT(30) DEF RdbInv, LoneDumpIsWhole
  <2>3. QED
    BY <2>1, <2>2
<1>7. ASSUME NEW t \in Saver PROVE SaverInv(t)' /\ LoneInv(t)'
  <2>1. CASE t = s
    BY <1>4, <2>1, ZenonT(30) DEF SaverInv, LoneInv
  <2>2. CASE t # s
    <3>1. SaverInv(t) /\ handle[t] \in Inode
      BY <1>1, ZenonT(30) DEF RdbInv, RdbTypeOK, Inode
    <3>2. /\ NotAhead(handle[t]) => NotAhead(handle[t])'
          /\ NotAhead(tmp) => NotAhead(tmp)'
      BY <1>1, <1>2, <1>3, <1>4, <2>2, <3>1, ZenonT(30) DEF NotAhead
    <3>3. SaverInv(t)'
      BY <1>2, <1>4, <2>2, <3>1, <3>2, Zenon DEF SaverInv
    <3>4. step[t] # "idle" => shared
      BY <1>1, <2>2, OnlyOne, SMTT(20)
    <3>5. LoneInv(t)'
      BY <1>2, <1>4, <2>2, <3>4, ZenonT(30) DEF LoneInv
    <3>6. QED
      BY <3>3, <3>5
  <2>3. QED
    BY <2>1, <2>2
<1>8. clean /\ dump # NoFile => \A t \in Saver : handle'[t] # dump
  BY <1>4, Zenon DEF RdbInv
<1>9. QED
  BY <1>2, <1>3, <1>5, <1>6, <1>7, <1>8, ZenonT(30) DEF RdbInv

\* A kill and a start: the dump is loaded.
LEMMA RestartStep ==
  ASSUME RdbInv, Restart
  PROVE  RdbInv'
<1>1. /\ RdbTypeOK
      /\ UNCHANGED <<payload, tmp, dump, created, content, shared, clean>>
      /\ step' = [s \in Saver |-> "idle"] /\ handle' = [s \in Saver |-> NoFile]
  BY Zenon DEF RdbInv, Restart, fileVars, historyVars
<1>2. version' \in 0..MaxVersion /\ NotAhead(dump)'
  <2>1. CASE Empty
    BY <1>1, <2>1 DEF Restart, Empty, NotAhead
  <2>2. CASE ~Empty
    <3>1. /\ Head(content[dump]) \in 0..MaxVersion
          /\ \A k \in DOMAIN content[dump] : content[dump][k] = Head(content[dump])
          /\ version' = Head(content[dump])
      BY <2>2, LoadedVersion, Zenon DEF Restart
    <3>2. QED
      BY <1>1, <3>1 DEF NotAhead
  <2>3. QED
    BY <2>1, <2>2, SMTT(20)
<1>3. RdbTypeOK'
  BY <1>1, <1>2 DEF RdbTypeOK, NoFile
<1>4. \A s \in Saver : SaverInv(s)' /\ LoneInv(s)'
  BY <1>1, Zenon DEF SaverInv, LoneInv
<1>5. LoneDumpIsWhole'
  BY <1>1, SameDump, ZenonT(30) DEF RdbInv, LoneDumpIsWhole
<1>6. QED
  BY <1>1, <1>2, <1>3, <1>4, <1>5, ZenonT(30) DEF RdbInv

\* A write changes the keyspace only.
LEMMA WriteCommandStep ==
  ASSUME RdbInv, WriteCommand
  PROVE  RdbInv'
<1>1. /\ RdbTypeOK /\ version' = version + 1 /\ version \in Nat
      /\ UNCHANGED <<step, payload, handle, tmp, dump, created, content, shared, clean>>
  BY DEF RdbInv, RdbTypeOK, WriteCommand, fileVars, historyVars
<1>2. RdbTypeOK'
  BY <1>1 DEF RdbTypeOK, WriteCommand
<1>3. \A j \in Inode : NotAhead(j) => NotAhead(j)'
  BY <1>1 DEF NotAhead, RdbTypeOK
<1>4. dump \in Inode /\ tmp \in Inode /\ \A s \in Saver : handle[s] \in Inode
  BY <1>1 DEF RdbTypeOK, Inode
<1>5. NotAhead(dump)' /\ LoneDumpIsWhole'
  <2>1. NotAhead(dump)'
    BY <1>1, <1>3, <1>4, Zenon DEF RdbInv, NotAhead
  <2>2. QED
    BY <1>1, <2>1, SameDump, ZenonT(30) DEF RdbInv, LoneDumpIsWhole
<1>6. ASSUME NEW s \in Saver PROVE SaverInv(s)' /\ LoneInv(s)'
  <2>1. SaverInv(s) /\ LoneInv(s) /\ payload[s] \in Nat
    BY <1>1 DEF RdbInv, RdbTypeOK
  <2>2. /\ NotAhead(handle[s]) => NotAhead(handle[s])'
        /\ NotAhead(tmp) => NotAhead(tmp)'
    BY <1>1, <1>3, <1>4, Zenon DEF NotAhead
  <2>3. SaverInv(s)'
    BY <1>1, <2>1, <2>2 DEF SaverInv
  <2>4. LoneInv(s)'
    BY <1>1, <2>1, ZenonT(30) DEF LoneInv, DumpUpTo
  <2>5. QED
    BY <2>3, <2>4, SMTT(20)
<1>7. QED
  BY <1>1, <1>2, <1>5, <1>6, ZenonT(30) DEF RdbInv

-----------------------------------------------------------------------------
\* Every step keeps the invariant.
LEMMA RdbStep ==
  ASSUME RdbInv, [RdbNext]_rdbVars
  PROVE  RdbInv'
<1>1. CASE WriteCommand
  BY <1>1, WriteCommandStep, SMTT(20)
<1>2. CASE Restart
  BY <1>2, RestartStep
<1>3. ASSUME NEW s \in Saver, Saves(s)
      PROVE  RdbInv'
  BY <1>3, SnapshotStep, OpenStep, WriteStep, ReplaceStep, FailsStep, ZenonT(30) DEF Saves
<1>4. CASE UNCHANGED rdbVars
  BY <1>4, ZenonT(30) DEF rdbVars, fileVars, historyVars, RdbInv, RdbTypeOK, LoneDumpIsWhole,
     DumpIsWhole, Loadable, NotAhead, DumpUpTo, SaverInv, LoneInv
<1>5. QED
  BY <1>1, <1>2, <1>3, <1>4, SMTT(20) DEF RdbNext

\* A step that leaves a clean dump leaves one that is no older than before: only
\* a rename changes a clean dump.
LEMMA NoOlderStep ==
  ASSUME RdbInv, [RdbNext]_rdbVars, clean', content[dump] # <<>>
  PROVE  /\ content'[dump'] # <<>>
         /\ Head(content'[dump']) >= Head(content[dump])
<1>1. content[dump] \in Seq(0..MaxVersion) /\ Head(content[dump]) \in Nat
  <2>1. content[dump] \in Seq(0..MaxVersion)
    BY DEF RdbInv, RdbTypeOK, Inode
  <2>2. QED
    BY <2>1
<1>2. CASE dump' = dump /\ content'[dump] = content[dump]
  BY <1>1, <1>2
<1>3. CASE WriteCommand \/ Restart \/ UNCHANGED rdbVars
  BY <1>2, <1>3, ZenonT(30) DEF WriteCommand, Restart, rdbVars, fileVars
<1>4. ASSUME NEW s \in Saver, Saves(s)
      PROVE  /\ content'[dump'] # <<>>
             /\ Head(content'[dump']) >= Head(content[dump])
  <2>1. CASE Snapshot(s)
    BY <1>2, <2>1, Zenon DEF Snapshot, fileVars
  <2>2. CASE Open(s)
    BY <1>2, <2>2, OpenStep, Zenon
  <2>3. CASE WritePayload(s) \/ Fails(s)
    <3>1. clean
      BY <2>3, ZenonT(30) DEF WritePayload, Fails, historyVars
    <3>2. QED
      BY <1>2, <2>3, <3>1, WriteStep, FailsStep, Zenon
  <2>4. CASE Replace(s)
    <3>1. CASE dump' = dump
      BY <1>2, <2>4, <3>1, ReplaceStep, ZenonT(30)
    <3>2. CASE dump' # dump
      <4>1. content'[dump'] = Encode(payload[s]) /\ DumpUpTo(payload[s])
        BY <2>4, <3>2, ReplaceStep, ZenonT(30)
      <4>2. payload[s] \in 0..MaxVersion
        BY Zenon DEF RdbInv, RdbTypeOK
      <4>3. content'[dump'] # <<>> /\ Head(content'[dump']) = payload[s]
        BY <4>1, <4>2, EncodeFacts, Zenon
      <4>4. QED
        BY <1>1, <4>1, <4>2, <4>3, ZenonT(30) DEF DumpUpTo
    <3>3. QED
      BY <3>1, <3>2, ZenonT(30)
  <2>5. QED
    BY <1>4, <2>1, <2>2, <2>3, <2>4, Zenon DEF Saves
<1>5. QED
  BY <1>3, <1>4, ZenonT(30) DEF RdbNext

\* The dump of a save that ran alone is whole at every instant, so also after a
\* kill, whatever later saves do before the next rename: what dump_rdb and
\* _bgsave_worker get from the temporary file and os.replace.
THEOREM WholeDump == RdbSpec => []LoneDumpIsWhole
<1>1. RdbInv /\ [RdbNext]_rdbVars => RdbInv'
  BY RdbStep, SMTT(20)
<1>2. RdbInv => LoneDumpIsWhole
  BY Zenon DEF RdbInv
<1>3. QED
  BY RdbInvInit, <1>1, <1>2, PTL DEF RdbSpec

\* A save that ran alone never replaces a newer dump by an older one, over any
\* overlapping saves, failures, kills and restarts before it.
THEOREM NeverOlder == RdbSpec => LoneSaveNotOlder
<1>1. RdbInv /\ [RdbNext]_rdbVars => RdbInv'
  BY RdbStep
<1>2. RdbInv /\ [RdbNext]_rdbVars =>
        [clean' /\ content[dump] # <<>>
           => /\ content'[dump'] # <<>>
              /\ Head(content'[dump']) >= Head(content[dump])]_rdbVars
  BY NoOlderStep, Zenon
<1>3. QED
  BY RdbInvInit, <1>1, <1>2, PTL DEF RdbSpec, LoneSaveNotOlder

=============================================================================
