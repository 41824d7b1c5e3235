------------------------------ MODULE AofFile ------------------------------
(***************************************************************************)
(* The bytes of the append-only file over crashes and restarts: records as *)
(* encode_command writes them, records cut short by a crash, rewrites, and *)
(* what read_commands and replay_aof make of the file at the next start.   *)
(* AofLog models how a record gets into the file, Keyspace what commands   *)
(* mean; here the keyspace is one list and every command pushes to it.     *)
(***************************************************************************)
EXTENDS RespParser

CONSTANTS Loader,      \* limits of the parser that loads the file
          Client,      \* limits of the parser of a client connection
          MaxPushes,   \* bound of the model: commands of clients
          MaxCrashes   \* bound of the model: crashes

ASSUME AofFileAssumption ==
  /\ \A p \in {Loader, Client} :
       p \in [bulk : Nat, buffer : Nat, array : Nat, depth : Nat]
  /\ MaxPushes \in 0..9
  /\ MaxCrashes \in Nat

VARIABLES
  aof,      \* the bytes of the file
  list,     \* the keyspace, as clients know it
  pushes,   \* commands so far
  crashes,  \* crashes so far
  serving,  \* the server is up
  tail,     \* the file ends with a whole record or a torn one, or records were
            \* appended behind a torn one
  widest    \* arguments of the longest command in the file

aofVars == <<aof, list, pushes, crashes, serving, tail, widest>>

LPUSH == <<"p">>
Element(n) == <<"e">> \o Decimal(n)
Record(n) == encode_command(<<LPUSH, Element(n)>>)

AofInit ==
  /\ aof = <<>>
  /\ list = <<>>
  /\ pushes = 0 /\ crashes = 0
  /\ serving = TRUE
  /\ tail = "whole"
  /\ widest = 0

-----------------------------------------------------------------------------
(* Loading                                                                 *)

\* What read_commands takes for a command; other messages are skipped.
IsCommand(msg) ==
  LET kinds == {msg.items[i].kind : i \in DOMAIN msg.items}
  IN  /\ msg.kind = "array" /\ msg.items # <<>>
      /\ kinds \subseteq {"bulk", "null"} \/ kinds \subseteq {"bulk", "simple"}

\* Bug: a torn tail is an error.
read_commands_Strict(bytes) ==
  LET r == feed(Loader, <<>>, bytes)
  IN  [failed |-> r.failed \/ r.buf # <<>>,
       commands |-> SelectSeq(r.messages, IsCommand)]

\* read_commands: AofError, or the commands; an incomplete rest is ignored.
read_commands(bytes) ==
  LET r == feed(Loader, <<>>, bytes)
  IN  [failed |-> r.failed, commands |-> SelectSeq(r.messages, IsCommand)]

\* replay_aof: a command of another name or without arguments is an error reply,
\* which nobody looks at.
Pushed(command) ==
  IF command.items[1].bytes # LPUSH THEN <<>>
  ELSE [i \in 1..Len(command.items) - 1 |-> command.items[i + 1].bytes]

replay_aof(commands) ==
  FoldLeft(LAMBDA l, command : l \o Pushed(command), <<>>, commands)

-----------------------------------------------------------------------------
\* A command executes and its record is appended to the file.
Push ==
  /\ serving
  /\ pushes < MaxPushes
  /\ pushes' = pushes + 1
  /\ list' = Append(list, Element(pushes'))
  /\ aof' = aof \o Record(pushes')
  /\ tail' = IF tail = "torn" THEN "glued" ELSE tail
  /\ widest' = IF widest < 2 THEN 2 ELSE widest
  /\ UNCHANGED <<crashes, serving>>

\* The process dies when n bytes of a record are in the file; n = 0: between
\* two records.  The command was not acknowledged.
Crash(n) ==
  /\ serving
  /\ crashes < MaxCrashes
  /\ n < Len(Record(pushes + 1))
  /\ crashes' = crashes + 1
  /\ serving' = FALSE
  /\ aof' = aof \o SubSeq(Record(pushes + 1), 1, n)
  /\ tail' = IF n = 0 THEN tail ELSE IF tail = "whole" THEN "torn" ELSE "glued"
  /\ UNCHANGED <<list, pushes, widest>>

\* start: the file is loaded and opened to append, as it is.  If it cannot be
\* loaded, the server does not start.
LoadAof ==
  /\ ~serving
  /\ LET r == read_commands(aof)
     IN  ~r.failed /\ list' = replay_aof(r.commands)
  /\ serving' = TRUE
  /\ UNCHANGED <<aof, pushes, crashes, tail, widest>>

\* BGREWRITEAOF: one command with every element.
Rewrite ==
  /\ serving
  /\ aof' = IF list = <<>> THEN <<>> ELSE encode_command(<<LPUSH>> \o list)
  /\ tail' = "whole"
  /\ widest' = IF list = <<>> THEN 0 ELSE 1 + Len(list)
  /\ UNCHANGED <<list, pushes, crashes, serving>>

AofNext ==
  \/ Push
  \/ \E n \in 0..Len(Record(1)) : Crash(n)
  \/ LoadAof
  \/ Rewrite

AofSpec == AofInit /\ [][AofNext]_aofVars

-----------------------------------------------------------------------------
\* What the file gives back when it is loaded.
GivesBack(l) ==
  LET r == read_commands(aof)
  IN  ~r.failed /\ replay_aof(r.commands) = l

\* A crash at any byte of an append costs nothing that was acknowledged: the
\* file loads, and gives back the list, with a torn record at its end or without,
\* as long as nothing was appended behind a torn record and the file is within
\* the limits of the loader's parser: no command in it has too many arguments (a
\* rewrite merges a whole key into one), and its bytes fit the parser's buffer,
\* into which read_commands puts the whole file at once.
TornTailIsHarmless ==
  tail # "glued" /\ widest <= Loader.array /\ Len(aof) <= Loader.buffer
    => GivesBack(list)

\* "a truncated tail or half a command: skip the damaged tail or exit with an
\* error ...; a wrong state must not be loaded silently" (REQUIREMENTS, F-AOF-05).
NeverLoadsWrongState == GivesBack(list) \/ read_commands(aof).failed

\* A read returned whole, two reads returned first and then second: the same.
Same(whole, first, second) ==
  IF whole.failed THEN first.failed \/ second.failed
  ELSE /\ ~first.failed /\ ~second.failed
       /\ first.messages \o second.messages = whole.messages
       /\ second.buf = whole.buf

\* A parser without a limit on its buffer gives whole for the bytes in one read;
\* the connection's parser, which gets them cut into two reads, gives the same,
\* or fails when a read and what it held back before exceed its limit.
CutsInvisible(whole) ==
  \A n \in 0..Len(aof) :
    LET first == feed(Client, <<>>, SubSeq(aof, 1, n))
        second == feed(Client, first.buf, SubSeq(aof, n + 1, Len(aof)))
    IN  IF n > Client.buffer \/ Len(first.buf) + Len(aof) - n > Client.buffer
        THEN first.failed \/ second.failed
        ELSE Same(whole, first, second)

\* How the bytes of a stream are cut into reads makes no difference to the
\* messages a connection's parser returns, to what it holds back, or to whether
\* it finds the stream to break the rules.  (It does make a difference to
\* whether max_buffer_bytes is exceeded: the limit is on the bytes held back
\* together with those just read, before anything is parsed.)
ChunkingInvisible ==
  CutsInvisible(feed([Client EXCEPT !.buffer = Len(aof)], <<>>, aof))

=============================================================================
