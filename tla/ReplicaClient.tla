--------------------------- MODULE ReplicaClient ---------------------------
(***************************************************************************)
(* The replica side of replication: ReplicaClient in                       *)
(* byo_redis/replication/replica.py.  A session handshakes on a fresh      *)
(* connection, loads the master's snapshot, then applies the command       *)
(* stream; when it fails, the client reconnects.                           *)
(*                                                                         *)
(* TCP gives the client a byte stream cut into arbitrary chunks, so where  *)
(* a read ends decides which branch of the code runs.  The stream of a     *)
(* connection is two units of "+FULLRESYNC ...", two units of RDB bulk and *)
(* two units of each command: a read may end inside each of them.          *)
(***************************************************************************)
EXTENDS Naturals, Sequences

CONSTANT Conn          \* connections to the master, one per session

VARIABLES
  sent,    \* what the master wrote: the snapshot, then commands
  open,    \* the TCP connection is up
  phase,   \* where _session is; link_status is "up" in phase "stream"
  got,     \* units of the stream read so far
  have     \* the session's contribution to the store: snapshot, then commands

replicaVars == <<phase, got, have>>

FullresyncEnd == 2
RdbEnd == 4

\* Units of the connection's stream the master has written.
Written(c) == IF sent[c] = <<>> THEN 0 ELSE 2 + 2 * Len(sent[c])

\* Bug: the parser keeps what it has parsed.
Completed_Again(c, m, n) == SubSeq(sent[c], 2, n \div 2 - 1)

\* The commands whose last unit is read by a read that moves got from m to n.
Completed(c, m, n) == SubSeq(sent[c], m \div 2, n \div 2 - 1)

ReplicaTypeOK ==
  /\ phase \in [Conn -> {"idle", "handshake", "rdb", "stream", "down"}]
  /\ got \in [Conn -> Nat]
  /\ have \in [Conn -> Seq(Nat)]
  /\ \A c \in Conn : got[c] <= Written(c)

ReplicaInit ==
  /\ phase = [c \in Conn |-> "idle"]
  /\ got = [c \in Conn |-> 0]
  /\ have = [c \in Conn |-> <<>>]

\* AUTH, PING and both REPLCONFs are answered as expected; PSYNC is sent.
Handshake(c) ==
  /\ phase[c] = "idle"
  /\ open[c]
  /\ phase' = [phase EXCEPT ![c] = "handshake"]
  /\ UNCHANGED <<got, have, sent, open>>

\* _session raises: the socket is closed and the link is down.
SessionFails(c) ==
  /\ phase' = [phase EXCEPT ![c] = "down"]
  /\ open' = [open EXCEPT ![c] = FALSE]
  /\ UNCHANGED <<got, have, sent>>

\* An unexpected reply before PSYNC, the end of the stream, or a lost connection.
SessionEnds(c) ==
  /\ \/ phase[c] = "idle"
     \/ phase[c] \in {"handshake", "rdb", "stream"} /\ ~open[c]
  /\ SessionFails(c)

\* read_one: the read ends before the RDB does.  Once the FULLRESYNC line is
\* complete, the rest of the read is the start of _read_rdb_bulk's buffer.
ReadFullresync(c, n) ==
  /\ phase[c] = "handshake"
  /\ n < RdbEnd
  /\ got' = [got EXCEPT ![c] = n]
  /\ phase' = [phase EXCEPT ![c] = IF n < FullresyncEnd THEN @ ELSE "rdb"]
  /\ UNCHANGED <<have, sent, open>>

\* read_one: one read returns the line and the whole RDB, with at most one
\* byte after it: the parser still waits for the CRLF of a bulk string, and
\* _read_rdb_bulk takes the RDB from the parser's buffer without reading.
ReadFullresyncAndRdb(c, n) ==
  /\ phase[c] = "handshake"
  /\ n \in {RdbEnd, RdbEnd + 1}
  /\ got' = [got EXCEPT ![c] = n]
  /\ have' = [have EXCEPT ![c] = <<sent[c][1]>>]
  /\ phase' = [phase EXCEPT ![c] = "stream"]
  /\ UNCHANGED <<sent, open>>

\* The read reaches the RDB and the session fails.  In read_one the parser takes
\* the RDB for a bulk string: it raises ProtocolError when its length is above
\* max_bulk_len, or when two bytes behind it were read and are not CRLF (up to
\* RdbEnd + 1 it depends on the length, from there on it is certain).  In
\* _read_rdb_bulk the length is above snapshot_max_bytes, or load_rdb_bytes or
\* load_entries raises.
ReadRefused(c, n) ==
  /\ phase[c] \in {"handshake", "rdb"}
  /\ n > FullresyncEnd
  /\ SessionFails(c)

\* Bug: the RDB is expected to end with CRLF, as a bulk string does.
ReadRdb_WaitsForTrailer(c, n) ==
  /\ phase[c] = "rdb"
  /\ got' = [got EXCEPT ![c] = n]
  /\ IF n <= RdbEnd
     THEN UNCHANGED <<phase, have>>
     ELSE /\ have' = [have EXCEPT ![c] = <<sent[c][1]>>]
          /\ phase' = [phase EXCEPT ![c] = "stream"]
  /\ UNCHANGED <<sent, open>>

\* _read_rdb_bulk: when the RDB is complete it is loaded.  What was read after
\* it is fed to the parser, which keeps an incomplete command; the complete
\* ones it returns are not used.
ReadRdb(c, n) ==
  /\ phase[c] = "rdb"
  /\ got' = [got EXCEPT ![c] = n]
  /\ IF n < RdbEnd
     THEN UNCHANGED <<phase, have>>
     ELSE /\ have' = [have EXCEPT ![c] = <<sent[c][1]>>]
          /\ phase' = [phase EXCEPT ![c] = "stream"]
  /\ UNCHANGED <<sent, open>>

\* _read_loop: the commands completed by a read are applied in order.
ReadCommands(c, n) ==
  /\ phase[c] = "stream"
  /\ got' = [got EXCEPT ![c] = n]
  /\ have' = [have EXCEPT ![c] = @ \o Completed(c, got[c], n)]
  /\ UNCHANGED <<phase, sent, open>>

\* A read returns some of what was written and not yet read.
Read(c) ==
  \E n \in got[c] + 1 .. Written(c) :
    \/ ReadFullresync(c, n)
    \/ ReadFullresyncAndRdb(c, n)
    \/ ReadRefused(c, n)
    \/ ReadRdb(c, n)
    \/ ReadCommands(c, n)

=============================================================================
