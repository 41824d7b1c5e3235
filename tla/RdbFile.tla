------------------------------ MODULE RdbFile ------------------------------
(***************************************************************************)
(* How dump.rdb is written: SAVE (save_rdb_sync, dump_rdb) on the event    *)
(* loop's thread and BGSAVE (_bgsave_worker) on a worker thread.  Both     *)
(* write path + ".tmp" and rename it over dump.rdb.                        *)
(*                                                                         *)
(* A saver holds an open file, not a name: the two names and the savers'   *)
(* handles refer to inodes.  The encoding of version v of the keyspace is  *)
(* v repeated Size(v) times, so a file is a whole dump or visibly not one. *)
(***************************************************************************)
EXTENDS Naturals, Sequences

CONSTANTS Saver,       \* which of "SAVE" and "BGSAVE" are used
          MaxVersion,  \* bound of the model: versions of the keyspace
          MaxInode     \* bound of the model: files created

ASSUME RdbFileAssumption ==
  /\ Saver \subseteq {"SAVE", "BGSAVE"}
  /\ MaxVersion \in Nat
  /\ MaxInode \in Nat

NoFile == 0
Inode == 0..MaxInode

VARIABLES
  version,  \* the version of the keyspace in memory
  step,     \* where each saver is
  payload,  \* the version each saver encodes
  handle,   \* the inode each saver has open
  tmp,      \* the inode of dump.rdb.tmp
  dump,     \* the inode of dump.rdb
  created,  \* inodes created so far
  content,  \* what each inode holds
  shared,   \* history: a save began while another one was under way, and no
            \* save began alone since
  clean     \* history: the rename that made dump.rdb was not of such a save

fileVars == <<tmp, dump, created, content>>
historyVars == <<shared, clean>>
rdbVars == <<version, step, payload, handle, fileVars, historyVars>>

\* The longer and shorter encodings alternate.
Size(v) == 1 + (v % 2)
Encode(v) == [i \in 1..Size(v) |-> v]

RdbTypeOK ==
  /\ version \in 0..MaxVersion
  /\ step \in [Saver -> {"idle", "open", "write", "replace"}]
  /\ payload \in [Saver -> 0..MaxVersion]
  /\ handle \in [Saver -> 0..MaxInode]
  /\ tmp \in 0..created
  /\ dump \in 0..created
  /\ created \in 0..MaxInode
  /\ content \in [Inode -> Seq(0..MaxVersion)]
  /\ \A s \in Saver : handle[s] # NoFile <=> step[s] \in {"write", "replace"}
  /\ shared \in BOOLEAN
  /\ clean \in BOOLEAN

RdbInit ==
  /\ version = 0
  /\ step = [s \in Saver |-> "idle"]
  /\ payload = [s \in Saver |-> 0]
  /\ handle = [s \in Saver |-> NoFile]
  /\ tmp = NoFile
  /\ dump = NoFile
  /\ created = 0
  /\ content = [i \in Inode |-> <<>>]
  /\ shared = FALSE
  /\ clean = TRUE

\* SAVE occupies the event loop until it returns.
LoopFree == "SAVE" \in Saver => step["SAVE"] = "idle"

\* A write command changes the keyspace.
WriteCommand ==
  /\ LoopFree
  /\ version < MaxVersion
  /\ version' = version + 1
  /\ UNCHANGED <<step, payload, handle, fileVars, historyVars>>

\* The snapshot is taken on the loop; _bgsave_lock admits one BGSAVE, and SAVE
\* does not look at it.
Snapshot(s) ==
  /\ LoopFree
  /\ step[s] = "idle"
  /\ step' = [step EXCEPT ![s] = "open"]
  /\ payload' = [payload EXCEPT ![s] = version]
  /\ shared' = \E t \in Saver : step[t] # "idle"
  /\ UNCHANGED <<version, handle, fileVars, clean>>

\* Bug: dump.rdb itself is opened.
Open_InPlace(s) ==
  /\ step[s] = "open"
  /\ dump # NoFile \/ created < MaxInode
  /\ LET i == IF dump # NoFile THEN dump ELSE created + 1
     IN  /\ tmp' = i
         /\ handle' = [handle EXCEPT ![s] = i]
         /\ content' = [content EXCEPT ![i] = <<>>]
         /\ created' = IF dump # NoFile THEN created ELSE i
  /\ step' = [step EXCEPT ![s] = "write"]
  /\ UNCHANGED <<version, payload, dump, historyVars>>

\* open(tmp, "wb") truncates the file that is there or creates one.
Open(s) ==
  /\ step[s] = "open"
  /\ tmp # NoFile \/ created < MaxInode
  /\ LET i == IF tmp # NoFile THEN tmp ELSE created + 1
     IN  /\ tmp' = i
         /\ handle' = [handle EXCEPT ![s] = i]
         /\ content' = [content EXCEPT ![i] = <<>>]
         /\ created' = IF tmp # NoFile THEN created ELSE i
  /\ step' = [step EXCEPT ![s] = "write"]
  /\ UNCHANGED <<version, payload, dump, historyVars>>

\* fh.write, flush and fsync: from offset 0, over whatever the inode holds.
WritePayload(s) ==
  /\ step[s] = "write"
  /\ LET old == content[handle[s]]
         new == Encode(payload[s])
     IN  content' = [content EXCEPT ![handle[s]] =
                       new \o SubSeq(old, Len(new) + 1, Len(old))]
  /\ step' = [step EXCEPT ![s] = "replace"]
  /\ UNCHANGED <<version, payload, handle, tmp, dump, created, historyVars>>

\* os.replace(tmp, path): FileNotFoundError when there is no tmp any more.
Replace(s) ==
  /\ step[s] = "replace"
  /\ IF tmp # NoFile
     THEN dump' = tmp /\ tmp' = NoFile /\ clean' = ~shared
     ELSE UNCHANGED <<dump, tmp, clean>>
  /\ step' = [step EXCEPT ![s] = "idle"]
  /\ handle' = [handle EXCEPT ![s] = NoFile]
  /\ UNCHANGED <<version, payload, created, content, shared>>

\* An I/O error: the saver gives up and leaves what it wrote.
Fails(s) ==
  /\ step[s] # "idle"
  /\ step' = [step EXCEPT ![s] = "idle"]
  /\ handle' = [handle EXCEPT ![s] = NoFile]
  /\ \/ UNCHANGED content
     \/ /\ step[s] = "write"
        /\ content' = [content EXCEPT ![handle[s]] = SubSeq(Encode(payload[s]), 1, 1)]
  /\ UNCHANGED <<version, payload, tmp, dump, created, historyVars>>

Empty == content[dump] = <<>>
Loadable == content[dump] \in {Encode(v) : v \in 0..MaxVersion}

\* Bug: the dump is not loaded.
Restart_NotLoaded ==
  /\ Empty \/ Loadable
  /\ version' = 0
  /\ step' = [s \in Saver |-> "idle"]
  /\ handle' = [s \in Saver |-> NoFile]
  /\ UNCHANGED <<payload, fileVars, historyVars>>

\* The process is killed and started again: the files stay as they are.  An
\* absent or empty dump.rdb gives an empty keyspace, a torn one no start.
Restart ==
  /\ Empty \/ Loadable
  /\ version' = IF Empty THEN 0 ELSE Head(content[dump])
  /\ step' = [s \in Saver |-> "idle"]
  /\ handle' = [s \in Saver |-> NoFile]
  /\ UNCHANGED <<payload, fileVars, historyVars>>

Saves(s) == Snapshot(s) \/ Open(s) \/ WritePayload(s) \/ Replace(s) \/ Fails(s)

RdbNext == WriteCommand \/ Restart \/ \E s \in Saver : Saves(s)

RdbSpec == RdbInit /\ [][RdbNext]_rdbVars

----------------------------------------------------------------------------

(* At every instant, so also when the process is killed, dump.rdb is absent*)
(* or the complete encoding of one version of the keyspace: the temporary  *)
(* file and the rename never leave a half-written dump.                    *)
DumpIsWhole ==
  dump # NoFile => Loadable

(* The same, of the dump of a save that ran alone: also later, when a SAVE *)
(* and a BGSAVE overlap, fail halfway or are killed, it is not touched     *)
(* before a rename replaces it, and a save that runs alone makes dump.rdb  *)
(* whole again, whatever they left behind in the temporary file.           *)
LoneDumpIsWhole ==
  clean => DumpIsWhole

(* A save that ran alone never puts an older version of the keyspace in the*)
(* place of a newer one, whichever saves, errors, kills and restarts made  *)
(* the dump that it replaces.  (With a SAVE during a BGSAVE, the BGSAVE,   *)
(* which began before, may finish last: the dump then goes back.)          *)
LoneSaveNotOlder ==
  [][clean' /\ content[dump] # <<>>
       => /\ content'[dump'] # <<>>
          /\ Head(content'[dump']) >= Head(content[dump])]_rdbVars

=============================================================================
