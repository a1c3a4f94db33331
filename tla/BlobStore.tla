------------------------------ MODULE BlobStore ------------------------------
(***************************************************************************)
(* The content-addressed blob store of storage.py: the files under the     *)
(* store's root, what of them has reached the platter, and the put() calls *)
(* of a set of worker processes, one system call after the other.          *)
(*                                                                         *)
(* A blob's bytes are a function of its digest, so a file is modelled by   *)
(* its name, by whether it holds all its bytes and by whether name and     *)
(* bytes would survive a power failure.                                    *)
(***************************************************************************)
EXTENDS Naturals

CONSTANTS
  Hash,             \* digests
  NoHash,           \* the digest of no put
  Shard,            \* the fan-out directories under the root
  ShardOf,          \* the directory a digest lives in: its first two digits
  Worker,           \* processes that call put
  Nobody,           \* owner of a temporary whose process is gone
  JournalledMkdir   \* does fsync of a directory also persist its own name?

ASSUME BlobAssumption ==
  /\ NoHash \notin Hash
  /\ Nobody \notin Worker
  /\ ShardOf \in [Hash -> Shard]
  /\ JournalledMkdir \in BOOLEAN

VARIABLES
  names,     \* digests with a file under their own name
  partial,   \* those of names whose file lacks some of its bytes
  unflushed, \* those of names whose bytes were never fsynced
  entries,   \* those of names whose directory entry is on the platter
  shards,    \* fan-out directories that exist
  rooted,    \* those of shards whose entry in the root is on the platter
  temps,     \* .tmp- files, as pairs of owner and intended digest
  put,       \* the put() call each worker is in
  stored,    \* digests for which some put returned with written = True
  found      \* digests for which some put returned with written = False

disk  == <<names, partial, unflushed, entries, shards, rooted, temps>>
bvars == <<disk, put, stored, found>>

PutPC == {"idle", "absent", "written", "renamed", "stored", "found", "raised"}

NoPut == [pc |-> "idle", hash |-> NoHash, flushed |-> FALSE]

BlobTypeOK ==
  /\ names \subseteq Hash
  /\ partial \subseteq names
  /\ unflushed \subseteq names
  /\ entries \subseteq names
  /\ shards \subseteq Shard
  /\ rooted \subseteq shards
  /\ temps \subseteq (Worker \cup {Nobody}) \X Hash
  /\ put \in [Worker -> [pc : PutPC, hash : Hash \cup {NoHash}, flushed : BOOLEAN]]
  /\ stored \subseteq Hash
  /\ found \subseteq Hash

BlobInit ==
  /\ names = {} /\ partial = {} /\ unflushed = {} /\ entries = {}
  /\ shards = {} /\ rooted = {} /\ temps = {}
  /\ put = [w \in Worker |-> NoPut]
  /\ stored = {} /\ found = {}

(***************************************************************************)
(* put(data)                                                               *)
(***************************************************************************)

\* put is called: is_file() decides between the early return and a write.
BeginPut(w, h) ==
  /\ put[w] = NoPut
  /\ \/ /\ h \in names
        /\ put' = [put EXCEPT ![w] = [pc |-> "found", hash |-> h, flushed |-> FALSE]]
        /\ found' = found \cup {h}
     \/ /\ h \notin names
        /\ put' = [put EXCEPT ![w] = [pc |-> "absent", hash |-> h, flushed |-> FALSE]]
        /\ UNCHANGED found
  /\ UNCHANGED <<disk, stored>>

\* (Mutants: the file is not fsynced; the directory is not created.)
WriteUnsynced(w) ==
  /\ put[w].pc = "absent"
  /\ shards' = shards \cup {ShardOf[put[w].hash]}
  /\ temps' = temps \cup {<<w, put[w].hash>>}
  /\ put' = [put EXCEPT ![w].pc = "written"]
  /\ UNCHANGED <<names, partial, unflushed, entries, rooted, stored, found>>

WriteNoMkdir(w) ==
  /\ put[w].pc = "absent"
  /\ temps' = temps \cup {<<w, put[w].hash>>}
  /\ put' = [put EXCEPT ![w].pc = "written", ![w].flushed = TRUE]
  /\ UNCHANGED <<names, partial, unflushed, entries, shards, rooted, stored, found>>

\* mkdir, mkstemp in the target directory, write, flush and fsync the file.
WriteTemp(w) ==
  /\ put[w].pc = "absent"
  /\ shards' = shards \cup {ShardOf[put[w].hash]}
  /\ temps' = temps \cup {<<w, put[w].hash>>}
  /\ put' = [put EXCEPT ![w].pc = "written", ![w].flushed = TRUE]
  /\ UNCHANGED <<names, partial, unflushed, entries, rooted, stored, found>>

\* os.replace puts the temporary under the blob's name; it raises when the
\* temporary has been swept away meanwhile.
Rename(w) ==
  LET h == put[w].hash IN
  /\ put[w].pc = "written"
  /\ \/ /\ <<w, h>> \in temps
        /\ temps' = temps \ {<<w, h>>}
        /\ names' = names \cup {h}
        /\ partial' = partial \ {h}
        /\ unflushed' = IF put[w].flushed THEN unflushed \ {h} ELSE unflushed \cup {h}
        /\ put' = [put EXCEPT ![w].pc = "renamed"]
     \/ /\ <<w, h>> \notin temps
        /\ put' = [put EXCEPT ![w].pc = "raised"]
        /\ UNCHANGED <<names, partial, unflushed, temps>>
  /\ UNCHANGED <<entries, shards, rooted, stored, found>>

\* (Mutant: put returns without the fsync of the directory.)
SkipSyncDir(w) ==
  /\ put[w].pc = "renamed"
  /\ put' = [put EXCEPT ![w].pc = "stored"]
  /\ stored' = stored \cup {put[w].hash}
  /\ UNCHANGED <<disk, found>>

\* _fsync_dir on the shard makes every name in it durable; put then returns.
SyncDir(w) ==
  LET s == ShardOf[put[w].hash] IN
  /\ put[w].pc = "renamed"
  /\ entries' = entries \cup {h \in names : ShardOf[h] = s}
  /\ rooted' = IF JournalledMkdir THEN rooted \cup {s} ELSE rooted
  /\ put' = [put EXCEPT ![w].pc = "stored"]
  /\ stored' = stored \cup {put[w].hash}
  /\ UNCHANGED <<names, partial, unflushed, shards, temps, found>>

\* (Mutants: the exception handler forgets the temporary; it unlinks the blob.)
RaisesLeavingTemp(w) ==
  /\ put[w].pc \in {"absent", "written", "renamed"}
  /\ put' = [put EXCEPT ![w].pc = "raised"]
  /\ UNCHANGED <<disk, stored, found>>

RaisesUnlinking(w) ==
  /\ put[w].pc \in {"absent", "written", "renamed"}
  /\ temps' = temps \ {<<w, put[w].hash>>}
  /\ names' = names \ {put[w].hash}
  /\ put' = [put EXCEPT ![w].pc = "raised"]
  /\ UNCHANGED <<partial, unflushed, entries, shards, rooted, stored, found>>

\* Any system call of put fails: the temporary is unlinked, the exception
\* goes on. After the rename the file stays under its own name.
PutRaises(w) ==
  /\ put[w].pc \in {"absent", "written", "renamed"}
  /\ temps' = temps \ {<<w, put[w].hash>>}
  /\ put' = [put EXCEPT ![w].pc = "raised"]
  /\ UNCHANGED <<names, partial, unflushed, entries, shards, rooted, stored, found>>

\* The caller has taken the result or the exception of the call.
EndPut(w) ==
  /\ put[w].pc \in {"stored", "found", "raised"}
  /\ put' = [put EXCEPT ![w] = NoPut]
  /\ UNCHANGED <<disk, stored, found>>

(***************************************************************************)
(* Sweeping, and the ways processes and the machine stop                   *)
(***************************************************************************)

\* sweep_temporaries deletes every temporary, whoever is writing it.
SweepTemporaries ==
  /\ temps' = {}
  /\ UNCHANGED <<names, partial, unflushed, entries, shards, rooted, put, stored, found>>

\* Temporaries once the processes W are gone: theirs belong to nobody.
Disowned(W) == {<<IF t[1] \in W THEN Nobody ELSE t[1], t[2]>> : t \in temps}

\* The processes W are killed inside put, wherever they are.
KillWorkers(W) ==
  /\ put' = [w \in Worker |-> IF w \in W THEN NoPut ELSE put[w]]
  /\ temps' = Disowned(W)
  /\ UNCHANGED <<names, partial, unflushed, entries, shards, rooted, stored, found>>

\* Names that are sure to outlive a power failure.
Durable == {h \in entries : ShardOf[h] \in rooted}

\* Power is lost and the directories keep and the names kept are there
\* afterwards: at least those known to be on the platter. The bytes of a file
\* never fsynced may be lost; a file whose rename is lost may come back under
\* its temporary name.
PowerCut(keep, kept) ==
  /\ rooted \subseteq keep
  /\ \A h \in kept : ShardOf[h] \in keep
  /\ \A h \in entries : ShardOf[h] \in keep => h \in kept
  /\ shards' = keep
  /\ rooted' = keep
  /\ names' = kept
  /\ entries' = kept
  /\ \E torn \in SUBSET (unflushed \cap kept) : partial' = (partial \cap kept) \cup torn
  /\ unflushed' = {}
  /\ \E litter \in SUBSET {h \in (names \ kept) \cup {t[2] : t \in temps} : ShardOf[h] \in keep} :
       temps' = {Nobody} \X litter
  /\ put' = [w \in Worker |-> NoPut]
  /\ UNCHANGED <<stored, found>>

LosePower == \E keep \in SUBSET shards, kept \in SUBSET names : PowerCut(keep, kept)

(***************************************************************************)
(* The store on its own: workers that put anything at any time, sweeps     *)
(* that nothing coordinates with them, kills and power failures.           *)
(***************************************************************************)
BlobNext ==
  \/ \E w \in Worker :
       \/ \E h \in Hash : BeginPut(w, h)
       \/ WriteTemp(w) \/ Rename(w) \/ SyncDir(w) \/ PutRaises(w) \/ EndPut(w)
  \/ \E W \in SUBSET Worker : KillWorkers(W)
  \/ SweepTemporaries
  \/ LosePower

BlobSpec == BlobInit /\ [][BlobNext]_bvars

(***************************************************************************)
(* Properties                                                              *)
(***************************************************************************)

\* A file under a digest's name holds all the bytes of that digest, whatever
\* was killed, swept or cut off from power: the file is fsynced before the
\* rename that gives it its name.
NeverTorn == partial = {}

\* A put that returned written = True is durable, and stays so: no sweep, kill
\* of another worker or power failure takes the blob away. This is what the
\* row-last ordering of the ingest pipeline relies on.
StoredIsDurable == stored \subseteq Durable

\* A temporary that still has an owner is that owner's unfinished put: a put
\* that raised has unlinked its own, so only dead processes leave litter.
TempsAreInFlight ==
  \A t \in temps : t[1] # Nobody => put[t[1]].pc = "written" /\ put[t[1]].hash = t[2]

\* No step of any process takes a blob away once it has its name: a failing
\* put, a sweep and a kill leave it; only a power failure can lose it.
OnlyPowerLosesNames == [][names \subseteq names' \/ LosePower]_bvars
=============================================================================
