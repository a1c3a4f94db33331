--------------------------- MODULE BlobStoreProofs ---------------------------
(***************************************************************************)
(* The blob store keeps what put promises for any number of workers,       *)
(* digests and fan-out directories.                                        *)
(***************************************************************************)
EXTENDS BlobStore, TLAPS

\* What is known of a put that is under way: the temporary it is about to
\* rename was fsynced, and the name it has just made is there and in a
\* directory that exists.
PutsInOrder ==
  \A w \in Worker :
    /\ put[w].pc # "idle" => put[w].hash \in Hash
    /\ put[w].pc = "written" => put[w].flushed
    /\ put[w].pc \in {"written", "renamed"} => ShardOf[put[w].hash] \in shards
    /\ put[w].pc = "renamed" => put[w].hash \in names

\* No file is ever renamed unflushed; so none can be torn.
NothingUnflushed == unflushed = {} /\ partial = {}

\* The inductive invariant: StoredIsDurable only where fsync of a directory
\* covers its own name.
BlobInv ==
  /\ BlobTypeOK
  /\ PutsInOrder
  /\ NothingUnflushed
  /\ TempsAreInFlight
  /\ JournalledMkdir => StoredIsDurable

(* An empty store satisfies the invariant.                                   *)
LEMMA BlobInitInv == BlobInit => BlobInv
BY BlobAssumption DEF BlobInit, BlobInv, BlobTypeOK, PutsInOrder, NothingUnflushed,
     TempsAreInFlight, StoredIsDurable, Durable, NoPut, PutPC

\* The types survive every step of the store.
LEMMA BlobTypeStep == BlobInv /\ [BlobNext]_bvars => BlobTypeOK'
<1> SUFFICES ASSUME BlobInv, [BlobNext]_bvars PROVE BlobTypeOK'
  OBVIOUS
<1> USE BlobAssumption DEF BlobInv, BlobTypeOK
<1>1. ASSUME NEW w \in Worker, NEW h \in Hash, BeginPut(w, h) PROVE BlobTypeOK'
  <2>1. PICK c \in {"found", "absent"} :
               put' = [put EXCEPT ![w] = [pc |-> c, hash |-> h, flushed |-> FALSE]]
    BY <1>1 DEF BeginPut
  <2>2. put' \in [Worker -> [pc : PutPC, hash : Hash \cup {NoHash}, flushed : BOOLEAN]]
    BY <2>1 DEF PutPC
  <2> QED BY <1>1, <2>2 DEF BeginPut, disk
<1>2. ASSUME NEW w \in Worker, WriteTemp(w) PROVE BlobTypeOK'
  <2>1. put[w].hash \in Hash
    BY <1>2 DEF WriteTemp, PutsInOrder
  <2>2. put' \in [Worker -> [pc : PutPC, hash : Hash \cup {NoHash}, flushed : BOOLEAN]]
    BY <1>2 DEF WriteTemp, PutPC
  <2> QED BY <1>2, <2>1, <2>2 DEF WriteTemp
<1>3. ASSUME NEW w \in Worker, Rename(w) PROVE BlobTypeOK'
  BY <1>3 DEF Rename, PutPC, PutsInOrder
<1>4. ASSUME NEW w \in Worker, SyncDir(w) PROVE BlobTypeOK'
  BY <1>4 DEF SyncDir, PutPC, PutsInOrder
<1>5. ASSUME NEW w \in Worker, PutRaises(w) PROVE BlobTypeOK'
  BY <1>5 DEF PutRaises, PutPC
<1>6. ASSUME NEW w \in Worker, EndPut(w) PROVE BlobTypeOK'
  BY <1>6 DEF EndPut, disk, NoPut, PutPC
<1>7. ASSUME NEW W \in SUBSET Worker, KillWorkers(W) PROVE BlobTypeOK'
  <2>1. temps' \subseteq (Worker \cup {Nobody}) \X Hash
    BY <1>7 DEF KillWorkers, Disowned
  <2> QED BY <1>7, <2>1 DEF KillWorkers, NoPut, PutPC
<1>8. CASE SweepTemporaries
  BY <1>8 DEF SweepTemporaries
<1>9. CASE LosePower
  <2>1. PICK keep \in SUBSET shards, kept \in SUBSET names : PowerCut(keep, kept)
    BY <1>9 DEF LosePower
  <2>2. temps' \subseteq {Nobody} \X Hash
    BY <2>1 DEF PowerCut
  <2> QED BY <2>1, <2>2 DEF PowerCut, NoPut, PutPC
<1>10. CASE UNCHANGED bvars
  BY <1>10 DEF bvars, disk
<1> QED BY <1>1, <1>2, <1>3, <1>4, <1>5, <1>6, <1>7, <1>8, <1>9, <1>10 DEF BlobNext

\* The order of put's system calls, step by step.
LEMMA PutsInOrderStep == BlobInv /\ [BlobNext]_bvars => PutsInOrder'
<1> SUFFICES ASSUME BlobInv, [BlobNext]_bvars PROVE PutsInOrder'
  OBVIOUS
<1> USE BlobAssumption DEF BlobInv, BlobTypeOK, PutsInOrder
<1>1. ASSUME NEW w \in Worker, NEW h \in Hash, BeginPut(w, h) PROVE PutsInOrder'
  <2>1. PICK c \in {"found", "absent"} :
               put' = [put EXCEPT ![w] = [pc |-> c, hash |-> h, flushed |-> FALSE]]
    BY <1>1 DEF BeginPut
  <2> QED BY <1>1, <2>1 DEF BeginPut, disk
<1>2. ASSUME NEW w \in Worker, WriteTemp(w) PROVE PutsInOrder'
  BY <1>2 DEF WriteTemp
<1>3. ASSUME NEW w \in Worker, Rename(w) PROVE PutsInOrder'
  BY <1>3 DEF Rename
<1>4. ASSUME NEW w \in Worker, SyncDir(w) PROVE PutsInOrder'
  BY <1>4 DEF SyncDir
<1>5. ASSUME NEW w \in Worker, PutRaises(w) PROVE PutsInOrder'
  BY <1>5 DEF PutRaises
<1>6. ASSUME NEW w \in Worker, EndPut(w) PROVE PutsInOrder'
  BY <1>6 DEF EndPut, disk, NoPut
<1>7. ASSUME NEW W \in SUBSET Worker, KillWorkers(W) PROVE PutsInOrder'
  BY <1>7 DEF KillWorkers, NoPut
<1>8. CASE SweepTemporaries
  BY <1>8 DEF SweepTemporaries
<1>9. CASE LosePower
  BY <1>9 DEF LosePower, PowerCut, NoPut
<1>10. CASE UNCHANGED bvars
  BY <1>10 DEF bvars, disk
<1> QED BY <1>1, <1>2, <1>3, <1>4, <1>5, <1>6, <1>7, <1>8, <1>9, <1>10 DEF BlobNext

\* Only a rename makes a name, and it renames flushed temporaries only.
LEMMA NothingUnflushedStep == BlobInv /\ [BlobNext]_bvars => NothingUnflushed'
<1> SUFFICES ASSUME BlobInv, [BlobNext]_bvars PROVE NothingUnflushed'
  OBVIOUS
<1> USE DEF BlobInv, BlobTypeOK, PutsInOrder, NothingUnflushed
<1>1. ASSUME NEW w \in Worker, Rename(w) PROVE NothingUnflushed'
  BY <1>1 DEF Rename
<1>2. CASE LosePower
  BY <1>2 DEF LosePower, PowerCut
<1>3. ASSUME UNCHANGED <<unflushed, partial>> PROVE NothingUnflushed'
  BY <1>3
<1> QED BY <1>1, <1>2, <1>3
  DEF BlobNext, BeginPut, WriteTemp, SyncDir, PutRaises, EndPut, KillWorkers,
      SweepTemporaries, bvars, disk

\* A temporary and the put it belongs to come and go together; a temporary
\* that outlives its put belongs to nobody.
LEMMA TempsStep == BlobInv /\ [BlobNext]_bvars => TempsAreInFlight'
<1> SUFFICES ASSUME BlobInv, [BlobNext]_bvars PROVE TempsAreInFlight'
  OBVIOUS
<1> USE BlobAssumption DEF BlobInv, BlobTypeOK, TempsAreInFlight
<1>1. ASSUME NEW w \in Worker, NEW h \in Hash, BeginPut(w, h) PROVE TempsAreInFlight'
  <2>1. \A v \in Worker \ {w} : put'[v] = put[v]
    BY <1>1 DEF BeginPut
  <2>2. \A t \in temps : t[1] # w
    BY <1>1 DEF BeginPut, NoPut
  <2> QED BY <1>1, <2>1, <2>2 DEF BeginPut, disk
<1>2. ASSUME NEW w \in Worker, WriteTemp(w) PROVE TempsAreInFlight'
  BY <1>2 DEF WriteTemp
<1>3. ASSUME NEW w \in Worker, Rename(w) PROVE TempsAreInFlight'
  <2>1. \A v \in Worker \ {w} : put'[v] = put[v]
    BY <1>3 DEF Rename
  <2>2. \A t \in temps : t[1] = w => t = <<w, put[w].hash>>
    OBVIOUS
  <2>3. \A t \in temps' : t \in temps /\ t[1] # w
    BY <1>3, <2>2 DEF Rename
  <2> QED BY <2>1, <2>3
<1>4. ASSUME NEW w \in Worker, SyncDir(w) PROVE TempsAreInFlight'
  BY <1>4 DEF SyncDir
<1>5. ASSUME NEW w \in Worker, PutRaises(w) PROVE TempsAreInFlight'
  <2>1. \A v \in Worker \ {w} : put'[v] = put[v]
    BY <1>5 DEF PutRaises
  <2>2. \A t \in temps : t[1] = w => t = <<w, put[w].hash>>
    OBVIOUS
  <2>3. \A t \in temps' : t \in temps /\ t[1] # w
    BY <1>5, <2>2 DEF PutRaises
  <2> QED BY <2>1, <2>3
<1>6. ASSUME NEW w \in Worker, EndPut(w) PROVE TempsAreInFlight'
  BY <1>6 DEF EndPut, disk
<1>7. ASSUME NEW W \in SUBSET Worker, KillWorkers(W) PROVE TempsAreInFlight'
  <2>1. \A t \in temps' : t[1] # Nobody => t \in temps /\ t[1] \in Worker \ W
    BY <1>7 DEF KillWorkers, Disowned
  <2> QED BY <1>7, <2>1 DEF KillWorkers
<1>8. CASE SweepTemporaries
  BY <1>8 DEF SweepTemporaries
<1>9. CASE LosePower
  BY <1>9 DEF LosePower, PowerCut
<1>10. CASE UNCHANGED bvars
  BY <1>10 DEF bvars, disk
<1> QED BY <1>1, <1>2, <1>3, <1>4, <1>5, <1>6, <1>7, <1>8, <1>9, <1>10 DEF BlobNext

\* What is durable stays durable, and put adds to stored only what it synced.
LEMMA DurableStep ==
  BlobInv /\ JournalledMkdir /\ [BlobNext]_bvars => StoredIsDurable'
<1> SUFFICES ASSUME BlobInv, JournalledMkdir, [BlobNext]_bvars PROVE StoredIsDurable'
  OBVIOUS
<1> USE BlobAssumption DEF BlobInv, BlobTypeOK, PutsInOrder, StoredIsDurable, Durable
<1>1. ASSUME NEW w \in Worker, SyncDir(w) PROVE StoredIsDurable'
  BY <1>1 DEF SyncDir
<1>2. CASE LosePower
  BY <1>2 DEF LosePower, PowerCut
<1>3. ASSUME UNCHANGED <<stored, entries, rooted>> PROVE StoredIsDurable'
  BY <1>3
<1> QED BY <1>1, <1>2, <1>3
  DEF BlobNext, BeginPut, WriteTemp, Rename, PutRaises, EndPut, KillWorkers,
      SweepTemporaries, bvars, disk

(* Every step of the store keeps it.                                         *)
LEMMA BlobInvStep == BlobInv /\ [BlobNext]_bvars => BlobInv'
BY BlobTypeStep, PutsInOrderStep, NothingUnflushedStep, TempsStep, DurableStep DEF BlobInv

(* So it always holds.                                                       *)
LEMMA BlobInvariant == BlobSpec => []BlobInv
BY BlobInitInv, BlobInvStep, PTL DEF BlobSpec

\* storage.py: put, sweep_temporaries and the crashes around them keep the
\* store well-formed.
THEOREM BlobTypeCorrect == BlobSpec => []BlobTypeOK
<1>1. BlobInv => BlobTypeOK
  BY DEF BlobInv
<1> QED BY <1>1, BlobInvariant, PTL

\* fsync before rename: no kill and no power failure leaves a blob that lacks
\* some of its bytes under its own name.
THEOREM NeverTornAlways == BlobSpec => []NeverTorn
<1>1. BlobInv => NeverTorn
  BY DEF BlobInv, NothingUnflushed, NeverTorn
<1> QED BY <1>1, BlobInvariant, PTL

\* A put that raises unlinks its temporary, whichever of its system calls
\* failed: a temporary is an unfinished put's, or a dead process left it.
THEOREM TempsAreInFlightAlways == BlobSpec => []TempsAreInFlight
<1>1. BlobInv => TempsAreInFlight
  BY DEF BlobInv
<1> QED BY <1>1, BlobInvariant, PTL

\* fsync of the directory after the rename: what put returned as written is
\* durable, on a file system where that fsync covers the directory itself.
THEOREM StoredIsDurableAlways ==
  ASSUME JournalledMkdir
  PROVE  BlobSpec => []StoredIsDurable
<1>1. BlobInv => StoredIsDurable
  BY DEF BlobInv
<1> QED BY <1>1, BlobInvariant, PTL

\* No step but a power failure removes a blob: not a failing put, not a sweep.
THEOREM OnlyPowerLosesNamesAlways == BlobSpec => OnlyPowerLosesNames
<1>1. [BlobNext]_bvars => [names \subseteq names' \/ LosePower]_bvars
  BY DEF BlobNext, BeginPut, WriteTemp, Rename, SyncDir, PutRaises, EndPut, KillWorkers,
         SweepTemporaries, bvars, disk
<1> QED BY <1>1, PTL DEF BlobSpec, OnlyPowerLosesNames
=============================================================================
