------------------------------- MODULE Ingest -------------------------------
(***************************************************************************)
(* The resumable ingest of ingest.py: ingest processes that compete for    *)
(* the advisory lock, the worker pool of each, the blob store the workers  *)
(* write to, and the database the main process commits to.                 *)
(*                                                                         *)
(* A file is a sequence of messages and offsets are positions in it: the   *)
(* i-th message covers the bytes from i - 1 to i, so a checkpoint is the   *)
(* number of leading messages a resume skips. Counters and log lines are   *)
(* left out, except for the one decision they make (Analyze).              *)
(***************************************************************************)
EXTENDS BlobStore, Sequences, FiniteSets

CONSTANTS
  Proc,       \* invocations of the ingest command
  Source,     \* mailbox files
  Content,    \* the digests of each file's messages, in file order
  Refused,    \* digests of messages whose rows the database does not take
  Account,    \* accounts an invocation may name
  RunId,      \* keys of ingest_runs; bounds how many runs are ever created
  None,       \* absence of a value
  BatchSize,  \* messages per transaction
  FaultKind,  \* the kinds of fault that may happen
  MaxFaults   \* bound on how many do

ASSUME IngestAssumption ==
  /\ Content \in [Source -> Seq(Hash)]
  /\ Refused \subseteq Hash
  /\ RunId \subseteq Nat
  /\ BatchSize \in Nat \ {0}
  /\ MaxFaults \in Nat
  /\ None \notin Proc \cup Source \cup Account \cup RunId
  /\ None \notin [src : Source, acct : Account,
                  status : {"running", "interrupted", "complete"}, ckpt : Nat]
  /\ Proc \cap {Nobody} = {}

VARIABLES
  lock,      \* the process holding the advisory lock
  main,      \* the locals of each main process, and whether its session lives
  task,      \* what each worker is working on, and for whom
  runs,      \* ingest_runs, as committed
  archived,  \* keys of blobs, messages, attachments and message_headers
  owned,     \* rows of message_accounts (and labels): account and digest
  sightings, \* rows of message_sightings: file and position
  failed,    \* how many rows of failed_messages each position has
  faults     \* faults so far

dbvars == <<runs, archived, owned, sightings, failed>>
vars   == <<bvars, lock, main, task, dbvars, faults>>

Total(s)  == Len(Content[s])
Position  == UNION {{s} \X (1..Total(s)) : s \in Source}
HashAt(s, i) == Content[s][i]

Status == {"running", "interrupted", "complete"}
Row    == [src : Source, acct : Account, status : Status, ckpt : Nat]
Result == [pos : Nat, ok : BOOLEAN, fresh : BOOLEAN]

MainPC == {"idle", "locked", "scan", "pool", "nopending", "analyze", "finalize", "closing"}

Main == [pc : MainPC, conn : BOOLEAN, src : Source \cup {None}, acct : Account \cup {None},
         run : RunId \cup {None}, row : Row \cup {None}, start : Nat, next : Nat,
         outq : SUBSET Result, got : SUBSET Result, batch : SUBSET Result]
Task == [owner : Proc \cup {Nobody}, src : Source \cup {None}, pos : Nat]

NoMain == [pc |-> "idle", conn |-> FALSE, src |-> None, acct |-> None, run |-> None, row |-> None,
           start |-> 0, next |-> 1, outq |-> {}, got |-> {}, batch |-> {}]
NoTask == [owner |-> Nobody, src |-> None, pos |-> 0]

\* The workers of p's pool that are busy.
Busy(p) == {w \in Worker : task[w].owner = p}

\* Positions whose results the main process p has received.
Done(p) == {r.pos : r \in main[p].got}

\* A position is accounted for by a sighting or by a failed_messages row.
Recorded(s, i) == <<s, i>> \in sightings \/ failed[<<s, i>>] > 0

Init ==
  /\ BlobInit
  /\ lock = None
  /\ main = [p \in Proc |-> NoMain]
  /\ task = [w \in Worker |-> NoTask]
  /\ runs = [r \in RunId |-> None]
  /\ archived = {} /\ owned = {} /\ sightings = {}
  /\ failed = [x \in Position |-> 0]
  /\ faults = 0

(***************************************************************************)
(* Starting: the lock, the sweep, the scan and the run to resume           *)
(***************************************************************************)

\* (Mutant: interrupted runs are not resumed.)
OpenRunning(s) == {r \in RunId : runs[r] # None /\ runs[r].src = s /\ runs[r].status = "running"}

\* Runs of a file that _ensure_run would resume, and the one it picks.
Open(s) == {r \in RunId : runs[r] # None /\ runs[r].src = s
                          /\ runs[r].status \in {"running", "interrupted"}}
Latest(s, r) == r \in Open(s) /\ \A q \in Open(s) : q <= r
NewId(r)     == runs[r] = None /\ \A q \in RunId : q < r => runs[q] # None

\* (Mutant: the lock is not asked for.)
AcquireNothing(p, s, a) ==
  /\ main[p].pc = "idle"
  /\ Open(s) # {} \/ \E r \in RunId : NewId(r)
  /\ lock' = p
  /\ main' = [main EXCEPT ![p].pc = "locked", ![p].conn = TRUE, ![p].src = s, ![p].acct = a]
  /\ UNCHANGED <<bvars, task, dbvars, faults>>

\* ingest() connects and takes the lock; a second one raises and changes
\* nothing. (A run key must be left for it: the bound RunId.)
AcquireLock(p, s, a) ==
  /\ main[p].pc = "idle"
  /\ lock = None
  /\ Open(s) # {} \/ \E r \in RunId : NewId(r)
  /\ lock' = p
  /\ main' = [main EXCEPT ![p].pc = "locked", ![p].conn = TRUE, ![p].src = s, ![p].acct = a]
  /\ UNCHANGED <<bvars, task, dbvars, faults>>

\* (Mutant: the lock does not go with the connection that took it.)
StopKeepsLock(p) ==
  /\ main[p].pc # "idle"
  /\ main' = [main EXCEPT ![p] = NoMain]
  /\ UNCHANGED lock

\* The main process of p stops: its locals and its uncommitted row are gone,
\* and with its session the lock, if it still had it.
Stop(p) ==
  /\ main[p].pc # "idle"
  /\ main' = [main EXCEPT ![p] = NoMain]
  /\ lock' = IF lock = p THEN None ELSE lock

\* Sweep the temporaries of dead runs, then scan the file.
Sweep(p) ==
  /\ main[p].pc = "locked"
  /\ SweepTemporaries
  /\ main' = [main EXCEPT ![p].pc = "scan"]
  /\ UNCHANGED <<lock, task, dbvars, faults>>

\* An empty file: close, which releases the lock, and return.
EmptyMbox(p) ==
  /\ main[p].pc = "scan"
  /\ Total(main[p].src) = 0
  /\ Stop(p)
  /\ UNCHANGED <<bvars, task, dbvars, faults>>

\* (Mutant: a resumed run starts over and forgets its checkpoint.)
EnterFromStart(p, r, row) ==
  main' = [main EXCEPT ![p].pc = "pool", ![p].run = r, ![p].row = [row EXCEPT !.ckpt = 0]]

\* The run is known: its checkpoint decides which positions are pending.
EnterRun(p, r, row) ==
  main' = [main EXCEPT
    ![p].pc = IF row.ckpt < Total(main[p].src) THEN "pool" ELSE "nopending",
    ![p].run = r, ![p].row = row, ![p].start = row.ckpt, ![p].next = row.ckpt + 1]

\* _ensure_run resumes the latest open run of the file, whatever its account,
\* or inserts a row that stays uncommitted; then the pending list is built.
EnsureRun(p) ==
  LET s == main[p].src IN
  /\ main[p].pc = "scan"
  /\ Total(s) > 0
  /\ main[p].conn
  /\ \/ \E r \in RunId : Latest(s, r) /\ EnterRun(p, r, runs[r])
     \/ /\ Open(s) = {}
        /\ \E r \in RunId :
             /\ NewId(r)
             /\ EnterRun(p, r, [src |-> s, acct |-> main[p].acct, status |-> "running", ckpt |-> 0])
  /\ UNCHANGED <<bvars, lock, task, dbvars, faults>>

\* Nothing pending: the run is marked complete in the open transaction, which
\* closing the connection then discards. (A session that is dead by then leaves
\* no more behind.)
NothingPending(p) ==
  /\ main[p].pc = "nopending"
  /\ Stop(p)
  /\ UNCHANGED <<bvars, task, dbvars, faults>>

(***************************************************************************)
(* The pool: workers take positions in order and deliver in any order      *)
(***************************************************************************)

\* Worker w takes the next position, reads and parses it, and calls put.
TakeTask(w, p) ==
  LET i == main[p].next  s == main[p].src IN
  /\ main[p].pc = "pool"
  /\ i <= Total(s)
  /\ BeginPut(w, HashAt(s, i))
  /\ task' = [task EXCEPT ![w] = [owner |-> p, src |-> s, pos |-> i]]
  /\ main' = [main EXCEPT ![p].next = i + 1]
  /\ UNCHANGED <<lock, dbvars, faults>>

\* A system call of put.
PutStep(w) ==
  /\ WriteTemp(w) \/ Rename(w) \/ SyncDir(w)
  /\ UNCHANGED <<lock, main, task, dbvars, faults>>

\* (Mutant: the exception of a worker is swallowed instead of reported.)
DeliverSuccess(w) ==
  LET p == task[w].owner IN
  /\ EndPut(w)
  /\ task' = [task EXCEPT ![w] = NoTask]
  /\ IF p = Nobody \/ put[w].pc = "raised"
     THEN UNCHANGED main
     ELSE main' = [main EXCEPT ![p].outq = @ \cup
            {[pos |-> task[w].pos, ok |-> TRUE, fresh |-> put[w].pc = "stored"]}]
  /\ UNCHANGED <<lock, dbvars, faults>>

\* The task ends: its result goes to the main process, if there still is one.
\* An orphan's result finds no reader, and the orphan exits.
Deliver(w) ==
  LET p == task[w].owner IN
  /\ EndPut(w)
  /\ task' = [task EXCEPT ![w] = NoTask]
  /\ IF p = Nobody
     THEN UNCHANGED main
     ELSE main' = [main EXCEPT ![p].outq = @ \cup
            {[pos |-> task[w].pos, ok |-> put[w].pc # "raised", fresh |-> put[w].pc = "stored"]}]
  /\ UNCHANGED <<lock, dbvars, faults>>

(***************************************************************************)
(* The main loop                                                           *)
(***************************************************************************)

\* (Mutant: the checkpoint is the furthest result, as before issue 12.)
HighWater(k, n, done, m) == m \in done \cup {k} /\ \A i \in done : i <= m

\* m is the low-water mark: the last of the messages done without a gap after
\* the first k, which were done before.
LowWater(k, n, done, m) ==
  /\ m \in k..n
  /\ (k + 1)..m \subseteq done
  /\ m = n \/ m + 1 \notin done

\* (Mutant: a result is batched but not counted as completed.)
ReceiveUncounted(p) ==
  /\ main[p].pc = "pool"
  /\ Cardinality(main[p].batch) < BatchSize
  /\ \E r \in main[p].outq :
       main' = [main EXCEPT ![p].outq = @ \ {r}, ![p].batch = @ \cup {r}]
  /\ UNCHANGED <<bvars, lock, task, dbvars, faults>>

\* Take one result off the queue.
Receive(p) ==
  /\ main[p].pc = "pool"
  /\ Cardinality(main[p].batch) < BatchSize
  /\ \E r \in main[p].outq :
       main' = [main EXCEPT ![p].outq = @ \ {r}, ![p].got = @ \cup {r}, ![p].batch = @ \cup {r}]
  /\ UNCHANGED <<bvars, lock, task, dbvars, faults>>

\* (Mutant: failures are inserted along with the successes.)
WriteEverything(p) ==
  LET m == main[p]
      new == {HashAt(m.src, r.pos) : r \in m.batch}
  IN
  /\ archived' = archived \cup new
  /\ owned' = owned \cup ({m.acct} \X new)
  /\ sightings' = sightings \cup {<<m.src, r.pos>> : r \in m.batch}
  /\ UNCHANGED failed

\* (Mutant: rows the database would refuse are dropped on the way.)
WriteAccepted(p) ==
  LET m == main[p]
      good == {r \in m.batch : r.ok /\ HashAt(m.src, r.pos) \notin Refused}
      new == {HashAt(m.src, r.pos) : r \in good}
      bad == {<<m.src, r.pos>> : r \in {x \in m.batch : ~x.ok}}
  IN
  /\ archived' = archived \cup new
  /\ owned' = owned \cup ({m.acct} \X new)
  /\ sightings' = sightings \cup {<<m.src, r.pos>> : r \in good}
  /\ failed' = [x \in Position |-> IF x \in bad THEN failed[x] + 1 ELSE failed[x]]

\* The batch holds a row that COPY rejects: parse strips a NUL from the
\* subject and the body, not from a Message-ID or an address.
Offends(p) == \E r \in main[p].batch : r.ok /\ HashAt(main[p].src, r.pos) \in Refused

\* _write_batch: every insert does nothing on conflict, except that failures
\* are copied as they come.
WriteBatch(p) ==
  LET m == main[p]
      new == {HashAt(m.src, r.pos) : r \in {x \in m.batch : x.ok}}
      bad == {<<m.src, r.pos>> : r \in {x \in m.batch : ~x.ok}}
  IN
  /\ ~Offends(p)
  /\ archived' = archived \cup new
  /\ owned' = owned \cup ({m.acct} \X new)
  /\ sightings' = sightings \cup {<<m.src, r.pos>> : r \in {x \in m.batch : x.ok}}
  /\ failed' = [x \in Position |-> IF x \in bad THEN failed[x] + 1 ELSE failed[x]]

\* Commit publishes the run row as the transaction has it. It takes a session.
Publish(p) ==
  /\ main[p].conn
  /\ runs' = [runs EXCEPT ![main[p].run] = main[p].row]

\* safe_offset once everything p has received is counted in.
Mark(p, m) == LowWater(main[p].start, Total(main[p].src), Done(p), m)

\* A full batch: written and committed together with the checkpoint set after
\* the previous batch. The new checkpoint waits for the next commit.
Flush(p) ==
  /\ main[p].pc = "pool"
  /\ Cardinality(main[p].batch) >= BatchSize
  /\ WriteBatch(p)
  /\ Publish(p)
  /\ \E m \in 0..Total(main[p].src) :
       Mark(p, m) /\ main' = [main EXCEPT ![p].batch = {}, ![p].row.ckpt = m]
  /\ UNCHANGED <<bvars, lock, task, faults>>

\* (Mutant: the pool is left when no worker is busy any more.)
FlushWhenQuiet(p) ==
  /\ main[p].pc = "pool"
  /\ main[p].next > Total(main[p].src) /\ Busy(p) = {} /\ main[p].outq = {}
  /\ WriteBatch(p)
  /\ Publish(p)
  /\ \E m \in 0..Total(main[p].src) :
       Mark(p, m) /\ main' = [main EXCEPT ![p].pc = "analyze", ![p].batch = {}, ![p].row.ckpt = m]
  /\ UNCHANGED <<bvars, lock, task, faults>>

\* Every result is in: leave the pool and flush what is left of a batch.
FlushRest(p) ==
  /\ main[p].pc = "pool"
  /\ Cardinality(main[p].batch) < BatchSize
  /\ (main[p].start + 1)..Total(main[p].src) \subseteq Done(p)
  /\ \/ /\ main[p].batch # {}
        /\ WriteBatch(p)
        /\ Publish(p)
        /\ \E m \in 0..Total(main[p].src) :
             Mark(p, m) /\ main' = [main EXCEPT ![p].pc = "analyze", ![p].batch = {}, ![p].row.ckpt = m]
     \/ /\ main[p].batch = {}
        /\ main' = [main EXCEPT ![p].pc = "analyze"]
        /\ UNCHANGED dbvars
  /\ UNCHANGED <<bvars, lock, task, faults>>

\* New messages: analyze and commit, and with it the last checkpoint.
Analyze(p) ==
  /\ main[p].pc = "analyze"
  /\ main' = [main EXCEPT ![p].pc = "finalize"]
  /\ IF \E r \in main[p].got : r.fresh THEN Publish(p) ELSE UNCHANGED runs
  /\ UNCHANGED <<bvars, lock, task, archived, owned, sightings, failed, faults>>

\* Mark the run complete and commit.
Finalize(p) ==
  LET row == [main[p].row EXCEPT !.status = "complete"] IN
  /\ main[p].pc = "finalize"
  /\ main[p].conn
  /\ runs' = [runs EXCEPT ![main[p].run] = row]
  /\ main' = [main EXCEPT ![p].pc = "closing", ![p].row = row]
  /\ UNCHANGED <<bvars, lock, task, archived, owned, sightings, failed, faults>>

\* Return; the connection closes and the lock is free.
Close(p) ==
  /\ main[p].pc = "closing"
  /\ Stop(p)
  /\ UNCHANGED <<bvars, task, dbvars, faults>>

(***************************************************************************)
(* Ending early                                                            *)
(***************************************************************************)

\* ... and so are the workers of its pool.
StopPool(p) ==
  /\ KillWorkers(Busy(p))
  /\ task' = [w \in Worker |-> IF w \in Busy(p) THEN NoTask ELSE task[w]]

\* An exception in the main process: leaving the pool terminates the workers,
\* the handler rolls back and marks the run interrupted. That update may fail
\* too, as it does without a session, and finds no row if the run was never
\* committed.
Abort(p) ==
  LET r == main[p].run IN
  /\ Stop(p)
  /\ StopPool(p)
  /\ \/ UNCHANGED runs
     \/ /\ main[p].conn
        /\ r # None /\ runs[r] # None
        /\ runs' = [runs EXCEPT ![r].status = "interrupted"]
  /\ UNCHANGED <<archived, owned, sightings, failed>>

\* A batch is written when it is full, and when every result is in.
BatchDue(p) ==
  /\ main[p].pc = "pool"
  /\ main[p].batch # {}
  /\ \/ Cardinality(main[p].batch) >= BatchSize
     \/ (main[p].start + 1)..Total(main[p].src) \subseteq Done(p)

\* COPY rejects a row of a batch that is due: the whole batch is rolled back
\* and the ingest ends with the database's error.
BatchRefused(p) == BatchDue(p) /\ Offends(p) /\ Abort(p) /\ UNCHANGED faults

\* Where the main process talks to the database after it has the lock.
StatementDue(p) ==
  \/ main[p].pc = "scan" /\ Total(main[p].src) > 0
  \/ BatchDue(p)
  \/ main[p].pc = "analyze" /\ \E r \in main[p].got : r.fresh
  \/ main[p].pc = "finalize"

\* A dead session is noticed by the next statement only, which raises.
ConnectionLost(p) ==
  /\ ~main[p].conn
  /\ StatementDue(p)
  /\ Abort(p)
  /\ UNCHANGED faults

(***************************************************************************)
(* Faults                                                                  *)
(***************************************************************************)

Fault(kind) ==
  /\ kind \in FaultKind
  /\ faults < MaxFaults
  /\ faults' = faults + 1

\* A system call of a worker's put fails.
PutFails(w) ==
  /\ Fault("put")
  /\ PutRaises(w)
  /\ UNCHANGED <<lock, main, task, dbvars>>

\* A worker raises on a message before it reaches put: the failure is a result.
ParseFails(p) ==
  /\ Fault("parse")
  /\ main[p].pc = "pool"
  /\ main[p].next <= Total(main[p].src)
  /\ main' = [main EXCEPT ![p].next = @ + 1,
       ![p].outq = @ \cup {[pos |-> main[p].next, ok |-> FALSE, fresh |-> FALSE]}]
  /\ UNCHANGED <<bvars, lock, task, dbvars>>

\* A worker of the pool is killed. The pool replaces it; its task is lost.
WorkerDies(w) ==
  /\ Fault("worker")
  /\ put[w] # NoPut
  /\ KillWorkers({w})
  /\ task' = [task EXCEPT ![w] = NoTask]
  /\ UNCHANGED <<lock, main, dbvars>>

\* Anything else the main process may raise, Ctrl-C among it.
Interrupt(p) == Fault("interrupt") /\ Abort(p)

\* The container of p is killed: main process and workers.
KillContainer(p) ==
  /\ Fault("container")
  /\ Stop(p)
  /\ StopPool(p)
  /\ UNCHANGED dbvars

\* The session of p dies (its backend is terminated, or Postgres restarts) and
\* the lock is free at once. Main process and pool carry on unaware.
ConnectionDies(p) ==
  /\ Fault("connection")
  /\ main[p].conn
  /\ main' = [main EXCEPT ![p].conn = FALSE]
  /\ lock' = IF lock = p THEN None ELSE lock
  /\ UNCHANGED <<bvars, task, dbvars>>

\* Only the main process is killed: its workers carry on as orphans.
KillMain(p) ==
  /\ Fault("main")
  /\ Stop(p)
  /\ task' = [w \in Worker |-> IF w \in Busy(p) THEN [task[w] EXCEPT !.owner = Nobody] ELSE task[w]]
  /\ UNCHANGED <<bvars, dbvars>>

\* The machine loses power. What was committed is kept (synchronous_commit).
PowerFails ==
  /\ Fault("power")
  /\ LosePower
  /\ main' = [p \in Proc |-> NoMain]
  /\ task' = [w \in Worker |-> NoTask]
  /\ lock' = None
  /\ UNCHANGED dbvars

(***************************************************************************)
(* The specification                                                       *)
(***************************************************************************)

\* Steps the code takes by itself once an ingest has started.
MainStep(p) ==
  \/ Sweep(p) \/ EmptyMbox(p) \/ EnsureRun(p) \/ NothingPending(p)
  \/ Receive(p) \/ Flush(p) \/ FlushRest(p) \/ BatchRefused(p)
  \/ ConnectionLost(p) \/ Analyze(p) \/ Finalize(p) \/ Close(p)
WorkerStep(w) == (\E p \in Proc : TakeTask(w, p)) \/ PutStep(w) \/ Deliver(w)

ProcFault(p) ==
  \/ ParseFails(p) \/ Interrupt(p) \/ ConnectionDies(p) \/ KillContainer(p) \/ KillMain(p)

\* No ingest is running and no orphan is left: the archive is at rest.
AtRest ==
  /\ \A p \in Proc : main[p].pc = "idle"
  /\ \A w \in Worker : put[w] = NoPut
  /\ UNCHANGED vars

Next ==
  \/ \E p \in Proc, s \in Source, a \in Account : AcquireLock(p, s, a)
  \/ \E p \in Proc : MainStep(p) \/ ProcFault(p)
  \/ \E w \in Worker : WorkerStep(w) \/ PutFails(w) \/ WorkerDies(w)
  \/ PowerFails
  \/ AtRest

Spec == Init /\ [][Next]_vars

\* Scheduling: a process that can take a step takes one; whoever runs the
\* archive starts the command on every file again and again, and now and then
\* finds the lock free.
Fairness ==
  /\ \A p \in Proc : WF_vars(MainStep(p))
  /\ \A w \in Worker : WF_vars(WorkerStep(w))
Retry == \A s \in Source : SF_vars(\E p \in Proc, a \in Account : AcquireLock(p, s, a))

FairSpec == Spec /\ Fairness /\ Retry

(***************************************************************************)
(* Properties                                                              *)
(***************************************************************************)

TypeOK ==
  /\ BlobTypeOK
  /\ lock \in Proc \cup {None}
  /\ main \in [Proc -> Main] /\ \A p \in Proc : main[p].batch \subseteq main[p].got
  /\ task \in [Worker -> Task]
  /\ runs \in [RunId -> Row \cup {None}]
  /\ archived \subseteq Hash
  /\ owned \subseteq Account \X Hash
  /\ sightings \subseteq Position
  /\ failed \in [Position -> Nat]
  /\ faults \in 0..MaxFaults

\* No message is skipped for good: every position below a committed
\* checkpoint, and every position of a complete run's file, has a sighting or
\* a failed_messages row, in whatever order the workers finish and wherever
\* the run is cut off.
NoSilentLoss ==
  \A r \in RunId : runs[r] # None =>
    \A i \in 1..Total(runs[r].src) :
      runs[r].status = "complete" \/ i <= runs[r].ckpt => Recorded(runs[r].src, i)

\* A row never points at nothing: the blob of every archived digest is there
\* and whole. (Row last; process crashes only.)
RowHasBlob == archived \subseteq names \ partial

\* A row whose blob some put saw through to the end outlives a power failure as
\* well, even if another put found that blob before it was synced. What can be
\* lost is only what every put took for present.
RowOutlivesPower == archived \ (found \ stored) \subseteq Durable /\ partial = {}

\* No step takes the temporary of a put in progress for an ingest that has its
\* session, unless a process that lost its own is about to sweep: what the
\* advisory lock is there for. Both conditions are needed. Once a session dies
\* the lock is free although the pool is at work, and the next ingest sweeps its
\* temporaries; and a process that has yet to sweep does so without the lock.
SweepSparesLive ==
  [][ (\A p \in Proc : main[p].pc = "locked" => main[p].conn) =>
        \A w \in Worker :
          /\ task[w].owner # Nobody /\ main[task[w].owner].conn /\ task'[w] = task[w]
          /\ put[w].pc = "written" /\ put'[w] = put[w]
          /\ <<w, put[w].hash>> \in temps
          => <<w, put[w].hash>> \in temps' ]_vars

\* There is never more than one run of a file to resume: interrupted and
\* killed runs are adopted by the next ingest instead of piling up.
OneOpenRun ==
  \A q, r \in RunId :
    /\ runs[q] # None /\ runs[q].status # "complete"
    /\ runs[r] # None /\ runs[r].status # "complete"
    /\ runs[q].src = runs[r].src
    => q = r

\* What a reader of the database may rely on; see module Ledger.
LedgerView ==
  [r \in RunId |-> IF runs[r] = None THEN None
    ELSE [src |-> runs[r].src, ckpt |-> runs[r].ckpt, complete |-> runs[r].status = "complete"]]

Promise == INSTANCE Ledger WITH
  Size <- [s \in Source |-> Total(s)], NoRow <- None, ledger <- LedgerView,
  recorded <- {x \in Position : Recorded(x[1], x[2])}

\* Every commit of the pipeline, crash and resume included, is a commit of the
\* ledger: honest, on the run's own file, its checkpoint never moved back.
KeepsLedger == Promise!LedgerSpec

\* An ingest that starts ends, with or without an error: no wait of the main
\* process on its pool lasts forever.
IngestEnds == \A p \in Proc : main[p].pc # "idle" ~> main[p].pc = "idle"

\* A file all of whose rows the database takes.
Accepted(s) == \A i \in 1..Total(s) : HashAt(s, i) \notin Refused

\* Running the command again and again gets every message of every such file
\* recorded, whatever was killed on the way and however often the ingest of
\* another file is refused.
AllRecordedAtLast == <>[](\A x \in Position : Accepted(x[1]) => Recorded(x[1], x[2]))
=============================================================================
