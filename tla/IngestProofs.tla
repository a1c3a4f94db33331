---------------------------- MODULE IngestProofs ----------------------------
(***************************************************************************)
(* What the ingest pipeline guarantees for any number of processes,        *)
(* workers, files, accounts and runs, any batch size and any faults.       *)
(***************************************************************************)
EXTENDS Ingest, BlobStoreProofs, FiniteSetTheorems

(***************************************************************************)
(* The inductive invariant, in named parts                                 *)
(***************************************************************************)

\* Where a main process has a run.
Entered == {"pool", "nopending", "analyze", "finalize", "closing"}

\* Whoever has the session that took the lock holds it, and is running.
LockInv ==
  \A p \in Proc : (main[p].conn <=> lock = p) /\ (main[p].conn => main[p].pc # "idle")

\* The locals of a main process belong together.
LocalsOK(p) ==
  LET m == main[p] IN
  /\ m.pc # "idle" => m.src \in Source /\ m.acct \in Account
  /\ m.pc \notin Entered => m.run = None /\ m.outq = {} /\ m.got = {} /\ m.batch = {}
  /\ m.pc \in Entered =>
       /\ m.run \in RunId
       /\ m.row \in Row
       /\ m.row.src = m.src
       /\ m.row.ckpt <= Total(m.src)
       /\ m.start <= Total(m.src)
       /\ m.next \in (m.start + 1)..(Total(m.src) + 1)
  /\ \A r \in m.outq \cup m.got : r.pos \in (m.start + 1)..(m.next - 1)

MainInv == \A p \in Proc : LocalsOK(p)

\* A worker of a pool works for a process that has the pool open, on a position
\* of its file that no other worker has and no result has come back for.
TaskOK(w, p) ==
  task[w].owner = p =>
    /\ main[p].pc = "pool"
    /\ task[w].src = main[p].src
    /\ task[w].pos \in (main[p].start + 1)..(main[p].next - 1)
    /\ \A r \in main[p].outq \cup main[p].got : r.pos # task[w].pos
    /\ \A v \in Worker : task[v].owner = p /\ task[v].pos = task[w].pos => v = w

TaskInv ==
  \A w \in Worker : /\ put[w] = NoPut => task[w].owner = Nobody
                    /\ \A p \in Proc : TaskOK(w, p)

\* A committed checkpoint is a position of the file.
RunInv == \A r \in RunId : runs[r] # None => runs[r].ckpt <= Total(runs[r].src)

\* What a main process believes to be done, committed or not, is recorded:
\* this is what makes its next commit honest.
Believed(p) ==
  LET m == main[p] IN
  /\ \A i \in 1..m.start : Recorded(m.src, i)
  /\ \A i \in 1..m.row.ckpt : Recorded(m.src, i)
  /\ \A r \in m.got \ m.batch : Recorded(m.src, r.pos)

DoneOK(p) ==
  LET m == main[p] IN
  m.pc \in Entered =>
    /\ Believed(p)
    /\ m.pc \in {"analyze", "finalize", "closing"} =>
         m.batch = {} /\ (m.start + 1)..Total(m.src) \subseteq Done(p)
    /\ m.pc # "closing" => m.row.status # "complete"

DoneInv == \A p \in Proc : DoneOK(p)

\* All of it.
IngestInv ==
  BlobInv /\ TypeOK /\ LockInv /\ MainInv /\ TaskInv /\ RunInv /\ DoneInv /\ NoSilentLoss

(***************************************************************************)
(* A session that dies takes nothing but the lock with it                  *)
(***************************************************************************)

\* The locals of every process but for its session.
SameLocals(q) ==
  /\ main'[q].pc = main[q].pc /\ main'[q].src = main[q].src /\ main'[q].acct = main[q].acct
  /\ main'[q].run = main[q].run /\ main'[q].row = main[q].row
  /\ main'[q].start = main[q].start /\ main'[q].next = main[q].next
  /\ main'[q].outq = main[q].outq /\ main'[q].got = main[q].got
  /\ main'[q].batch = main[q].batch

(* They are the same after a session died, and no session comes back.        *)
LEMMA DiesEffect ==
  ASSUME main \in [Proc -> Main], NEW p \in Proc, ConnectionDies(p)
  PROVE  /\ main' \in [Proc -> Main]
         /\ \A q \in Proc : SameLocals(q) /\ (main'[q].conn => main[q].conn)
         /\ \A q \in Proc : q # p => main'[q] = main[q]
         /\ ~main'[p].conn /\ lock' = (IF lock = p THEN None ELSE lock)
         /\ UNCHANGED <<bvars, task, dbvars>>
BY DEF ConnectionDies, SameLocals, Main

(***************************************************************************)
(* The pipeline uses the blob store as its specification allows            *)
(***************************************************************************)

(* Messages have digests.                                                    *)
LEMMA HashAtType ==
  ASSUME NEW s \in Source, NEW i \in 1..Total(s)
  PROVE  HashAt(s, i) \in Hash
BY IngestAssumption DEF Total, HashAt

\* Every step of the pipeline is a step of the store, or leaves it alone.
LEMMA StoreStep == MainInv /\ TypeOK /\ [Next]_vars => [BlobNext]_bvars
<1> SUFFICES ASSUME MainInv, TypeOK, [Next]_vars PROVE [BlobNext]_bvars
  OBVIOUS
<1>1. ASSUME NEW p \in Proc, NEW w \in Worker, TakeTask(w, p) PROVE BlobNext
  <2>1. main[p].src \in Source /\ main[p].next \in 1..Total(main[p].src)
    BY <1>1 DEF TakeTask, MainInv, LocalsOK, Entered, TypeOK, Main
  <2>2. HashAt(main[p].src, main[p].next) \in Hash
    BY <2>1, HashAtType
  <2> QED BY <1>1, <2>2 DEF TakeTask, BlobNext
<1>2. ASSUME NEW W \in SUBSET Worker, KillWorkers(W) PROVE BlobNext
  BY <1>2 DEF BlobNext
<1>3. \A p \in Proc : Busy(p) \in SUBSET Worker
  BY DEF Busy
<1>4. ASSUME NEW p \in Proc, MainStep(p) PROVE [BlobNext]_bvars
  BY <1>2, <1>3, <1>4 DEF MainStep, Sweep, EmptyMbox, EnsureRun, NothingPending, Receive, Flush,
              FlushRest, Analyze, Finalize, Close, BatchRefused, ConnectionLost, Abort, StopPool, BlobNext
<1>5. ASSUME NEW p \in Proc, ProcFault(p) PROVE [BlobNext]_bvars
  BY <1>2, <1>3, <1>5 DEF ProcFault, ParseFails, Interrupt, ConnectionDies, Abort, KillContainer,
      KillMain, StopPool
<1>6. ASSUME NEW w \in Worker, WorkerStep(w) PROVE [BlobNext]_bvars
  BY <1>1, <1>6 DEF WorkerStep, PutStep, Deliver, BlobNext
<1>7. ASSUME NEW w \in Worker, PutFails(w) \/ WorkerDies(w) PROVE [BlobNext]_bvars
  BY <1>2, <1>7 DEF PutFails, WorkerDies, BlobNext
<1>8. ASSUME NEW p \in Proc, NEW s \in Source, NEW a \in Account, AcquireLock(p, s, a)
      PROVE  [BlobNext]_bvars
  BY <1>8 DEF AcquireLock
<1>9. CASE PowerFails
  BY <1>9 DEF PowerFails, BlobNext
<1>10. CASE AtRest \/ UNCHANGED vars
  BY <1>10 DEF AtRest, vars
<1> QED BY <1>4, <1>5, <1>6, <1>7, <1>8, <1>9, <1>10 DEF Next

(***************************************************************************)
(* Types                                                                   *)
(***************************************************************************)

\* The keys in the tables that a batch is written to.
TablesOK ==
  /\ archived \subseteq Hash
  /\ owned \subseteq Account \X Hash
  /\ sightings \subseteq Position
  /\ failed \in [Position -> Nat]

(* No process is nobody.                                                     *)
LEMMA ProcNobody == \A p \in Proc : p # Nobody
BY IngestAssumption

(* The locals of no process are well formed.                                 *)
LEMMA NoMainType == NoMain \in Main
BY DEF NoMain, Main, MainPC

\* A batch is written to the right tables, with keys of the right kind.
LEMMA WriteBatchType ==
  ASSUME TypeOK, MainInv, NEW p \in Proc, main[p].pc = "pool", WriteBatch(p)
  PROVE  TablesOK'
<1> DEFINE m == main[p]
<1>1. m \in Main /\ m.src \in Source /\ m.acct \in Account /\ m.batch \subseteq m.got
  BY DEF TypeOK, MainInv, LocalsOK, Main
<1>2. \A r \in m.batch : r \in Result /\ r.pos \in 1..Total(m.src)
  <2>1. m.start \in Nat /\ m.next \in (m.start + 1)..(Total(m.src) + 1)
    BY <1>1 DEF MainInv, LocalsOK, Entered, Main
  <2>2. Total(m.src) \in Nat
    BY <1>1, IngestAssumption DEF Total
  <2>3. \A r \in m.batch : r \in Result /\ r.pos \in (m.start + 1)..(m.next - 1)
    BY <1>1 DEF MainInv, LocalsOK, Main
  <2> QED BY <2>1, <2>2, <2>3 DEF Result
<1>3. \A r \in m.batch : HashAt(m.src, r.pos) \in Hash /\ <<m.src, r.pos>> \in Position
  BY <1>1, <1>2, HashAtType DEF Position
<1>4. {HashAt(m.src, r.pos) : r \in {x \in m.batch : x.ok}} \subseteq Hash
  BY <1>3
<1>5. {<<m.src, r.pos>> : r \in {x \in m.batch : x.ok}} \subseteq Position
  BY <1>3
<1>6. archived' \subseteq Hash /\ owned' \subseteq Account \X Hash
  BY <1>1, <1>4 DEF WriteBatch, TypeOK
<1>7. sightings' \subseteq Position
  BY <1>5 DEF WriteBatch, TypeOK
<1>8. failed' \in [Position -> Nat]
  BY DEF WriteBatch, TypeOK
<1> QED BY <1>6, <1>7, <1>8 DEF TablesOK

\* Two updates of several fields at once.
LEMMA EnteredType ==
  ASSUME NEW m \in Main, NEW c \in MainPC, NEW r \in RunId, NEW row \in Row, NEW k \in Nat
  PROVE  [m EXCEPT !.pc = c, !.run = r, !.row = row, !.start = k, !.next = k + 1] \in Main
<1> DEFINE m1 == [m EXCEPT !.pc = c, !.run = r]
           m2 == [m1 EXCEPT !.row = row, !.start = k]
<1>1. m1 \in Main
  BY DEF Main
<1>2. m2 \in Main
  <2> HIDE DEF m1
  <2> QED BY <1>1 DEF Main
<1>3. [m2 EXCEPT !.next = k + 1] \in Main
  <2> HIDE DEF m2
  <2> QED BY <1>2 DEF Main
<1> QED BY <1>3

(* So are those of one that has handed out a task.                           *)
LEMMA TakenType ==
  ASSUME NEW m \in Main, NEW k \in Nat, NEW o \in SUBSET Result
  PROVE  [m EXCEPT !.next = k, !.outq = o] \in Main
BY DEF Main

\* The locals of a main process keep their types.
LEMMA MainTypeStep ==
  ASSUME IngestInv, [Next]_vars
  PROVE  main' \in [Proc -> Main]
<1>0. main \in [Proc -> Main] /\ runs \in [RunId -> Row \cup {None}] /\ task \in [Worker -> Task]
  BY DEF IngestInv, TypeOK
<1> DEFINE Becomes(p, m) == m \in Main /\ main' = [main EXCEPT ![p] = m]
<1>b. ASSUME NEW p \in Proc, NEW m, Becomes(p, m) PROVE main' \in [Proc -> Main]
  BY <1>0, <1>b
<1>1. ASSUME NEW p \in Proc, NEW s \in Source, NEW a \in Account, AcquireLock(p, s, a)
      PROVE main' \in [Proc -> Main]
  <2> DEFINE m == [main[p] EXCEPT !.pc = "locked", !.conn = TRUE, !.src = s, !.acct = a]
  <2>1. m \in Main
    BY <1>0, ZenonT(40) DEF Main, MainPC
  <2>2. main' = [main EXCEPT ![p] = m]
    BY <1>0, <1>1 DEF AcquireLock
  <2> QED BY <1>b, <2>1, <2>2
<1>2. ASSUME NEW p \in Proc, Sweep(p) PROVE main' \in [Proc -> Main]
  <2> DEFINE m == [main[p] EXCEPT !.pc = "scan"]
  <2>1. m \in Main
    BY <1>0 DEF Main, MainPC
  <2>2. main' = [main EXCEPT ![p] = m]
    BY <1>0, <1>2 DEF Sweep
  <2> QED BY <1>b, <2>1, <2>2
<1>3. ASSUME NEW p \in Proc, EmptyMbox(p) \/ NothingPending(p) \/ Close(p) \/ Stop(p)
      PROVE  main' \in [Proc -> Main]
  BY <1>3, <1>b, NoMainType DEF EmptyMbox, NothingPending, Close, Stop
<1>4. ASSUME NEW p \in Proc, EnsureRun(p) PROVE main' \in [Proc -> Main]
  <2>1. main[p].src \in Source /\ main[p].acct \in Account
    BY <1>4 DEF MainInv, LocalsOK, EnsureRun, IngestInv
  <2>2. ASSUME NEW r \in RunId, NEW row \in Row, EnterRun(p, r, row)
        PROVE  main' \in [Proc -> Main]
    <3> DEFINE c == IF row.ckpt < Total(main[p].src) THEN "pool" ELSE "nopending"
               m == [main[p] EXCEPT !.pc = c, !.run = r, !.row = row,
                                    !.start = row.ckpt, !.next = row.ckpt + 1]
    <3>1. c \in MainPC /\ row.ckpt \in Nat
      BY DEF MainPC, Row
    <3>2. m \in Main
      BY <1>0, <3>1, EnteredType
    <3>3. main' = [main EXCEPT ![p] = m]
      BY <1>0, <2>2 DEF EnterRun
    <3> QED BY <1>b, <3>2, <3>3
  <2>3. \A r \in RunId : Latest(main[p].src, r) => runs[r] \in Row
    BY <1>0 DEF Latest, Open
  <2>4. [src |-> main[p].src, acct |-> main[p].acct, status |-> "running", ckpt |-> 0] \in Row
    BY <2>1 DEF Row, Status
  <2> QED BY <1>4, <2>2, <2>3, <2>4 DEF EnsureRun
<1>5. ASSUME NEW p \in Proc, NEW w \in Worker, TakeTask(w, p) PROVE main' \in [Proc -> Main]
  <2> DEFINE m == [main[p] EXCEPT !.next = main[p].next + 1]
  <2>1. m \in Main
    BY <1>0 DEF Main
  <2>2. main' = [main EXCEPT ![p] = m]
    BY <1>0, <1>5 DEF TakeTask
  <2> QED BY <1>b, <2>1, <2>2
<1>6. ASSUME NEW w \in Worker, Deliver(w) PROVE main' \in [Proc -> Main]
  <2> DEFINE p == task[w].owner
             r == [pos |-> task[w].pos, ok |-> put[w].pc # "raised", fresh |-> put[w].pc = "stored"]
             m == [main[p] EXCEPT !.outq = @ \cup {r}]
  <2>1. r \in Result
    BY <1>0 DEF Task, Result
  <2>2. CASE p = Nobody
    BY <1>0, <1>6, <2>2 DEF Deliver
  <2>3. CASE p # Nobody
    <3>1. p \in Proc
      BY <1>0, <2>3 DEF Task
    <3>2. m \in Main
      BY <1>0, <2>1, <3>1 DEF Main
    <3>3. main' = [main EXCEPT ![p] = m]
      BY <1>0, <1>6, <2>3 DEF Deliver
    <3> QED BY <1>b, <3>1, <3>2, <3>3
  <2> QED BY <2>2, <2>3
<1>7. ASSUME NEW p \in Proc, Receive(p) PROVE main' \in [Proc -> Main]
  <2>1. PICK r \in main[p].outq :
               main' = [main EXCEPT ![p].outq = @ \ {r}, ![p].got = @ \cup {r}, ![p].batch = @ \cup {r}]
    BY <1>7 DEF Receive
  <2> DEFINE m == [main[p] EXCEPT !.outq = @ \ {r}, !.got = @ \cup {r}, !.batch = @ \cup {r}]
  <2>2. m \in Main
    BY <1>0, ZenonT(40) DEF Main
  <2>3. main' = [main EXCEPT ![p] = m]
    BY <1>0, <2>1
  <2> QED BY <1>b, <2>2, <2>3
<1>8. ASSUME NEW p \in Proc, Flush(p) PROVE main' \in [Proc -> Main]
  <2>1. PICK k \in 0..Total(main[p].src) : main' = [main EXCEPT ![p].batch = {}, ![p].row.ckpt = k]
    BY <1>8 DEF FlushRest, Flush
  <2> DEFINE m == [main[p] EXCEPT !.batch = {}, !.row.ckpt = k]
  <2>3. main[p].row \in Row /\ k \in Nat
    BY <1>8 DEF FlushRest, Flush, MainInv, LocalsOK, Entered, IngestInv
  <2>4. [main[p].row EXCEPT !.ckpt = k] \in Row
    BY <2>3 DEF Row
  <2>5. m \in Main
    BY <1>0, <2>4, ZenonT(40) DEF Main, MainPC
  <2>2. main' = [main EXCEPT ![p] = m]
    BY <1>0, <2>1
  <2> QED BY <1>b, <2>5, <2>2
<1>9. ASSUME NEW p \in Proc, FlushRest(p), main[p].batch # {} PROVE main' \in [Proc -> Main]
  <2>1. PICK k \in 0..Total(main[p].src) : main' = [main EXCEPT ![p].pc = "analyze",
  ![p].batch = {}, ![p].row.ckpt = k]
    BY <1>9 DEF FlushRest, Flush
  <2> DEFINE m == [main[p] EXCEPT !.pc = "analyze", !.batch = {}, !.row.ckpt = k]
  <2>3. main[p].row \in Row /\ k \in Nat
    BY <1>9 DEF FlushRest, Flush, MainInv, LocalsOK, Entered, IngestInv
  <2>4. [main[p].row EXCEPT !.ckpt = k] \in Row
    BY <2>3 DEF Row
  <2>5. m \in Main
    BY <1>0, <2>4, ZenonT(40) DEF Main, MainPC
  <2>2. main' = [main EXCEPT ![p] = m]
    BY <1>0, <2>1
  <2> QED BY <1>b, <2>5, <2>2
<1>10. ASSUME NEW p \in Proc, FlushRest(p), main[p].batch = {} PROVE main' \in [Proc -> Main]
  <2> DEFINE m == [main[p] EXCEPT !.pc = "analyze"]
  <2>1. m \in Main
    BY <1>0 DEF Main, MainPC
  <2>2. main' = [main EXCEPT ![p] = m]
    BY <1>0, <1>10 DEF FlushRest
  <2> QED BY <1>b, <2>1, <2>2
<1>11. ASSUME NEW p \in Proc, Analyze(p) PROVE main' \in [Proc -> Main]
  <2> DEFINE m == [main[p] EXCEPT !.pc = "finalize"]
  <2>1. m \in Main
    BY <1>0 DEF Main, MainPC
  <2>2. main' = [main EXCEPT ![p] = m]
    BY <1>0, <1>11 DEF Analyze
  <2> QED BY <1>b, <2>1, <2>2
<1>12. ASSUME NEW p \in Proc, Finalize(p) PROVE main' \in [Proc -> Main]
  <2> DEFINE row == [main[p].row EXCEPT !.status = "complete"]
             m == [main[p] EXCEPT !.pc = "closing", !.row = row]
  <2>1. main[p].row \in Row
    BY <1>12 DEF Finalize, MainInv, LocalsOK, Entered, IngestInv
  <2>2. row \in Row
    BY <2>1 DEF Row, Status
  <2>3. m \in Main
    BY <1>0, <2>2, ZenonT(40) DEF Main, MainPC
  <2>4. main' = [main EXCEPT ![p] = m]
    BY <1>0, <1>12 DEF Finalize
  <2> QED BY <1>b, <2>3, <2>4
<1>13. ASSUME NEW p \in Proc, ParseFails(p) PROVE main' \in [Proc -> Main]
  <2> DEFINE r == [pos |-> main[p].next, ok |-> FALSE, fresh |-> FALSE]
             m == [main[p] EXCEPT !.next = @ + 1, !.outq = @ \cup {r}]
  <2>1. r \in Result
    BY <1>0 DEF Main, Result
  <2>2. m \in Main
    <3>1. main[p] \in Main /\ main[p].next + 1 \in Nat /\ main[p].outq \cup {r} \in SUBSET Result
      <4> HIDE DEF r
      <4> QED BY <1>0, <2>1 DEF Main
    <3> QED BY <1>0, <3>1, TakenType
  <2>3. main' = [main EXCEPT ![p] = m]
    BY <1>0, <1>13 DEF ParseFails
  <2> QED BY <1>b, <2>2, <2>3
<1>14. CASE PowerFails
  BY <1>14, NoMainType DEF PowerFails
<1>15. CASE UNCHANGED main
  BY <1>0, <1>15
<1>16. ASSUME NEW p \in Proc, ConnectionDies(p) PROVE main' \in [Proc -> Main]
  BY <1>0, <1>16, DiesEffect
<1> QED
  BY <1>1, <1>2, <1>3, <1>4, <1>5, <1>6, <1>7, <1>8, <1>9, <1>10, <1>11, <1>12, <1>13, <1>14, <1>15,
     <1>16
  DEF Next, MainStep, WorkerStep, ProcFault, PutStep, PutFails, WorkerDies, Interrupt, BatchRefused,
  ConnectionLost, Abort,
      KillContainer, KillMain, AtRest, vars

(* A result that is delivered is all that changes for a main process.        *)
LEMMA DeliverEffect ==
  ASSUME main \in [Proc -> Main], task \in [Worker -> Task], NEW q \in Proc,
         NEW w \in Worker, Deliver(w)
  PROVE  /\ main'[q].pc = main[q].pc /\ main'[q].conn = main[q].conn
         /\ main'[q].got = main[q].got /\ main'[q].batch = main[q].batch
<1>1. CASE task[w].owner = q
  <2>1. q # Nobody
    BY IngestAssumption
  <2>2. main'[q] = [main[q] EXCEPT !.outq = @ \cup
          {[pos |-> task[w].pos, ok |-> put[w].pc # "raised", fresh |-> put[w].pc = "stored"]}]
    BY <1>1, <2>1 DEF Deliver
  <2> QED BY <2>2 DEF Main
<1>2. CASE task[w].owner # q
  <2>1. main'[q] = main[q]
    BY <1>2 DEF Deliver
  <2> QED BY <2>1
<1> QED BY <1>1, <1>2

(* What is batched has been received, after every step too.                  *)
LEMMA BatchTypeStep ==
  ASSUME IngestInv, [Next]_vars, NEW q \in Proc
  PROVE  main'[q].batch \subseteq main'[q].got
<1>0. main \in [Proc -> Main] /\ main[q].batch \subseteq main[q].got /\ task \in [Worker -> Task]
  BY DEF IngestInv, TypeOK
<1>1. ASSUME NEW p \in Proc, MainStep(p) PROVE main'[q].batch \subseteq main'[q].got
  <2>1. CASE EmptyMbox(p) \/ NothingPending(p) \/ Close(p)
    BY <1>0, <2>1 DEF EmptyMbox, NothingPending, Close, Stop, NoMain
  <2>2. CASE Sweep(p) \/ Analyze(p) \/ Finalize(p)
    BY <1>0, <2>2 DEF Sweep, Analyze, Finalize, Main
  <2>5. CASE EnsureRun(p)
    <3>1. PICK r, row : EnterRun(p, r, row)
      BY <2>5 DEF EnsureRun
    <3> QED BY <1>0, <3>1 DEF EnterRun, Main
  <2>3. CASE Receive(p)
    BY <1>0, <2>3 DEF Receive, Main
  <2>4. CASE Flush(p) \/ FlushRest(p)
    BY <1>0, <2>4 DEF Flush, FlushRest, Main
  <2>6. CASE BatchRefused(p) \/ ConnectionLost(p)
    BY <1>0, <2>6 DEF BatchRefused, ConnectionLost, Abort, Stop, NoMain, Main
  <2> QED BY <1>1, <2>1, <2>2, <2>3, <2>4, <2>5, <2>6 DEF MainStep
<1>2. ASSUME NEW p \in Proc, ProcFault(p) PROVE main'[q].batch \subseteq main'[q].got
  <2>1. CASE ConnectionDies(p)
    BY <1>0, <2>1, DiesEffect DEF SameLocals
  <2> QED BY <1>0, <1>2, <2>1 DEF ProcFault, ParseFails, Interrupt, Abort, KillContainer, KillMain,
                                  Stop, NoMain, Main
<1>3. ASSUME NEW w \in Worker, WorkerStep(w) \/ PutFails(w) \/ WorkerDies(w)
      PROVE  main'[q].batch \subseteq main'[q].got
  <2>1. CASE Deliver(w)
    BY <1>0, <2>1, DeliverEffect
  <2>2. ASSUME NEW p \in Proc, TakeTask(w, p) PROVE main'[q].batch \subseteq main'[q].got
    BY <1>0, <2>2 DEF TakeTask, Main
  <2>3. CASE UNCHANGED main
    BY <1>0, <2>3
  <2> QED BY <1>3, <2>1, <2>2, <2>3 DEF WorkerStep, PutStep, PutFails, WorkerDies
<1>4. ASSUME NEW p \in Proc, NEW s \in Source, NEW a \in Account, AcquireLock(p, s, a)
      PROVE  main'[q].batch \subseteq main'[q].got
  BY <1>0, <1>4 DEF AcquireLock, Main
<1>5. CASE PowerFails
  BY <1>5 DEF PowerFails, NoMain
<1>6. CASE AtRest \/ UNCHANGED vars
  BY <1>0, <1>6 DEF AtRest, vars
<1> QED BY <1>1, <1>2, <1>3, <1>4, <1>5, <1>6 DEF Next

\* The committed tables, the lock and the tasks keep their types.
LEMMA TableTypeStep ==
  ASSUME IngestInv, [Next]_vars
  PROVE  /\ lock' \in Proc \cup {None}
         /\ task' \in [Worker -> Task]
         /\ runs' \in [RunId -> Row \cup {None}]
         /\ TablesOK'
         /\ faults' \in 0..MaxFaults
<1>1. lock' \in Proc \cup {None}
  BY ZenonT(40)
     DEF IngestInv, TypeOK, Next, MainStep, WorkerStep, ProcFault, AcquireLock, Sweep, EmptyMbox,
         EnsureRun, NothingPending, TakeTask, PutStep, Deliver, Receive, Flush, FlushRest, Analyze,
         Finalize, Close, PutFails, ParseFails, WorkerDies, Interrupt, BatchRefused, Abort,
         ConnectionLost, ConnectionDies, KillContainer, KillMain,
         Stop, PowerFails, AtRest, vars
<1>2. task' \in [Worker -> Task]
  <2>0. task \in [Worker -> Task] /\ main \in [Proc -> Main] /\ NoTask \in Task
    BY DEF IngestInv, TypeOK, NoTask, Task
  <2>1. ASSUME NEW p \in Proc, NEW w \in Worker, TakeTask(w, p) PROVE task' \in [Worker -> Task]
    <3>1. main[p].src \in Source \cup {None} /\ main[p].next \in Nat
      BY <2>0 DEF Main
    <3> QED BY <2>0, <2>1, <3>1 DEF TakeTask, Task
  <2>2. ASSUME NEW w \in Worker, Deliver(w) \/ WorkerDies(w) PROVE task' \in [Worker -> Task]
    BY <2>0, <2>2 DEF Deliver, WorkerDies
  <2>3. ASSUME NEW p \in Proc, StopPool(p) PROVE task' \in [Worker -> Task]
    BY <2>0, <2>3 DEF StopPool
  <2>4. ASSUME NEW p \in Proc, KillMain(p) PROVE task' \in [Worker -> Task]
    BY <2>0, <2>4 DEF KillMain, Task
  <2>5. CASE PowerFails
    BY <2>0, <2>5 DEF PowerFails
  <2>6. CASE UNCHANGED task
    BY <2>0, <2>6
  <2> QED BY <2>1, <2>2, <2>3, <2>4, <2>5, <2>6
    DEF Next, MainStep, WorkerStep, ProcFault, AcquireLock, Sweep, EmptyMbox, EnsureRun,
        NothingPending, PutStep, Receive, Flush, FlushRest, Analyze, Finalize, Close, PutFails,
        ParseFails, Interrupt, BatchRefused, ConnectionLost, ConnectionDies, Abort, KillContainer,
        AtRest, vars
<1>3. runs' \in [RunId -> Row \cup {None}]
  <2>0. runs \in [RunId -> Row \cup {None}]
    BY DEF IngestInv, TypeOK
  <2>1. ASSUME NEW p \in Proc, main[p].pc \in Entered, Publish(p)
        PROVE  runs' \in [RunId -> Row \cup {None}]
    BY <2>0, <2>1 DEF Publish, IngestInv, MainInv, LocalsOK
  <2>2. ASSUME NEW p \in Proc, Finalize(p) PROVE runs' \in [RunId -> Row \cup {None}]
    <3>1. main[p].row \in Row
      BY <2>2 DEF Finalize, IngestInv, MainInv, LocalsOK, Entered
    <3>2. [main[p].row EXCEPT !.status = "complete"] \in Row
      BY <3>1 DEF Row, Status
    <3> QED BY <2>0, <2>2, <3>2 DEF Finalize
  <2>3. ASSUME NEW p \in Proc, Abort(p) PROVE runs' \in [RunId -> Row \cup {None}]
    <3>1. ASSUME NEW r \in RunId, runs[r] # None PROVE [runs[r] EXCEPT !.status = "interrupted"] \in Row
      BY <2>0, <3>1 DEF Row, Status
    <3>2. main[p].run \in RunId \cup {None}
      BY DEF IngestInv, TypeOK, Main
    <3> QED BY <2>0, <2>3, <3>1, <3>2 DEF Abort
  <2>4. CASE UNCHANGED runs
    BY <2>0, <2>4
  <2> QED BY <2>1, <2>2, <2>3, <2>4
    DEF Next, MainStep, WorkerStep, ProcFault, AcquireLock, Sweep, EmptyMbox, EnsureRun,
        NothingPending, TakeTask, PutStep, Deliver, Receive, Flush, FlushRest, Analyze, Close,
        PutFails, ParseFails, WorkerDies, Interrupt, BatchRefused, ConnectionLost, ConnectionDies,
        KillContainer, KillMain, PowerFails, AtRest, dbvars, vars, Entered
<1>4. TablesOK'
  <2>0. TablesOK
    BY DEF IngestInv, TypeOK, TablesOK
  <2>1. ASSUME NEW p \in Proc, WriteBatch(p), main[p].pc = "pool" PROVE TablesOK'
    BY <2>1, WriteBatchType DEF IngestInv
  <2>2. CASE UNCHANGED <<archived, owned, sightings, failed>>
    BY <2>0, <2>2 DEF TablesOK
  <2> QED BY <2>1, <2>2, ZenonT(40)
    DEF Next, MainStep, WorkerStep, ProcFault, AcquireLock, Sweep, EmptyMbox, EnsureRun,
        NothingPending, TakeTask, PutStep, Deliver, Receive, Flush, FlushRest, Analyze, Finalize,
        Close, PutFails, ParseFails, WorkerDies, Interrupt, BatchRefused, ConnectionLost,
        ConnectionDies, Abort, KillContainer, KillMain, PowerFails, AtRest, dbvars, vars
<1>5. faults' \in 0..MaxFaults
  <2>1. faults' = faults \/ (faults < MaxFaults /\ faults' = faults + 1)
    BY ZenonT(40) DEF Next, MainStep, WorkerStep, ProcFault, AcquireLock, Sweep, EmptyMbox, EnsureRun,
           NothingPending, TakeTask, PutStep, Deliver, Receive, Flush, FlushRest, Analyze,
           Finalize, Close, Fault, PutFails, ParseFails, WorkerDies, Interrupt, BatchRefused, Abort,
           ConnectionLost, ConnectionDies, KillContainer, KillMain, PowerFails, AtRest, vars
  <2>2. MaxFaults \in Nat /\ faults \in 0..MaxFaults
    BY IngestAssumption DEF IngestInv, TypeOK
  <2> QED BY <2>1, <2>2
<1> QED BY <1>1, <1>2, <1>3, <1>4, <1>5

(* Every step keeps the types.                                               *)
LEMMA TypeStep == IngestInv /\ BlobInv' /\ [Next]_vars => TypeOK'
BY MainTypeStep, BatchTypeStep, TableTypeStep DEF TypeOK, TablesOK, BlobInv

(***************************************************************************)
(* The lock, the locals and the pool                                       *)
(***************************************************************************)

\* What EnterRun and the flushes do to the locals, field by field.
LEMMA EnterEffect ==
  ASSUME main \in [Proc -> Main], NEW p \in Proc, NEW r, NEW row, EnterRun(p, r, row)
  PROVE  /\ \A q \in Proc : q # p => main'[q] = main[q]
         /\ main'[p].pc = IF row.ckpt < Total(main[p].src) THEN "pool" ELSE "nopending"
         /\ main'[p].run = r /\ main'[p].row = row /\ main'[p].conn = main[p].conn
         /\ main'[p].start = row.ckpt /\ main'[p].next = row.ckpt + 1
         /\ main'[p].src = main[p].src /\ main'[p].acct = main[p].acct
         /\ main'[p].outq = main[p].outq /\ main'[p].got = main[p].got
         /\ main'[p].batch = main[p].batch
BY DEF EnterRun, Main

Flushed(p, c, k) ==
  /\ \A q \in Proc : q # p => main'[q] = main[q]
  /\ main'[p].pc = c /\ main'[p].conn = main[p].conn
  /\ main'[p].src = main[p].src /\ main'[p].acct = main[p].acct
  /\ main'[p].run = main[p].run
  /\ main'[p].start = main[p].start /\ main'[p].next = main[p].next
  /\ main'[p].outq = main[p].outq /\ main'[p].got = main[p].got
  /\ main'[p].batch = {}
  /\ main'[p].row = [main[p].row EXCEPT !.ckpt = k]

(* The locals after a flush, field by field.                                 *)
LEMMA FlushedFields ==
  ASSUME main \in [Proc -> Main], NEW p \in Proc, NEW c, NEW k,
         main' = [main EXCEPT ![p] = [main[p] EXCEPT
                    !.pc = c, !.batch = {}, !.row = [main[p].row EXCEPT !.ckpt = k]]]
  PROVE  Flushed(p, c, k)
BY DEF Flushed, Main

(* What a flush does: a batch and a mark are published, or there was no batch. *)
LEMMA FlushEffect ==
  ASSUME main \in [Proc -> Main], NEW p \in Proc, Flush(p) \/ FlushRest(p)
  PROVE  /\ main[p].pc = "pool"
         /\ \A q \in Proc : q # p => main'[q] = main[q]
         /\ \/ main'[p].pc = "pool"
            \/ main'[p].pc = "analyze" /\ (main[p].start + 1)..Total(main[p].src) \subseteq Done(p)
         /\ main'[p].src = main[p].src /\ main'[p].acct = main[p].acct
         /\ main'[p].run = main[p].run /\ main'[p].conn = main[p].conn
         /\ main'[p].start = main[p].start /\ main'[p].next = main[p].next
         /\ main'[p].outq = main[p].outq /\ main'[p].got = main[p].got
         /\ main'[p].batch = {}
         /\ \/ /\ WriteBatch(p) /\ Publish(p)
               /\ \E k \in 0..Total(main[p].src) :
                    Mark(p, k) /\ main'[p].row = [main[p].row EXCEPT !.ckpt = k]
            \/ /\ main[p].batch = {} /\ main'[p].row = main[p].row
               /\ UNCHANGED dbvars /\ main'[p].pc = "analyze"
<1>2. CASE Flush(p)
  <2>1. PICK k \in 0..Total(main[p].src) :
               Mark(p, k) /\ main' = [main EXCEPT ![p].batch = {}, ![p].row.ckpt = k]
    BY <1>2 DEF Flush
  <2>2. main[p].pc = "pool" /\ WriteBatch(p) /\ Publish(p)
    BY <1>2 DEF Flush
  <2>3. main' = [main EXCEPT ![p] = [main[p] EXCEPT
                    !.pc = "pool", !.batch = {}, !.row = [main[p].row EXCEPT !.ckpt = k]]]
    BY <2>1, <2>2 DEF Main
  <2>4. Flushed(p, "pool", k)
    BY <2>3, FlushedFields
  <2> QED BY <2>1, <2>2, <2>4 DEF Flushed
<1>3. CASE FlushRest(p) /\ main[p].batch # {}
  <2>1. PICK k \in 0..Total(main[p].src) :
               Mark(p, k) /\ main' = [main EXCEPT ![p].pc = "analyze", ![p].batch = {}, ![p].row.ckpt = k]
    BY <1>3 DEF FlushRest
  <2>2. /\ main[p].pc = "pool" /\ WriteBatch(p) /\ Publish(p)
        /\ (main[p].start + 1)..Total(main[p].src) \subseteq Done(p)
    BY <1>3 DEF FlushRest
  <2>3. main' = [main EXCEPT ![p] = [main[p] EXCEPT
                    !.pc = "analyze", !.batch = {}, !.row = [main[p].row EXCEPT !.ckpt = k]]]
    BY <2>1 DEF Main
  <2>4. Flushed(p, "analyze", k)
    BY <2>3, FlushedFields
  <2> QED BY <2>1, <2>2, <2>4 DEF Flushed
<1>4. CASE FlushRest(p) /\ main[p].batch = {}
  BY <1>4 DEF FlushRest, Main
<1> QED BY <1>2, <1>3, <1>4

\* pg_try_advisory_lock lets one session in; the lock is free again when, and
\* only when, that session is gone.
LEMMA LockStep == IngestInv /\ [Next]_vars => LockInv'
<1> DEFINE Holds(q) == (main[q].conn <=> lock = q) /\ (main[q].conn => main[q].pc # "idle")
<1> SUFFICES ASSUME IngestInv, [Next]_vars, NEW q \in Proc PROVE Holds(q)'
  BY DEF LockInv
<1>0. /\ main \in [Proc -> Main] /\ task \in [Worker -> Task]
      /\ \A p \in Proc : Holds(p)
      /\ None \notin Proc /\ ~NoMain.conn
  BY IngestAssumption DEF IngestInv, TypeOK, LockInv, NoMain
<1>1. ASSUME NEW p \in Proc, NEW s \in Source, NEW a \in Account, AcquireLock(p, s, a)
      PROVE  Holds(q)'
  BY <1>0, <1>1 DEF AcquireLock, Main
<1>2. ASSUME NEW p \in Proc, EmptyMbox(p) \/ NothingPending(p) \/ Close(p) \/ Stop(p)
      PROVE  Holds(q)'
  BY <1>0, <1>2 DEF EmptyMbox, NothingPending, Close, Stop
<1>3. CASE PowerFails
  BY <1>0, <1>3 DEF PowerFails
<1>4. ASSUME UNCHANGED lock, main'[q].conn = main[q].conn,
             main'[q].pc = main[q].pc \/ main'[q].pc # "idle"
      PROVE  Holds(q)'
  BY <1>0, <1>4
<1>5. ASSUME NEW p \in Proc, Sweep(p) \/ Receive(p) \/ Analyze(p) \/ Finalize(p)
      PROVE  Holds(q)'
  <2>1. CASE Sweep(p)
    BY <1>0, <1>4, <2>1 DEF Sweep, Main
  <2>2. CASE Receive(p)
    BY <1>0, <1>4, <2>2 DEF Receive, Main
  <2>3. CASE Analyze(p)
    BY <1>0, <1>4, <2>3 DEF Analyze, Main
  <2>4. CASE Finalize(p)
    BY <1>0, <1>4, <2>4 DEF Finalize, Main
  <2> QED BY <1>5, <2>1, <2>2, <2>3, <2>4
<1>6. ASSUME NEW p \in Proc, Flush(p) \/ FlushRest(p) PROVE Holds(q)'
  <2>1. UNCHANGED lock
    BY <1>6 DEF Flush, FlushRest
  <2> QED BY <1>0, <1>4, <1>6, <2>1, FlushEffect
<1>7. ASSUME NEW p \in Proc, EnsureRun(p) PROVE Holds(q)'
  <2>1. PICK r, row : EnterRun(p, r, row)
    BY <1>7 DEF EnsureRun
  <2> QED BY <1>0, <1>4, <1>7, <2>1, EnterEffect DEF EnsureRun
<1>8. ASSUME NEW p \in Proc, ParseFails(p) \/ (\E w \in Worker : TakeTask(w, p))
      PROVE  Holds(q)'
  BY <1>0, <1>4, <1>8 DEF ParseFails, TakeTask, Main
<1>9. ASSUME NEW w \in Worker, Deliver(w) PROVE Holds(q)'
  BY <1>0, <1>4, <1>9 DEF Deliver, Main, Task
<1>10. ASSUME NEW p \in Proc, ConnectionDies(p) PROVE Holds(q)'
  BY <1>0, <1>10, DiesEffect DEF SameLocals
<1>11. ASSUME UNCHANGED <<main, lock>> PROVE Holds(q)'
  BY <1>0, <1>11
<1> QED BY <1>1, <1>2, <1>3, <1>5, <1>6, <1>7, <1>8, <1>9, <1>10, <1>11
  DEF Next, MainStep, WorkerStep, ProcFault, PutStep, PutFails, WorkerDies, Interrupt, BatchRefused,
      ConnectionLost, Abort, KillContainer, KillMain, AtRest, vars

\* The run, the pending positions and the results belong to the file at hand.
LEMMA LocalsStep == IngestInv /\ [Next]_vars => MainInv'
<1> SUFFICES ASSUME IngestInv, [Next]_vars, NEW q \in Proc PROVE LocalsOK(q)'
  BY DEF MainInv
<1>0. /\ main \in [Proc -> Main] /\ task \in [Worker -> Task] /\ runs \in [RunId -> Row \cup {None}]
      /\ LocalsOK(q)
      /\ \A s \in Source : Total(s) \in Nat
  BY IngestAssumption DEF IngestInv, TypeOK, MainInv, Total
<1>1. ASSUME NEW p \in Proc, NEW s \in Source, NEW a \in Account, AcquireLock(p, s, a)
      PROVE  LocalsOK(q)'
  BY <1>0, <1>1 DEF AcquireLock, LocalsOK, Entered, Main
<1>2. ASSUME NEW p \in Proc, Sweep(p) PROVE LocalsOK(q)'
  BY <1>0, <1>2 DEF Sweep, LocalsOK, Entered, Main
<1>3. ASSUME NEW p \in Proc, EmptyMbox(p) \/ NothingPending(p) \/ Close(p) \/ Stop(p)
      PROVE  LocalsOK(q)'
  BY <1>0, <1>3 DEF EmptyMbox, NothingPending, Close, Stop, LocalsOK, Entered, NoMain
<1>4. ASSUME NEW p \in Proc, EnsureRun(p) PROVE LocalsOK(q)'
  <2>1. PICK r \in RunId, row \in Row :
               EnterRun(p, r, row) /\ row.src = main[p].src /\ row.ckpt <= Total(main[p].src)
    BY <1>0, <1>4 DEF EnsureRun, Latest, Open, IngestInv, RunInv, MainInv, LocalsOK, Row, Status
  <2>2. row.ckpt \in Nat /\ main[p].pc = "scan" /\ LocalsOK(p) /\ main[p].src \in Source
    BY <1>4, <2>1 DEF EnsureRun, IngestInv, MainInv, LocalsOK, Row
  <2>3. CASE q = p
    BY <1>0, <2>1, <2>2, <2>3, EnterEffect DEF LocalsOK, Entered
  <2>4. CASE q # p
    BY <1>0, <2>1, <2>4, EnterEffect DEF LocalsOK
  <2> QED BY <2>3, <2>4
<1>5. ASSUME NEW p \in Proc, NEW w \in Worker, TakeTask(w, p) PROVE LocalsOK(q)'
  BY <1>0, <1>5 DEF TakeTask, LocalsOK, Entered, Main, Result
<1>6. ASSUME NEW w \in Worker, Deliver(w) PROVE LocalsOK(q)'
  <2>1. \A p \in Proc : TaskOK(w, p)
    BY DEF IngestInv, TaskInv
  <2>2. CASE task[w].owner # q
    <3>1. main'[q] = main[q]
      BY <1>0, <1>6, <2>2 DEF Deliver
    <3> QED BY <1>0, <3>1 DEF LocalsOK
  <2>3. CASE task[w].owner = q
    <3>1. main[q].pc = "pool" /\ task[w].pos \in (main[q].start + 1)..(main[q].next - 1)
      BY <2>1, <2>3 DEF TaskOK
    <3>2. main'[q] = [main[q] EXCEPT !.outq = @ \cup
            {[pos |-> task[w].pos, ok |-> put[w].pc # "raised", fresh |-> put[w].pc = "stored"]}]
      BY <1>0, <1>6, <2>3, ProcNobody DEF Deliver
    <3>3. /\ main'[q].pc = main[q].pc /\ main'[q].src = main[q].src /\ main'[q].acct = main[q].acct
          /\ main'[q].run = main[q].run /\ main'[q].row = main[q].row
          /\ main'[q].start = main[q].start /\ main'[q].next = main[q].next
          /\ main'[q].got = main[q].got
          /\ \A r \in main'[q].outq : r \in main[q].outq \/ r.pos = task[w].pos
      BY <1>0, <3>2 DEF Main
    <3> QED BY <1>0, <3>1, <3>3 DEF LocalsOK, Entered
  <2> QED BY <2>2, <2>3
<1>7. ASSUME NEW p \in Proc, Receive(p) PROVE LocalsOK(q)'
  BY <1>0, <1>7 DEF Receive, LocalsOK, Entered, Main
<1>8. ASSUME NEW p \in Proc, Flush(p) \/ FlushRest(p) PROVE LocalsOK(q)'
  <2>1. CASE q = p
    <3>1. main[p].row \in Row /\ main[p].src \in Source
      BY <1>0, <1>8, <2>1, FlushEffect DEF IngestInv, LocalsOK, Entered
    <3> DEFINE fits(row) == row \in Row /\ row.src = main[p].src /\ row.ckpt <= Total(main[p].src)
    <3>2. fits(main'[p].row)
      <4>1. \A k \in 0..Total(main[p].src) :
              LET row == [main[p].row EXCEPT !.ckpt = k] IN
              row \in Row /\ row.src = main[p].row.src /\ row.ckpt = k
        BY <1>0, <3>1 DEF Row
      <4>2. main[p].row.src = main[p].src /\ main[p].row.ckpt <= Total(main[p].src)
        BY <1>0, <1>8, <2>1, FlushEffect DEF LocalsOK, Entered
      <4>3. main'[p].row = main[p].row
            \/ \E k \in 0..Total(main[p].src) : main'[p].row = [main[p].row EXCEPT !.ckpt = k]
        BY <1>0, <1>8, FlushEffect
      <4>4. CASE main'[p].row = main[p].row
        BY <3>1, <4>2, <4>4
      <4>5. ASSUME NEW k \in 0..Total(main[p].src), main'[p].row = [main[p].row EXCEPT !.ckpt = k]
            PROVE  fits(main'[p].row)
        <5>1. k <= Total(main[p].src)
          BY <1>0, <3>1
        <5> QED BY <4>1, <4>2, <4>5, <5>1
      <4> QED BY <4>3, <4>4, <4>5
    <3> QED BY <1>0, <1>8, <2>1, <3>2, FlushEffect DEF IngestInv, LocalsOK, Entered
  <2>2. CASE q # p
    BY <1>0, <1>8, <2>2, FlushEffect DEF IngestInv, LocalsOK
  <2> QED BY <2>1, <2>2
<1>9. ASSUME NEW p \in Proc, Analyze(p) PROVE LocalsOK(q)'
  BY <1>0, <1>9 DEF Analyze, LocalsOK, Entered, Main
<1>10. ASSUME NEW p \in Proc, Finalize(p) PROVE LocalsOK(q)'
  BY <1>0, <1>10 DEF Finalize, LocalsOK, Entered, Main, Row, Status
<1>11. ASSUME NEW p \in Proc, ParseFails(p) PROVE LocalsOK(q)'
  BY <1>0, <1>11 DEF ParseFails, LocalsOK, Entered, Main, Result
<1>12. CASE PowerFails
  BY <1>12 DEF PowerFails, LocalsOK, Entered, NoMain
<1>13. ASSUME UNCHANGED main PROVE LocalsOK(q)'
  BY <1>0, <1>13 DEF LocalsOK
<1>14. ASSUME NEW p \in Proc, ConnectionDies(p) PROVE LocalsOK(q)'
  <2>1. SameLocals(q)
    BY <1>0, <1>14, DiesEffect
  <2> QED BY <1>0, <2>1 DEF SameLocals, LocalsOK
<1> QED BY <1>1, <1>2, <1>3, <1>4, <1>5, <1>6, <1>7, <1>8, <1>9, <1>10, <1>11, <1>12, <1>13, <1>14
  DEF Next, MainStep, WorkerStep, ProcFault, PutStep, PutFails, WorkerDies, Interrupt, BatchRefused,
  ConnectionLost, Abort,
      KillContainer, KillMain, AtRest, vars

\* A step that leaves q's locals alone and gives q no task keeps q's tasks good.
LEMMA TaskFrame ==
  ASSUME NEW q \in Proc, NEW w \in Worker, main'[q] = main[q], \A v \in Worker : TaskOK(v, q),
         \A v \in Worker : task'[v].owner = q => task'[v] = task[v]
  PROVE  TaskOK(w, q)'
BY DEF TaskOK

\* Each position goes to one worker and comes back once.
LEMMA TaskStep == IngestInv /\ [Next]_vars => TaskInv'
<1> SUFFICES ASSUME IngestInv, [Next]_vars, NEW w \in Worker
             PROVE  /\ put'[w] = NoPut => task'[w].owner = Nobody
                    /\ \A q \in Proc : TaskOK(w, q)'
  BY DEF TaskInv
<1>0. /\ main \in [Proc -> Main] /\ task \in [Worker -> Task]
      /\ put \in [Worker -> [pc : PutPC, hash : Hash \cup {NoHash}, flushed : BOOLEAN]]
      /\ \A v \in Worker : put[v] = NoPut => task[v].owner = Nobody
      /\ \A v \in Worker, q \in Proc : TaskOK(v, q)
      /\ Nobody \notin Proc
  BY IngestAssumption DEF IngestInv, TypeOK, BlobTypeOK, TaskInv
<1>1. put'[w] = NoPut => task'[w].owner = Nobody
  <2>1. ASSUME NEW v \in Worker, WriteTemp(v) \/ Rename(v) \/ SyncDir(v) \/ PutRaises(v), UNCHANGED task
        PROVE  put'[w] = NoPut => task'[w].owner = Nobody
    BY <1>0, <2>1 DEF WriteTemp, Rename, SyncDir, PutRaises, NoPut
  <2>2. ASSUME NEW v \in Worker, NEW p \in Proc, TakeTask(v, p)
        PROVE  put'[w] = NoPut => task'[w].owner = Nobody
    BY <1>0, <2>2 DEF TakeTask, BeginPut, NoPut
  <2>3. ASSUME NEW v \in Worker, Deliver(v)
        PROVE  put'[w] = NoPut => task'[w].owner = Nobody
    BY <1>0, <2>3 DEF Deliver, EndPut, NoTask
  <2>4. ASSUME NEW W \in SUBSET Worker, KillWorkers(W),
               task' = [v \in Worker |-> IF v \in W THEN NoTask ELSE task[v]]
        PROVE  put'[w] = NoPut => task'[w].owner = Nobody
    BY <1>0, <2>4 DEF KillWorkers, NoTask
  <2>5. ASSUME NEW p \in Proc, StopPool(p) PROVE put'[w] = NoPut => task'[w].owner = Nobody
    BY <2>4, <2>5 DEF StopPool, Busy
  <2>6. ASSUME NEW v \in Worker, WorkerDies(v) PROVE put'[w] = NoPut => task'[w].owner = Nobody
    <3>1. task' = [x \in Worker |-> IF x \in {v} THEN NoTask ELSE task[x]]
      BY <1>0, <2>6 DEF WorkerDies
    <3> QED BY <2>4, <2>6, <3>1 DEF WorkerDies
  <2>7. ASSUME NEW p \in Proc, KillMain(p) PROVE put'[w] = NoPut => task'[w].owner = Nobody
    BY <1>0, <2>7 DEF KillMain, bvars, Task
  <2>8. CASE PowerFails
    BY <1>0, <2>8 DEF PowerFails, NoTask
  <2>9. CASE UNCHANGED <<put, task>>
    BY <1>0, <2>9
  <2> QED BY <2>1, <2>2, <2>3, <2>5, <2>6, <2>7, <2>8, <2>9, ZenonT(40)
    DEF Next, MainStep, WorkerStep, ProcFault, AcquireLock, Sweep, SweepTemporaries, EmptyMbox,
        EnsureRun, NothingPending, PutStep, Receive, Flush, FlushRest, Analyze, Finalize, Close,
        PutFails, ParseFails, Interrupt, BatchRefused, ConnectionLost, ConnectionDies, Abort,
        KillContainer, AtRest, bvars, vars
<1>2. ASSUME NEW q \in Proc PROVE TaskOK(w, q)'
  <2>0. /\ LocalsOK(q)
        /\ \A v \in Worker, r \in Proc : TaskOK(v, r)
        /\ \A s \in Source : Total(s) \in Nat
    BY <1>0, IngestAssumption DEF IngestInv, MainInv, Total
  <2>1. ASSUME NEW p \in Proc, main[p].pc # "pool", UNCHANGED task,
               \A r \in Proc : r # p => main'[r] = main[r]
        PROVE  TaskOK(w, q)'
    <3>1. CASE q = p
      BY <2>0, <2>1, <3>1 DEF TaskOK
    <3>2. CASE q # p
      BY <2>0, <2>1, <3>2, TaskFrame
    <3> QED BY <3>1, <3>2
  <2>2. ASSUME NEW p \in Proc, NEW s \in Source, NEW a \in Account, AcquireLock(p, s, a)
        PROVE  TaskOK(w, q)'
    BY <1>0, <2>1, <2>2 DEF AcquireLock
  <2>3. ASSUME NEW p \in Proc, \/ Sweep(p) \/ EmptyMbox(p) \/ NothingPending(p)
                               \/ Analyze(p) \/ Finalize(p) \/ Close(p)
        PROVE  TaskOK(w, q)'
    BY <1>0, <2>1, <2>3 DEF Sweep, EmptyMbox, NothingPending, Analyze, Finalize, Close, Stop
  <2>4. ASSUME NEW p \in Proc, EnsureRun(p) PROVE TaskOK(w, q)'
    <3>1. PICK r, row : r \in RunId /\ EnterRun(p, r, row)
      BY <2>4 DEF EnsureRun
    <3> QED BY <1>0, <2>1, <2>4, <3>1, EnterEffect DEF EnsureRun
  <2>5. ASSUME NEW p \in Proc, NEW v \in Worker, TakeTask(v, p) PROVE TaskOK(w, q)'
    <3>1. CASE q = p
      <4>1. main[p].next \in Nat /\ \A x \in Worker : x # v => task'[x] = task[x]
        BY <1>0, <2>5 DEF TakeTask, Main
      <4>2. /\ main'[p].next = main[p].next + 1
            /\ main'[p].pc = "pool" /\ main'[p].src = main[p].src /\ main'[p].start = main[p].start
            /\ main'[p].outq = main[p].outq /\ main'[p].got = main[p].got
        BY <1>0, <2>5 DEF TakeTask, Main
      <4>3. task'[v] = [owner |-> p, src |-> main[p].src, pos |-> main[p].next]
        BY <1>0, <2>5 DEF TakeTask
      <4>4. main[p].start < main[p].next /\ main[p].start \in Nat
        BY <1>0, <2>0, <2>5, <3>1 DEF TakeTask, LocalsOK, Entered, Main
      <4>5. \A r \in main[p].outq \cup main[p].got : r.pos \in (main[p].start + 1)..(main[p].next - 1)
        BY <2>0, <3>1 DEF LocalsOK
      <4>6. CASE w = v
        BY <2>0, <3>1, <4>1, <4>2, <4>3, <4>4, <4>5, <4>6 DEF TaskOK
      <4>7. CASE w # v
        BY <2>0, <3>1, <4>1, <4>2, <4>3, <4>4, <4>7 DEF TaskOK
      <4> QED BY <4>6, <4>7
    <3>2. CASE q # p
      <4>1. main'[q] = main[q] /\ \A x \in Worker : task'[x].owner = q => task'[x] = task[x]
        BY <1>0, <2>5, <3>2 DEF TakeTask
      <4> QED BY <2>0, <4>1, TaskFrame
    <3> QED BY <3>1, <3>2
  <2>6. ASSUME NEW v \in Worker, Deliver(v) PROVE TaskOK(w, q)'
    <3>1. \A x \in Worker : task'[x].owner = q => x # v /\ task'[x] = task[x]
      BY <1>0, <2>6 DEF Deliver, NoTask
    <3>2. CASE task[v].owner = q
      <4> DEFINE r == [pos |-> task[v].pos, ok |-> put[v].pc # "raised", fresh |-> put[v].pc = "stored"]
      <4>1. /\ main'[q].pc = main[q].pc /\ main'[q].src = main[q].src
            /\ main'[q].start = main[q].start /\ main'[q].next = main[q].next
            /\ main'[q].outq = main[q].outq \cup {r} /\ main'[q].got = main[q].got
        BY <1>0, <2>6, <3>2 DEF Deliver, Main
      <4>2. r.pos = task[v].pos
        OBVIOUS
      <4> HIDE DEF r
      <4> QED BY <2>0, <3>1, <3>2, <4>1, <4>2 DEF TaskOK
    <3>3. CASE task[v].owner # q
      <4>1. main'[q] = main[q]
        BY <1>0, <2>6, <3>3 DEF Deliver, Task
      <4> QED BY <2>0, <3>1, <4>1, TaskFrame
    <3> QED BY <3>2, <3>3
  <2>7. ASSUME NEW p \in Proc, Receive(p) PROVE TaskOK(w, q)'
    <3>1. CASE q = p
      <4>1. /\ main'[q].pc = main[q].pc /\ main'[q].src = main[q].src
            /\ main'[q].start = main[q].start /\ main'[q].next = main[q].next
            /\ main'[q].outq \cup main'[q].got \subseteq main[q].outq \cup main[q].got
        BY <1>0, <2>7, <3>1 DEF Receive, Main
      <4> QED BY <2>0, <2>7, <4>1 DEF Receive, TaskOK
    <3>2. CASE q # p
      BY <1>0, <2>0, <2>7, <3>2, TaskFrame DEF Receive
    <3> QED BY <3>1, <3>2
  <2>8. ASSUME NEW p \in Proc, Flush(p) \/ FlushRest(p) PROVE TaskOK(w, q)'
    <3>1. UNCHANGED task
      BY <2>8 DEF Flush, FlushRest
    <3>2. CASE q = p /\ main'[p].pc = "pool"
      BY <1>0, <2>0, <2>8, <3>1, <3>2, FlushEffect DEF TaskOK
    <3>3. CASE q = p /\ main'[p].pc = "analyze"
      <4>1. (main[q].start + 1)..Total(main[q].src) \subseteq Done(q)
        BY <1>0, <2>8, <3>3, FlushEffect
      <4>2. task[w].owner # q
        <5> SUFFICES ASSUME task[w].owner = q PROVE FALSE
          OBVIOUS
        <5>1. /\ task[w].pos \in (main[q].start + 1)..(main[q].next - 1)
              /\ \A r \in main[q].got : r.pos # task[w].pos
          BY <2>0 DEF TaskOK
        <5>2. main[q].next \in (main[q].start + 1)..(Total(main[q].src) + 1)
          BY <1>0, <2>0, <2>8, <3>3, FlushEffect DEF LocalsOK, Entered
        <5>3. main[q].start \in Nat /\ Total(main[q].src) \in Nat
          BY <1>0, <2>0, <2>8, <3>3, FlushEffect DEF LocalsOK, Main
        <5>4. task[w].pos \in (main[q].start + 1)..Total(main[q].src)
          BY <5>1, <5>2, <5>3
        <5> QED BY <4>1, <5>1, <5>4 DEF Done
      <4> QED BY <3>1, <4>2 DEF TaskOK
    <3>4. CASE q # p
      BY <1>0, <2>0, <2>8, <3>1, <3>4, FlushEffect, TaskFrame
    <3> QED BY <1>0, <2>8, <3>2, <3>3, <3>4, FlushEffect
  <2>9. ASSUME NEW p \in Proc, ParseFails(p) PROVE TaskOK(w, q)'
    <3>1. CASE q = p
      <4> DEFINE r == [pos |-> main[p].next, ok |-> FALSE, fresh |-> FALSE]
      <4>1. /\ main'[q].pc = main[q].pc /\ main'[q].src = main[q].src
            /\ main'[q].start = main[q].start /\ main'[q].next = main[q].next + 1
            /\ main'[q].outq = main[q].outq \cup {r} /\ main'[q].got = main[q].got
            /\ main[q].next \in Nat /\ main[q].start \in Nat
        BY <1>0, <2>9, <3>1 DEF ParseFails, Main
      <4>2. r.pos = main[q].next
        BY <3>1
      <4>3. UNCHANGED task
        BY <2>9 DEF ParseFails
      <4> HIDE DEF r
      <4> QED BY <2>0, <3>1, <4>1, <4>2, <4>3 DEF TaskOK
    <3>2. CASE q # p
      BY <1>0, <2>0, <2>9, <3>2, TaskFrame DEF ParseFails
    <3> QED BY <3>1, <3>2
  <2>10. ASSUME NEW p \in Proc, Stop(p), StopPool(p) \/ KillMain(p) PROVE TaskOK(w, q)'
    <3>1. \A v \in Worker : task'[v].owner # p
      BY <1>0, <2>10 DEF StopPool, KillMain, Busy, NoTask, Task
    <3>2. CASE q = p
      BY <3>1, <3>2 DEF TaskOK
    <3>3. CASE q # p
      <4>1. main'[q] = main[q]
        BY <1>0, <2>10, <3>3 DEF Stop
      <4>2. \A v \in Worker : task'[v].owner = q => task'[v] = task[v]
        BY <1>0, <2>10 DEF StopPool, KillMain, Busy, NoTask, Task
      <4> QED BY <2>0, <4>1, <4>2, TaskFrame
    <3> QED BY <3>2, <3>3
  <2>11. ASSUME NEW v \in Worker, WorkerDies(v) PROVE TaskOK(w, q)'
    <3>1. \A x \in Worker : task'[x].owner = q => task'[x] = task[x]
      BY <1>0, <2>11 DEF WorkerDies, NoTask
    <3> QED BY <2>0, <2>11, <3>1, TaskFrame DEF WorkerDies
  <2>12. CASE PowerFails
    BY <1>0, <2>12 DEF PowerFails, NoTask, TaskOK
  <2>13. CASE UNCHANGED <<main, task>>
    BY <2>0, <2>13, TaskFrame
  <2>14. ASSUME NEW p \in Proc, ConnectionDies(p) PROVE TaskOK(w, q)'
    <3>1. SameLocals(q) /\ UNCHANGED task
      BY <1>0, <2>14, DiesEffect
    <3> QED BY <2>0, <3>1 DEF SameLocals, TaskOK
  <2> QED BY <2>2, <2>3, <2>4, <2>5, <2>6, <2>7, <2>8, <2>9, <2>10, <2>11, <2>12, <2>13, <2>14
    DEF Next, MainStep, WorkerStep, ProcFault, PutStep, PutFails, Interrupt, BatchRefused,
        ConnectionLost, Abort, KillContainer,
        KillMain, AtRest, vars
<1> QED BY <1>1, <1>2

\* A sweep with the lock held comes before the holder's pool exists, so no
\* worker of an ingest that has its session can lose its temporary to it.
LEMMA SweepStep ==
  ASSUME IngestInv, [Next]_vars, \A p \in Proc : main[p].pc = "locked" => main[p].conn,
         NEW w \in Worker,
         task[w].owner # Nobody, main[task[w].owner].conn, task'[w] = task[w],
         put[w].pc = "written", put'[w] = put[w], <<w, put[w].hash>> \in temps
  PROVE  <<w, put[w].hash>> \in temps'
<1>0. /\ main \in [Proc -> Main] /\ task \in [Worker -> Task]
      /\ put \in [Worker -> [pc : PutPC, hash : Hash \cup {NoHash}, flushed : BOOLEAN]]
      /\ put[w] # NoPut
  BY DEF IngestInv, TypeOK, BlobTypeOK, NoPut
<1>1. ASSUME NEW v \in Worker, Rename(v) \/ PutRaises(v) PROVE <<w, put[w].hash>> \in temps'
  <2>1. w # v
    BY <1>0, <1>1 DEF Rename, PutRaises
  <2>2. temps \ {<<v, put[v].hash>>} \subseteq temps'
    BY <1>1 DEF Rename, PutRaises
  <2> QED BY <2>1, <2>2
<1>2. ASSUME NEW p \in Proc, Sweep(p) PROVE <<w, put[w].hash>> \in temps'
  <2>1. task[w].owner \in Proc
    BY <1>0 DEF Task
  <2>2. main[task[w].owner].pc = "pool"
    BY <2>1 DEF IngestInv, TaskInv, TaskOK
  <2>3. lock = p /\ lock = task[w].owner
    BY <1>2, <2>1 DEF Sweep, IngestInv, LockInv
  <2> QED BY <1>2, <2>2, <2>3 DEF Sweep
<1>3. ASSUME NEW W \in SUBSET Worker, KillWorkers(W) PROVE <<w, put[w].hash>> \in temps'
  <2>1. w \notin W
    BY <1>0, <1>3 DEF KillWorkers
  <2>2. <<w, put[w].hash>> \in Disowned(W)
    BY <2>1 DEF Disowned
  <2> QED BY <1>3, <2>2 DEF KillWorkers
<1>4. ASSUME NEW p \in Proc, StopPool(p) PROVE <<w, put[w].hash>> \in temps'
  BY <1>3, <1>4 DEF StopPool, Busy
<1>5. ASSUME NEW v \in Worker, WorkerDies(v) PROVE <<w, put[w].hash>> \in temps'
  BY <1>3, <1>5 DEF WorkerDies
<1>6. CASE PowerFails
  BY <1>0, <1>6 DEF PowerFails, LosePower, PowerCut
<1>7. CASE temps \subseteq temps'
  BY <1>7
<1> QED BY <1>1, <1>2, <1>4, <1>5, <1>6, <1>7, ZenonT(40)
  DEF Next, MainStep, WorkerStep, ProcFault, TakeTask, BeginPut, PutStep, WriteTemp, SyncDir,
      Deliver, EndPut, PutFails, AcquireLock, EmptyMbox, EnsureRun, NothingPending, Receive, Flush,
      FlushRest, Analyze, Finalize, Close, ParseFails, Interrupt, BatchRefused, ConnectionLost,
      ConnectionDies, Abort, KillContainer, KillMain, AtRest, vars, bvars, disk

(***************************************************************************)
(* The books                                                               *)
(***************************************************************************)

\* Nothing recorded is ever lost from the database.
LEMMA RecordedGrows ==
  ASSUME IngestInv, [Next]_vars, NEW x \in Position, Recorded(x[1], x[2])
  PROVE  Recorded(x[1], x[2])'
<1>1. <<x[1], x[2]>> = x
  BY DEF Position
<1>0. failed \in [Position -> Nat]
  BY DEF IngestInv, TypeOK
<1>2. ASSUME NEW p \in Proc, WriteBatch(p) PROVE Recorded(x[1], x[2])'
  BY <1>0, <1>1, <1>2 DEF WriteBatch, Recorded
<1>3. CASE UNCHANGED <<sightings, failed>>
  BY <1>3 DEF Recorded
<1> QED BY <1>2, <1>3, ZenonT(40)
  DEF Next, MainStep, WorkerStep, ProcFault, AcquireLock, Sweep, EmptyMbox, EnsureRun,
      NothingPending, TakeTask, PutStep, Deliver, Receive, Flush, FlushRest, Analyze, Finalize,
      Close, PutFails, ParseFails, WorkerDies, Interrupt, BatchRefused, ConnectionLost,
      ConnectionDies, Abort, KillContainer, KillMain, PowerFails, AtRest, dbvars, vars

\* A batch that is written records every result in it, success or failure.
LEMMA WriteBatchRecords ==
  ASSUME IngestInv, NEW p \in Proc, main[p].pc = "pool", WriteBatch(p),
         NEW s, s = main[p].src, NEW r \in main[p].batch
  PROVE  Recorded(s, r.pos)'
<1> DEFINE x == <<s, r.pos>>
<1>1. x \in Position /\ failed \in [Position -> Nat] /\ r \in Result
  <2>1. /\ main[p].src \in Source /\ r \in Result /\ failed \in [Position -> Nat]
        /\ r.pos \in (main[p].start + 1)..(main[p].next - 1)
        /\ main[p].next \in (main[p].start + 1)..(Total(main[p].src) + 1)
        /\ main[p].start \in Nat
    BY DEF IngestInv, TypeOK, MainInv, LocalsOK, Entered, Main
  <2>2. Total(main[p].src) \in Nat
    BY <2>1, IngestAssumption DEF Total
  <2> QED BY <2>1, <2>2 DEF Position
<1>2. CASE r.ok
  <2>1. x \in {<<main[p].src, y.pos>> : y \in {z \in main[p].batch : z.ok}}
    BY <1>2
  <2>2. x \in sightings'
    BY <2>1 DEF WriteBatch
  <2> QED BY <2>2 DEF Recorded
<1>3. CASE ~r.ok
  <2>1. x \in {<<main[p].src, y.pos>> : y \in {z \in main[p].batch : ~z.ok}}
    BY <1>3
  <2>2. failed'[x] = failed[x] + 1
    BY <1>1, <2>1 DEF WriteBatch
  <2>3. failed'[x] > 0
    BY <1>1, <2>2
  <2> QED BY <2>3 DEF Recorded
<1> QED BY <1>1, <1>2, <1>3 DEF Result

(* A message recorded stays recorded.                                        *)
LEMMA RecordedStays ==
  ASSUME IngestInv, [Next]_vars, NEW s \in Source, NEW i \in 1..Total(s), Recorded(s, i)
  PROVE  Recorded(s, i)'
<1> DEFINE x == <<s, i>>
<1>1. x \in Position /\ x[1] = s /\ x[2] = i
  BY DEF Position
<1>2. Recorded(x[1], x[2])
  BY <1>1
<1>3. Recorded(x[1], x[2])'
  BY <1>1, <1>2, RecordedGrows
<1> QED BY <1>1, <1>3

\* The ranges that Believed speaks about.
LEMMA InRange ==
  ASSUME IngestInv, NEW q \in Proc, main[q].pc \in Entered
  PROVE  /\ main[q].src \in Source /\ Total(main[q].src) \in Nat
         /\ main[q].start \in 0..Total(main[q].src)
         /\ main[q].row \in Row /\ main[q].row.ckpt \in 0..Total(main[q].src)
         /\ \A r \in main[q].outq \cup main[q].got : r.pos \in 1..Total(main[q].src)
         /\ main[q].batch \subseteq main[q].got
<1>1. /\ LocalsOK(q) /\ main[q] \in Main /\ main[q].src \in Source
      /\ main[q].batch \subseteq main[q].got
  BY DEF IngestInv, TypeOK, MainInv, LocalsOK, Entered
<1>2. Total(main[q].src) \in Nat
  BY <1>1, IngestAssumption DEF Total
<1>3. main[q].start \in 0..Total(main[q].src)
  BY <1>1, <1>2 DEF LocalsOK, Main
<1>4. main[q].row \in Row /\ main[q].row.ckpt \in 0..Total(main[q].src)
  BY <1>1, <1>2 DEF LocalsOK, Row
<1>5. \A r \in main[q].outq \cup main[q].got : r.pos \in 1..Total(main[q].src)
  BY <1>1, <1>2, <1>3 DEF LocalsOK
<1> QED BY <1>1, <1>2, <1>3, <1>4, <1>5

\* What is believed stays believed while the locals it speaks of are the same.
LEMMA BelievedFrame ==
  ASSUME IngestInv, [Next]_vars, NEW q \in Proc, main[q].pc \in Entered, Believed(q),
         main'[q].src = main[q].src, main'[q].start = main[q].start,
         main'[q].row.ckpt = main[q].row.ckpt,
         main'[q].got \ main'[q].batch \subseteq main[q].got \ main[q].batch
  PROVE  Believed(q)'
<1>1. PICK src : src = main[q].src
  OBVIOUS
<1>2. src \in Source /\ Total(src) \in Nat
  BY <1>1, InRange
<1>3. \A i \in 1..main[q].start : Recorded(src, i)'
  BY <1>1, <1>2, InRange, RecordedStays DEF Believed
<1>4. \A i \in 1..main[q].row.ckpt : Recorded(src, i)'
  BY <1>1, <1>2, InRange, RecordedStays DEF Believed
<1>5. \A r \in main[q].got \ main[q].batch : Recorded(src, r.pos)'
  BY <1>1, <1>2, InRange, RecordedStays DEF Believed
<1> QED BY <1>1, <1>3, <1>4, <1>5 DEF Believed

\* A flush leaves no result that is received and not recorded.
LEMMA FlushBelieved ==
  ASSUME IngestInv, [Next]_vars, NEW p \in Proc, Flush(p) \/ FlushRest(p)
  PROVE  Believed(p)' /\ main'[p].row.status = main[p].row.status
<1>0. main \in [Proc -> Main] /\ main[p].pc = "pool" /\ main[p].pc \in Entered /\ Believed(p)
  BY FlushEffect DEF IngestInv, TypeOK, Entered, DoneInv, DoneOK
<1>1. PICK s : s = main[p].src
  OBVIOUS
<1>2. s \in Source /\ Total(s) \in Nat /\ main[p].start \in 0..Total(s)
  BY <1>0, <1>1, InRange
<1>3. \A r \in main[p].got : Recorded(s, r.pos)'
  <2>1. ASSUME NEW r \in main[p].got, r \notin main[p].batch PROVE Recorded(s, r.pos)'
    BY <1>0, <1>1, <1>2, <2>1, InRange, RecordedStays DEF Believed
  <2>2. ASSUME NEW r \in main[p].batch PROVE Recorded(s, r.pos)'
    BY <1>0, <1>1, <2>2, FlushEffect, WriteBatchRecords
  <2> QED BY <2>1, <2>2
<1>4. \A i \in 1..main[p].start : Recorded(s, i)'
  BY <1>0, <1>1, <1>2, InRange, RecordedStays DEF Believed
<1>5. \A i \in Done(p) : Recorded(s, i)'
  BY <1>3 DEF Done
<1>6. (\A i \in 1..main'[p].row.ckpt : Recorded(s, i)') /\ main'[p].row.status = main[p].row.status
  <2>1. CASE main'[p].row = main[p].row
    <3>1. \A i \in 1..main[p].row.ckpt : Recorded(s, i)'
      BY <1>0, <1>1, <1>2, InRange, RecordedStays DEF Believed
    <3> QED BY <2>1, <3>1
  <2>2. ASSUME NEW k \in 0..Total(main[p].src), Mark(p, k), main'[p].row = [main[p].row EXCEPT !.ckpt = k]
        PROVE  (\A i \in 1..main'[p].row.ckpt : Recorded(s, i)') /\ main'[p].row.status = main[p].row.status
    <3>1. main'[p].row.ckpt = k /\ main'[p].row.status = main[p].row.status
      BY <1>0, <2>2, InRange DEF Row
    <3>2. (main[p].start + 1)..k \subseteq Done(p) /\ k \in Nat
      BY <1>1, <1>2, <2>2 DEF Mark, LowWater
    <3>3. \A i \in 1..k : i \in 1..main[p].start \/ i \in (main[p].start + 1)..k
      BY <1>2, <3>2
    <3> QED BY <1>4, <1>5, <3>1, <3>2, <3>3
  <2> QED BY <1>0, <2>1, <2>2, FlushEffect
<1> QED BY <1>0, <1>1, <1>3, <1>4, <1>6, FlushEffect DEF Believed

\* When every result is in and flushed, the whole file is recorded.
LEMMA AllDone ==
  ASSUME IngestInv, NEW p \in Proc, main[p].pc \in {"analyze", "finalize", "closing"},
         NEW i \in 1..Total(main[p].src)
  PROVE  Recorded(main[p].src, i)
<1>1. /\ main[p].pc \in Entered /\ Believed(p) /\ main[p].batch = {}
      /\ (main[p].start + 1)..Total(main[p].src) \subseteq Done(p)
  BY DEF IngestInv, DoneInv, DoneOK, Entered
<1>2. main[p].start \in Nat /\ Total(main[p].src) \in Nat
  BY <1>1, InRange
<1>3. CASE i \in 1..main[p].start
  BY <1>1, <1>3 DEF Believed
<1>4. CASE i \in (main[p].start + 1)..Total(main[p].src)
  BY <1>1, <1>4 DEF Believed, Done
<1> QED BY <1>2, <1>3, <1>4

(* Every step keeps what a process counts as done recorded.                  *)
LEMMA DoneStep == IngestInv /\ [Next]_vars => DoneInv'
<1> SUFFICES ASSUME IngestInv, [Next]_vars, NEW q \in Proc PROVE DoneOK(q)'
  BY DEF DoneInv
<1>0. /\ main \in [Proc -> Main] /\ task \in [Worker -> Task] /\ runs \in [RunId -> Row \cup {None}]
      /\ DoneOK(q)
  BY DEF IngestInv, TypeOK, DoneInv
<1>1. ASSUME main[q].pc \in Entered, main'[q].pc = main[q].pc,
             main'[q].src = main[q].src, main'[q].start = main[q].start, main'[q].row = main[q].row,
             main'[q].got = main[q].got, main'[q].batch = main[q].batch
      PROVE  DoneOK(q)'
  BY <1>0, <1>1, BelievedFrame DEF DoneOK, Done
<1>2. CASE main'[q] = main[q]
  BY <1>0, <1>1, <1>2 DEF DoneOK
<1>3. CASE main'[q].pc \notin Entered
  BY <1>3 DEF DoneOK
<1>4. ASSUME NEW p \in Proc, NEW s \in Source, NEW a \in Account, AcquireLock(p, s, a)
      PROVE  DoneOK(q)'
  BY <1>0, <1>2, <1>3, <1>4 DEF AcquireLock, Main, Entered
<1>5. ASSUME NEW p \in Proc, Sweep(p) PROVE DoneOK(q)'
  BY <1>0, <1>2, <1>3, <1>5 DEF Sweep, Main, Entered
<1>6. ASSUME NEW p \in Proc, EmptyMbox(p) \/ NothingPending(p) \/ Close(p) \/ Stop(p)
      PROVE  DoneOK(q)'
  BY <1>0, <1>2, <1>3, <1>6 DEF EmptyMbox, NothingPending, Close, Stop, NoMain, Entered
<1>7. ASSUME NEW p \in Proc, EnsureRun(p) PROVE DoneOK(q)'
  <2>1. CASE q # p
    BY <1>0, <1>2, <1>7, <2>1, EnterEffect DEF EnsureRun
  <2>2. CASE q = p
    <3>1. PICK s : s = main[p].src
      OBVIOUS
    <3>2. s \in Source /\ Total(s) \in Nat /\ main[p].pc \notin Entered /\ main[p].got = {}
      <4>1. main[p].pc = "scan" /\ LocalsOK(p)
        BY <1>7 DEF EnsureRun, IngestInv, MainInv
      <4>2. s \in Source
        BY <3>1, <4>1 DEF LocalsOK
      <4>3. Total(s) \in Nat
        BY <4>2, IngestAssumption DEF Total
      <4> QED BY <4>1, <4>2, <4>3 DEF LocalsOK, Entered
    <3>3. PICK r \in RunId, row \in Row :
                 /\ EnterRun(p, r, row)
                 /\ row.status # "complete" /\ row.ckpt \in 0..Total(s)
                 /\ \A i \in 1..row.ckpt : Recorded(s, i)
      <4>1. ASSUME NEW r \in RunId, Latest(s, r)
            PROVE  /\ runs[r] \in Row /\ runs[r].status # "complete" /\ runs[r].ckpt \in 0..Total(s)
                   /\ \A i \in 1..runs[r].ckpt : Recorded(s, i)
        <5>1. runs[r] \in Row /\ runs[r].src = s /\ runs[r].status # "complete" /\ runs[r] # None
          BY <1>0, <4>1 DEF Latest, Open
        <5>2. runs[r].ckpt \in Nat /\ runs[r].ckpt <= Total(s)
          BY <5>1 DEF Row, IngestInv, RunInv
        <5>3. \A i \in 1..runs[r].ckpt : i \in 1..Total(s) /\ i <= runs[r].ckpt
          BY <3>2, <5>2
        <5> QED BY <3>2, <5>1, <5>2, <5>3 DEF IngestInv, NoSilentLoss
      <4>2. [src |-> s, acct |-> main[p].acct, status |-> "running", ckpt |-> 0] \in Row
        BY <1>7, <3>2 DEF EnsureRun, IngestInv, MainInv, LocalsOK, Row, Status
      <4> QED BY <1>7, <3>1, <3>2, <4>1, <4>2 DEF EnsureRun
    <3>4. \A i \in 1..row.ckpt : Recorded(s, i)'
      BY <3>2, <3>3, RecordedStays
    <3>5. Believed(p)'
      BY <1>0, <3>1, <3>2, <3>3, <3>4, EnterEffect DEF Believed
    <3>6. main'[p].pc \in {"pool", "nopending"} /\ main'[p].row = row
      BY <1>0, <3>3, EnterEffect
    <3> QED BY <2>2, <3>3, <3>5, <3>6 DEF DoneOK
  <2> QED BY <2>1, <2>2
<1>8. ASSUME NEW p \in Proc, ParseFails(p) \/ \E w \in Worker : TakeTask(w, p) PROVE DoneOK(q)'
  BY <1>0, <1>1, <1>2, <1>8 DEF ParseFails, TakeTask, Main, Entered
<1>9. ASSUME NEW w \in Worker, Deliver(w) PROVE DoneOK(q)'
  <2>1. CASE main[q].pc \in Entered
    <3>1. CASE task[w].owner = q
      <4>1. /\ main'[q].pc = main[q].pc /\ main'[q].src = main[q].src
            /\ main'[q].start = main[q].start /\ main'[q].row = main[q].row
            /\ main'[q].got = main[q].got /\ main'[q].batch = main[q].batch
        BY <1>0, <1>9, <3>1 DEF Deliver, Main
      <4> QED BY <1>1, <2>1, <4>1
    <3>2. CASE task[w].owner # q
      BY <1>0, <1>2, <1>9, <3>2 DEF Deliver, Task
    <3> QED BY <3>1, <3>2
  <2>2. CASE main[q].pc \notin Entered
    BY <1>0, <1>3, <1>9, <2>2, DeliverEffect
  <2> QED BY <2>1, <2>2
<1>10. ASSUME NEW p \in Proc, Receive(p) PROVE DoneOK(q)'
  <2>1. CASE q # p
    BY <1>0, <1>2, <1>10, <2>1 DEF Receive
  <2>2. CASE q = p
    <3>1. /\ main[q].pc = "pool" /\ main'[q].pc = "pool"
          /\ main'[q].src = main[q].src /\ main'[q].start = main[q].start /\ main'[q].row = main[q].row
          /\ main'[q].got \ main'[q].batch \subseteq main[q].got \ main[q].batch
      BY <1>0, <1>10, <2>2 DEF Receive, Main
    <3> QED BY <1>0, <3>1, BelievedFrame DEF DoneOK, Entered
  <2> QED BY <2>1, <2>2
<1>11. ASSUME NEW p \in Proc, Flush(p) \/ FlushRest(p) PROVE DoneOK(q)'
  <2>1. CASE q # p
    BY <1>0, <1>2, <1>11, <2>1, FlushEffect
  <2>2. CASE q = p
    <3>1. /\ main[p].pc = "pool" /\ main[p].row.status # "complete"
          /\ main'[p].batch = {} /\ main'[p].src = main[p].src
          /\ main'[p].start = main[p].start /\ main'[p].got = main[p].got
          /\ \/ main'[p].pc = "pool"
             \/ main'[p].pc = "analyze" /\ (main[p].start + 1)..Total(main[p].src) \subseteq Done(p)
      BY <1>0, <1>11, <2>2, FlushEffect DEF DoneOK, Entered
    <3> QED BY <1>11, <2>2, <3>1, FlushBelieved DEF DoneOK, Done
  <2> QED BY <2>1, <2>2
<1>12. ASSUME NEW p \in Proc, Analyze(p) \/ Finalize(p) PROVE DoneOK(q)'
  <2>1. CASE q # p
    BY <1>0, <1>2, <1>12, <2>1 DEF Analyze, Finalize
  <2>2. CASE q = p
    <3>1. main[p].row \in Row /\ main[p].pc \in {"analyze", "finalize"} /\ main[p].pc \in Entered
      BY <1>12, InRange DEF Analyze, Finalize, Entered
    <3>2. /\ main'[p].src = main[p].src /\ main'[p].start = main[p].start
          /\ main'[p].row.ckpt = main[p].row.ckpt
          /\ main'[p].got = main[p].got /\ main'[p].batch = main[p].batch
          /\ \/ main'[p].pc = "finalize" /\ main'[p].row = main[p].row
             \/ main'[p].pc = "closing"
      <4>1. CASE Analyze(p)
        BY <1>0, <4>1 DEF Analyze, Main
      <4>2. CASE Finalize(p)
        BY <1>0, <3>1, <4>2 DEF Finalize, Main, Row
      <4> QED BY <1>12, <4>1, <4>2
    <3>3. Believed(p)'
      BY <1>0, <2>2, <3>1, <3>2, BelievedFrame DEF DoneOK
    <3> QED BY <1>0, <2>2, <3>1, <3>2, <3>3 DEF DoneOK, Done
  <2> QED BY <2>1, <2>2
<1>13. CASE PowerFails
  BY <1>3, <1>13 DEF PowerFails, NoMain, Entered
<1>14. CASE UNCHANGED main
  BY <1>2, <1>14
<1>15. ASSUME NEW p \in Proc, ConnectionDies(p) PROVE DoneOK(q)'
  <2>1. SameLocals(q)
    BY <1>0, <1>15, DiesEffect
  <2> QED BY <1>1, <1>3, <2>1 DEF SameLocals
<1> QED BY <1>4, <1>5, <1>6, <1>7, <1>8, <1>9, <1>10, <1>11, <1>12, <1>13, <1>14, <1>15
  DEF Next, MainStep, WorkerStep, ProcFault, PutStep, PutFails, WorkerDies, Interrupt, BatchRefused,
  ConnectionLost, Abort,
      KillContainer, KillMain, AtRest, vars

\* A row of ingest_runs claims nothing that is not recorded.
HonestRow(row) ==
  /\ row \in Row /\ row.ckpt <= Total(row.src)
  /\ \A i \in 1..Total(row.src) : row.status = "complete" \/ i <= row.ckpt => Recorded(row.src, i)

(* Every step keeps runs in order and no loss silent.                        *)
LEMMA BooksStep == IngestInv /\ [Next]_vars => RunInv' /\ NoSilentLoss'
<1> SUFFICES ASSUME IngestInv, [Next]_vars, NEW r \in RunId, NEW row, row = runs'[r], row # None
             PROVE  HonestRow(row)'
  BY DEF RunInv, NoSilentLoss, HonestRow
<1>0. runs \in [RunId -> Row \cup {None}] /\ main \in [Proc -> Main]
  BY DEF IngestInv, TypeOK
<1>1. \A s \in Source : Total(s) \in Nat
  BY IngestAssumption DEF Total
<1>2. ASSUME NEW old, old = runs[r], old # None, row.src = old.src, row.ckpt = old.ckpt, row \in Row,
             row.status = old.status \/ row.status # "complete"
      PROVE  HonestRow(row)'
  <2>1. old.ckpt <= Total(old.src) /\ old.src \in Source
    BY <1>2 DEF IngestInv, RunInv, Row
  <2>2. \A i \in 1..Total(row.src) : row.status = "complete" \/ i <= row.ckpt => Recorded(row.src, i)
    BY <1>2 DEF IngestInv, NoSilentLoss
  <2>3. \A i \in 1..Total(row.src) : row.status = "complete" \/ i <= row.ckpt => Recorded(row.src, i)'
    BY <1>2, <2>1, <2>2, RecordedStays
  <2> QED BY <1>2, <2>1, <2>3 DEF HonestRow
<1>3. CASE runs'[r] = runs[r]
  BY <1>0, <1>2, <1>3
<1>4. ASSUME NEW p \in Proc, main[p].pc \in Entered, main[p].pc # "closing", Publish(p)
      PROVE  HonestRow(row)'
  <2>1. CASE r = main[p].run
    <3>1. row = main[p].row /\ row \in Row /\ row.src = main[p].src /\ row.src \in Source
          /\ row.ckpt \in 0..Total(row.src) /\ row.status # "complete"
      BY <1>0, <1>4, <2>1, InRange DEF Publish, IngestInv, MainInv, LocalsOK, DoneInv, DoneOK
    <3>2. \A i \in 1..row.ckpt : Recorded(row.src, i)
      BY <1>4, <3>1 DEF IngestInv, DoneInv, DoneOK, Believed
    <3>3. \A i \in 1..row.ckpt : Recorded(row.src, i)'
      BY <1>1, <3>1, <3>2, RecordedStays
    <3> QED BY <1>1, <3>1, <3>3 DEF HonestRow
  <2>2. CASE r # main[p].run
    BY <1>0, <1>3, <1>4, <2>2 DEF Publish
  <2> QED BY <2>1, <2>2
<1>5. ASSUME NEW p \in Proc, Finalize(p) PROVE HonestRow(row)'
  <2>1. CASE r = main[p].run
    <3>0. main[p].row \in Row /\ main[p].row.src = main[p].src /\ main[p].src \in Source
          /\ main[p].row.ckpt \in 0..Total(main[p].src)
      BY <1>0, <1>5, InRange DEF Finalize, IngestInv, MainInv, LocalsOK, Entered
    <3>1. row = [main[p].row EXCEPT !.status = "complete"]
      BY <1>0, <1>5, <2>1 DEF Finalize
    <3>2. row \in Row /\ row.src = main[p].src /\ row.ckpt \in 0..Total(row.src)
      BY <3>0, <3>1 DEF Row, Status
    <3>3. \A i \in 1..Total(row.src) : Recorded(row.src, i)
      BY <1>5, <3>2, AllDone DEF Finalize
    <3>4. \A i \in 1..Total(row.src) : Recorded(row.src, i)'
      BY <3>0, <3>2, <3>3, RecordedStays
    <3> QED BY <1>1, <3>0, <3>2, <3>4 DEF HonestRow
  <2>2. CASE r # main[p].run
    BY <1>0, <1>3, <1>5, <2>2 DEF Finalize
  <2> QED BY <2>1, <2>2
<1>6. ASSUME NEW p \in Proc, Abort(p) PROVE HonestRow(row)'
  <2>1. CASE runs' = [runs EXCEPT ![main[p].run].status = "interrupted"] /\ r = main[p].run
    <3>1. CASE runs[r] = None
      BY <1>0, <1>3, <1>6, <3>1 DEF Abort
    <3>2. CASE runs[r] # None
      <4>1. runs[r] \in Row /\ row = [runs[r] EXCEPT !.status = "interrupted"]
        BY <1>0, <2>1, <3>2
      <4>2. /\ row \in Row /\ row.src = runs[r].src /\ row.ckpt = runs[r].ckpt
            /\ row.status # "complete"
        BY <4>1 DEF Row, Status
      <4> QED BY <1>2, <3>2, <4>2
    <3> QED BY <3>1, <3>2
  <2> QED BY <1>0, <1>3, <1>6, <2>1 DEF Abort
<1>7. ASSUME NEW p \in Proc, Flush(p) \/ FlushRest(p) \/ Analyze(p) PROVE HonestRow(row)'
  <2>1. CASE UNCHANGED runs
    BY <1>3, <2>1
  <2>2. CASE Publish(p)
    BY <1>4, <1>7, <2>2 DEF Flush, FlushRest, Analyze, Entered
  <2> QED BY <1>7, <2>1, <2>2 DEF Flush, FlushRest, Analyze, dbvars
<1>8. CASE UNCHANGED runs
  BY <1>3, <1>8
<1> QED BY <1>5, <1>6, <1>7, <1>8
  DEF Next, MainStep, WorkerStep, ProcFault, AcquireLock, Sweep, EmptyMbox, EnsureRun,
      NothingPending, TakeTask, PutStep, Deliver, Receive, Close, PutFails, ParseFails, WorkerDies,
      Interrupt, BatchRefused, ConnectionLost, ConnectionDies, KillContainer, KillMain, PowerFails,
      AtRest, dbvars, vars

(***************************************************************************)
(* Theorems                                                                *)
(***************************************************************************)

(* The invariant holds before anything was ingested.                         *)
LEMMA IngestInitInv == Init => IngestInv
<1> SUFFICES ASSUME Init PROVE IngestInv
  OBVIOUS
<1>1. BlobInv
  BY BlobInitInv DEF Init
<1>2. TypeOK
  <2>1. MaxFaults \in Nat
    BY IngestAssumption
  <2>2. NoTask \in Task
    BY DEF NoTask, Task
  <2> QED BY <1>1, <2>1, <2>2, NoMainType DEF Init, TypeOK, BlobInv, NoMain
<1>3. LockInv
  BY IngestAssumption DEF Init, LockInv, NoMain
<1>4. MainInv
  BY DEF Init, MainInv, LocalsOK, Entered, NoMain
<1>5. TaskInv
  BY IngestAssumption DEF Init, TaskInv, TaskOK, NoTask
<1>6. RunInv /\ NoSilentLoss
  BY DEF Init, RunInv, NoSilentLoss
<1>7. DoneInv
  BY DEF Init, DoneInv, DoneOK, Entered, NoMain
<1> QED BY <1>1, <1>2, <1>3, <1>4, <1>5, <1>6, <1>7 DEF IngestInv

(* Every step keeps it.                                                      *)
LEMMA IngestInvStep == IngestInv /\ [Next]_vars => IngestInv'
<1> SUFFICES ASSUME IngestInv, [Next]_vars PROVE IngestInv'
  OBVIOUS
<1>1. BlobInv'
  BY StoreStep, BlobInvStep DEF IngestInv
<1>2. TypeOK'
  BY <1>1, TypeStep
<1> QED BY <1>1, <1>2, LockStep, LocalsStep, TaskStep, BooksStep, DoneStep DEF IngestInv

(* So it always holds.                                                       *)
LEMMA IngestInvariant == Spec => []IngestInv
BY IngestInitInv, IngestInvStep, PTL DEF Spec

\* ingest.py: every process, task, run and table row keeps its type.
THEOREM TypeCorrect == Spec => []TypeOK
<1>1. IngestInv => TypeOK
  BY DEF IngestInv
<1> QED BY <1>1, IngestInvariant, PTL

\* ingest.py: however the workers' results are reordered, wherever a run is
\* interrupted, killed or cut off from power, and whoever resumes it, nothing
\* below a committed checkpoint or in a complete run's file is unrecorded.
THEOREM NoSilentLossAlways == Spec => []NoSilentLoss
<1>1. IngestInv => NoSilentLoss
  BY DEF IngestInv
<1> QED BY <1>1, IngestInvariant, PTL

\* storage.py and ingest.py: while sessions last, the advisory lock makes the
\* unconditional sweep safe for every worker whose main process is alive.
THEOREM SweepSparesLiveAlways == Spec => SweepSparesLive
<1> DEFINE Spares ==
      (\A p \in Proc : main[p].pc = "locked" => main[p].conn) =>
        \A w \in Worker :
          /\ task[w].owner # Nobody /\ main[task[w].owner].conn /\ task'[w] = task[w]
          /\ put[w].pc = "written" /\ put'[w] = put[w]
          /\ <<w, put[w].hash>> \in temps
          => <<w, put[w].hash>> \in temps'
<1>1. IngestInv /\ [Next]_vars => [Spares]_vars
  BY SweepStep
<1>2. SweepSparesLive <=> [][Spares]_vars
  BY DEF SweepSparesLive
<1> HIDE DEF Spares
<1> QED BY <1>1, <1>2, IngestInvariant, PTL DEF Spec

\* The pipeline is a client of the store that keeps to the store's
\* specification, so what is proved of the store holds in the pipeline.
THEOREM UsesBlobStore == Spec => BlobSpec
<1>1. Init => BlobInit
  BY DEF Init
<1>2. IngestInv /\ [Next]_vars => [BlobNext]_bvars
  BY StoreStep DEF IngestInv
<1> QED BY <1>1, <1>2, IngestInvariant, PTL DEF Spec, BlobSpec

\* blobstore.py, put: through any number of ingests, resumes and killed
\* processes, a temporary file belongs to a put under way or to a dead worker:
\* every other way out of put removes it.
THEOREM LitterIsOfTheDead == Spec => []TempsAreInFlight
  BY UsesBlobStore, TempsAreInFlightAlways, PTL

(***************************************************************************)
(* Rows and their blobs: a row is only ever written for a digest that a    *)
(* put has returned, so what the blob store keeps of such digests, the     *)
(* rows keep as well.                                                      *)
(***************************************************************************)

\* Digests some put has returned, written or found.
Returned == stored \cup found

\* A put that is about to return has been counted.
PutsCounted ==
  \A w \in Worker : put[w].pc \in {"stored", "found"} => put[w].hash \in Returned

\* A worker puts the message it has been given.
WorkOK == \A w \in Worker : put[w] # NoPut => put[w].hash = HashAt(task[w].src, task[w].pos)

\* A result that reports success stands for a put that returned.
ResultsOK ==
  \A p \in Proc : \A r \in main[p].outq \cup main[p].got :
    r.ok => HashAt(main[p].src, r.pos) \in Returned

\* So does every row, and its blob is there as long as the power is.
RowInv ==
  /\ PutsCounted /\ WorkOK /\ ResultsOK
  /\ archived \subseteq Returned
  /\ "power" \notin FaultKind => Returned \subseteq names

\* The history of returned puts only grows.
LEMMA ReturnedGrows == IngestInv /\ [Next]_vars => Returned \subseteq Returned'
<1> SUFFICES ASSUME IngestInv, [Next]_vars PROVE Returned \subseteq Returned'
  OBVIOUS
<1>1. [BlobNext]_bvars
  BY StoreStep DEF IngestInv
<1> QED BY <1>1 DEF Returned, BlobNext, BeginPut, WriteTemp, Rename, SyncDir, PutRaises, EndPut,
           KillWorkers, SweepTemporaries, LosePower, PowerCut, bvars, disk

(* Every step keeps puts about to return counted.                            *)
LEMMA PutsCountedStep == IngestInv /\ RowInv /\ [Next]_vars => PutsCounted'
<1> SUFFICES ASSUME IngestInv, RowInv, [Next]_vars PROVE PutsCounted'
  OBVIOUS
<1>1. [BlobNext]_bvars
  BY StoreStep DEF IngestInv
<1>2. put \in [Worker -> [pc : PutPC, hash : Hash \cup {NoHash}, flushed : BOOLEAN]]
  BY DEF IngestInv, BlobInv, BlobTypeOK
<1> USE <1>2 DEF RowInv, PutsCounted, Returned
<1>3. ASSUME NEW w \in Worker, NEW h \in Hash, BeginPut(w, h) PROVE PutsCounted'
  BY <1>3 DEF BeginPut
<1>4. ASSUME NEW w \in Worker, WriteTemp(w) \/ Rename(w) PROVE PutsCounted'
  BY <1>4 DEF WriteTemp, Rename
<1>5. ASSUME NEW w \in Worker, SyncDir(w) PROVE PutsCounted'
  BY <1>5 DEF SyncDir
<1>6. ASSUME NEW w \in Worker, PutRaises(w) \/ EndPut(w) PROVE PutsCounted'
  BY <1>6 DEF PutRaises, EndPut, NoPut
<1>7. ASSUME NEW W \in SUBSET Worker, KillWorkers(W) PROVE PutsCounted'
  BY <1>7 DEF KillWorkers, NoPut
<1>8. CASE SweepTemporaries \/ LosePower
  BY <1>8 DEF SweepTemporaries, LosePower, PowerCut, NoPut
<1>9. CASE UNCHANGED bvars
  BY <1>9 DEF bvars
<1> QED BY <1>1, <1>3, <1>4, <1>5, <1>6, <1>7, <1>8, <1>9 DEF BlobNext

(* Without a power failure, what a put returned keeps its name.              *)
LEMMA NamesStep ==
  IngestInv /\ RowInv /\ [Next]_vars => ("power" \notin FaultKind => Returned' \subseteq names')
<1> SUFFICES ASSUME IngestInv, RowInv, [Next]_vars, "power" \notin FaultKind
             PROVE  Returned' \subseteq names'
  OBVIOUS
<1>1. [BlobNext]_bvars
  BY StoreStep DEF IngestInv
<1>2. names \subseteq names'
  <2>1. ~PowerFails
    BY DEF PowerFails, Fault
  <2>2. ASSUME NEW w \in Worker, PutStep(w) \/ Deliver(w) \/ PutFails(w) \/ WorkerDies(w)
        PROVE  names \subseteq names'
    BY <2>2 DEF PutStep, Deliver, PutFails, WorkerDies, WriteTemp, Rename, SyncDir, EndPut,
                PutRaises, KillWorkers, disk
  <2>3. ASSUME NEW p \in Proc, MainStep(p) \/ ProcFault(p) PROVE names \subseteq names'
    BY <2>3 DEF MainStep, ProcFault, Sweep, SweepTemporaries, EmptyMbox, EnsureRun, NothingPending,
                Receive, Flush, FlushRest, Analyze, Finalize, Close, ParseFails, Interrupt,
                BatchRefused, ConnectionLost, ConnectionDies, Abort,
                KillContainer, KillMain, StopPool, KillWorkers, bvars, disk
  <2> QED BY <2>1, <2>2, <2>3 DEF Next, WorkerStep, TakeTask, BeginPut, AcquireLock, AtRest, vars,
                                  bvars, disk
<1>3. ASSUME NEW w \in Worker, SyncDir(w) PROVE put[w].hash \in names
  BY <1>3 DEF SyncDir, IngestInv, BlobInv, PutsInOrder
<1> QED BY <1>1, <1>2, <1>3
  DEF RowInv, Returned, BlobNext, BeginPut, WriteTemp, Rename, SyncDir, PutRaises, EndPut,
      KillWorkers, SweepTemporaries, LosePower, PowerCut, bvars, disk

\* Only taking a task begins a put, and a put keeps its digest to its end.
LEMMA WorkStep == IngestInv /\ RowInv /\ [Next]_vars => WorkOK'
<1> SUFFICES ASSUME IngestInv, RowInv, [Next]_vars, NEW w \in Worker, put'[w] # NoPut
             PROVE  put'[w].hash = HashAt(task'[w].src, task'[w].pos)
  BY DEF WorkOK, HashAt
<1> DEFINE G == put'[w].hash = HashAt(task'[w].src, task'[w].pos)
<1>0. /\ put \in [Worker -> [pc : PutPC, hash : Hash \cup {NoHash}, flushed : BOOLEAN]]
      /\ task \in [Worker -> Task]
      /\ put[w] # NoPut => put[w].hash = HashAt(task[w].src, task[w].pos)
  BY DEF IngestInv, BlobInv, BlobTypeOK, TypeOK, RowInv, WorkOK
<1>1. CASE /\ put[w] # NoPut /\ put'[w].hash = put[w].hash
           /\ task'[w].src = task[w].src /\ task'[w].pos = task[w].pos
  BY <1>0, <1>1
<1>2. ASSUME NEW p \in Proc, NEW v \in Worker, TakeTask(v, p) PROVE G
  BY <1>0, <1>2 DEF TakeTask, BeginPut, Task
<1>3. ASSUME NEW v \in Worker, PutStep(v) PROVE G
  <2>1. task'[w] = task[w]
    BY <1>3 DEF PutStep
  <2>2. put[v].pc # "idle" /\ \/ \E c : put' = [put EXCEPT ![v].pc = c]
                                \/ put' = [put EXCEPT ![v].pc = "written", ![v].flushed = TRUE]
    <3>1. CASE WriteTemp(v)
      BY <3>1 DEF WriteTemp
    <3>2. CASE Rename(v)
      BY <3>2 DEF Rename
    <3>3. CASE SyncDir(v)
      BY <3>3 DEF SyncDir
    <3> QED BY <1>3, <3>1, <3>2, <3>3 DEF PutStep
  <2>3. put[w] # NoPut
    <3>1. v = w => put[w].pc # NoPut.pc
      BY <2>2 DEF NoPut
    <3>2. v # w => put'[w] = put[w]
      BY <1>0, <2>2
    <3> QED BY <3>1, <3>2
  <2>4. put'[w].hash = put[w].hash
    BY <1>0, <2>2
  <2> QED BY <1>1, <2>1, <2>3, <2>4
<1>4. ASSUME NEW v \in Worker, PutFails(v) PROVE G
  <2>1. task'[w] = task[w]
    BY <1>4 DEF PutFails
  <2>2. put[v].pc # "idle" /\ put' = [put EXCEPT ![v].pc = "raised"]
    BY <1>4 DEF PutFails, PutRaises
  <2>3. put[w] # NoPut
    <3>1. v = w => put[w].pc # NoPut.pc
      BY <2>2 DEF NoPut
    <3>2. v # w => put'[w] = put[w]
      BY <1>0, <2>2
    <3> QED BY <3>1, <3>2
  <2>4. put'[w].hash = put[w].hash
    BY <1>0, <2>2
  <2> QED BY <1>1, <2>1, <2>3, <2>4
<1>5. ASSUME NEW v \in Worker, Deliver(v) \/ WorkerDies(v) PROVE G
  BY <1>0, <1>1, <1>5 DEF Deliver, EndPut, WorkerDies, KillWorkers
<1>6. ASSUME NEW p \in Proc, StopPool(p) PROVE G
  BY <1>0, <1>1, <1>6 DEF StopPool, KillWorkers
<1>7. ASSUME NEW p \in Proc, KillMain(p) PROVE G
  BY <1>0, <1>1, <1>7 DEF KillMain, bvars, Task
<1>8. CASE PowerFails
  BY <1>8 DEF PowerFails, LosePower, PowerCut
<1>9. CASE UNCHANGED <<put, task>>
  BY <1>1, <1>9
<1> QED BY <1>2, <1>3, <1>4, <1>5, <1>6, <1>7, <1>8, <1>9, ZenonT(40)
  DEF Next, MainStep, WorkerStep, ProcFault, AcquireLock, Sweep, SweepTemporaries, EmptyMbox,
      EnsureRun, NothingPending, Receive, Flush, FlushRest, Analyze, Finalize, Close, ParseFails,
      Interrupt, BatchRefused, ConnectionLost, ConnectionDies, Abort, KillContainer, AtRest, vars,
      bvars

\* A result that reports success is made when a put has returned.
LEMMA ResultsStep == IngestInv /\ RowInv /\ [Next]_vars => ResultsOK'
<1> SUFFICES ASSUME IngestInv, RowInv, [Next]_vars, NEW q \in Proc,
                    NEW r \in main'[q].outq \cup main'[q].got, r.ok
             PROVE  HashAt(main'[q].src, r.pos) \in Returned'
  BY DEF ResultsOK, HashAt
<1> DEFINE G == HashAt(main'[q].src, r.pos) \in Returned'
<1>0. /\ main \in [Proc -> Main] /\ task \in [Worker -> Task] /\ Returned \subseteq Returned'
      /\ LocalsOK(q)
  BY ReturnedGrows DEF IngestInv, TypeOK, MainInv
<1>1. CASE /\ r \in main[q].outq \cup main[q].got
           /\ main'[q].src = main[q].src
  BY <1>0, <1>1 DEF RowInv, ResultsOK
<1>2. CASE main'[q] = main[q]
  BY <1>1, <1>2
<1>3. CASE main'[q] = NoMain
  BY <1>3 DEF NoMain
<1>4. ASSUME NEW p \in Proc, NEW s \in Source, NEW a \in Account, AcquireLock(p, s, a) PROVE G
  <2>1. CASE p = q
    BY <1>0, <1>4, <2>1 DEF AcquireLock, LocalsOK, Entered, Main
  <2> QED BY <1>0, <1>2, <1>4, <2>1 DEF AcquireLock
<1>5. ASSUME NEW p \in Proc, MainStep(p) PROVE G
  <2>1. CASE Sweep(p) \/ Analyze(p) \/ Finalize(p)
    BY <1>0, <1>1, <2>1 DEF Sweep, Analyze, Finalize, Main
  <2>2. CASE EmptyMbox(p) \/ NothingPending(p) \/ Close(p)
    BY <1>0, <1>2, <1>3, <2>2 DEF EmptyMbox, NothingPending, Close, Stop
  <2>3. CASE EnsureRun(p)
    <3>1. PICK i, row : EnterRun(p, i, row)
      BY <2>3 DEF EnsureRun
    <3> QED BY <1>0, <1>1, <1>2, <3>1, EnterEffect
  <2>4. CASE Receive(p)
    BY <1>0, <1>1, <2>4 DEF Receive, Main
  <2>5. CASE Flush(p) \/ FlushRest(p)
    BY <1>0, <1>1, <1>2, <2>5, FlushEffect
  <2>6. CASE BatchRefused(p) \/ ConnectionLost(p)
    BY <1>0, <1>2, <1>3, <2>6 DEF BatchRefused, ConnectionLost, Abort, Stop
  <2> QED BY <1>5, <2>1, <2>2, <2>3, <2>4, <2>5, <2>6 DEF MainStep
<1>6. ASSUME NEW w \in Worker, Deliver(w) PROVE G
  <2>1. CASE task[w].owner # q
    BY <1>0, <1>2, <1>6, <2>1 DEF Deliver
  <2>2. CASE task[w].owner = q
    <3>1. put[w] # NoPut /\ put[w].pc \in {"stored", "found", "raised"}
      BY <1>6 DEF Deliver, EndPut, NoPut
    <3>2. put[w].hash = HashAt(main[q].src, task[w].pos)
      BY <2>2, <3>1 DEF RowInv, WorkOK, IngestInv, TaskInv, TaskOK
    <3>3. main'[q] = [main[q] EXCEPT !.outq = @ \cup
            {[pos |-> task[w].pos, ok |-> put[w].pc # "raised", fresh |-> put[w].pc = "stored"]}]
      BY <1>0, <1>6, <2>2, ProcNobody DEF Deliver
    <3>4. main'[q].src = main[q].src
      BY <1>0, <3>3 DEF Main
    <3>5. CASE r \in main[q].outq \cup main[q].got
      BY <1>1, <3>4, <3>5
    <3>6. CASE r \notin main[q].outq \cup main[q].got
      <4>0. /\ main'[q].got = main[q].got
            /\ main'[q].outq = main[q].outq \cup
                 {[pos |-> task[w].pos, ok |-> put[w].pc # "raised", fresh |-> put[w].pc = "stored"]}
        BY <1>0, <3>3 DEF Main
      <4>3. r = [pos |-> task[w].pos, ok |-> put[w].pc # "raised", fresh |-> put[w].pc = "stored"]
        BY <3>6, <4>0
      <4>4. r.pos = task[w].pos /\ r.ok = (put[w].pc # "raised")
        BY <4>3
      <4>1. r.pos = task[w].pos /\ put[w].pc # "raised"
        BY <4>4
      <4>2. put[w].hash \in Returned
        BY <3>1, <4>1 DEF RowInv, PutsCounted
      <4> QED BY <1>0, <3>2, <3>4, <4>1, <4>2
    <3> QED BY <3>5, <3>6
  <2> QED BY <2>1, <2>2
<1>7. ASSUME NEW w \in Worker, NEW p \in Proc, TakeTask(w, p) PROVE G
  BY <1>0, <1>1, <1>7 DEF TakeTask, Main
<1>8. ASSUME NEW p \in Proc, ParseFails(p) PROVE G
  BY <1>0, <1>1, <1>8 DEF ParseFails, Main
<1>9. ASSUME NEW p \in Proc, Stop(p) PROVE G
  BY <1>0, <1>2, <1>3, <1>9 DEF Stop
<1>10. CASE PowerFails
  BY <1>3, <1>10 DEF PowerFails
<1>11. CASE UNCHANGED main
  BY <1>2, <1>11
<1>12. ASSUME NEW p \in Proc, ConnectionDies(p) PROVE G
  BY <1>0, <1>1, <1>12, DiesEffect DEF SameLocals
<1> QED BY <1>4, <1>5, <1>6, <1>7, <1>8, <1>9, <1>10, <1>11, <1>12
  DEF Next, WorkerStep, ProcFault, PutStep, PutFails, WorkerDies, Interrupt, Abort, KillContainer,
      KillMain, AtRest, vars

\* Rows are written for successful results of the batch only.
LEMMA ArchivedStep == IngestInv /\ RowInv /\ [Next]_vars => archived' \subseteq Returned'
<1> SUFFICES ASSUME IngestInv, RowInv, [Next]_vars PROVE archived' \subseteq Returned'
  OBVIOUS
<1>0. archived \subseteq Returned /\ Returned \subseteq Returned'
  BY ReturnedGrows DEF RowInv
<1>1. ASSUME NEW p \in Proc, WriteBatch(p) PROVE archived' \subseteq Returned'
  <2>1. \A r \in main[p].batch : r.ok => HashAt(main[p].src, r.pos) \in Returned
    BY DEF IngestInv, TypeOK, RowInv, ResultsOK
  <2>2. {HashAt(main[p].src, r.pos) : r \in {x \in main[p].batch : x.ok}} \subseteq Returned
    BY <2>1
  <2> QED BY <1>0, <1>1, <2>2 DEF WriteBatch
<1>2. CASE UNCHANGED archived
  BY <1>0, <1>2
<1> QED BY <1>1, <1>2, ZenonT(40)
  DEF Next, MainStep, WorkerStep, ProcFault, AcquireLock, Sweep, EmptyMbox, EnsureRun,
      NothingPending, TakeTask, PutStep, Deliver, Receive, Flush, FlushRest, Analyze, Finalize,
      Close, PutFails, ParseFails, WorkerDies, Interrupt, BatchRefused, ConnectionLost,
      ConnectionDies, Abort, KillContainer, KillMain, PowerFails, AtRest, dbvars, vars

(***************************************************************************)
(* Theorems                                                                *)
(***************************************************************************)

(* Rows stand for puts that returned, always.                                *)
LEMMA RowInvariant == Spec => [](IngestInv /\ RowInv)
<1>1. Init => RowInv
  BY DEF Init, BlobInit, RowInv, PutsCounted, WorkOK, ResultsOK, Returned, NoPut, NoMain
<1>2. IngestInv /\ RowInv /\ [Next]_vars => RowInv'
  BY PutsCountedStep, WorkStep, ResultsStep, ArchivedStep, NamesStep DEF RowInv
<1> QED BY <1>1, <1>2, IngestInvariant, PTL DEF Spec

\* ingest.py, storage.py: while the machine keeps its power, whatever is
\* killed, interrupted or raised, the blob of every row is there and whole.
THEOREM RowHasBlobAlways ==
  ASSUME "power" \notin FaultKind
  PROVE  Spec => []RowHasBlob
<1>1. IngestInv /\ RowInv => RowHasBlob
  BY DEF IngestInv, BlobInv, NothingUnflushed, RowInv, RowHasBlob
<1> QED BY <1>1, RowInvariant, PTL

\* ... and when power fails, a row can lose its blob only where a put took a
\* file for durable that another put had not yet made so.
THEOREM RowOutlivesPowerAlways ==
  ASSUME JournalledMkdir
  PROVE  Spec => []RowOutlivesPower
<1>1. IngestInv /\ RowInv => RowOutlivesPower
  BY DEF IngestInv, BlobInv, NothingUnflushed, StoredIsDurable, RowInv, Returned, RowOutlivesPower
<1> QED BY <1>1, RowInvariant, PTL

(***************************************************************************)
(* The book-keeping of runs: at most one run of a file is open, and the    *)
(* pipeline implements module Ledger.                                      *)
(***************************************************************************)

\* What a main process with a session knows about runs: the row it will publish continues the
\* one that is committed, every other run of its file is complete, and what it
\* has checkpointed beyond its start it has received.
RunsOK(p) ==
  LET m == main[p] IN
  m.pc \in Entered /\ m.conn =>
    /\ runs[m.run] # None => runs[m.run].src = m.src /\ runs[m.run].ckpt <= m.row.ckpt
    /\ \A q \in RunId \ {m.run} :
         runs[q] # None /\ runs[q].src = m.src => runs[q].status = "complete"
    /\ m.start <= m.row.ckpt
    /\ (m.start + 1)..m.row.ckpt \subseteq Done(p)

RunsInv == OneOpenRun /\ \A p \in Proc : RunsOK(p)

\* A step commits nothing about runs, or the run of one process p: as p has
\* it, or marked as interrupted.
RunsBy(p) ==
  LET i == main[p].run IN
  /\ main[p].pc \in Entered /\ main[p].conn
  /\ i \in RunId
  /\ \A q \in RunId \ {i} : runs'[q] = runs[q]
  /\ runs'[i] \in Row /\ runs'[i].src = main[p].src
  /\ \/ runs'[i].ckpt = main[p].row.ckpt
     \/ runs[i] # None /\ runs'[i].ckpt = runs[i].ckpt

(* A run with another status keeps its file and its checkpoint.              *)
LEMMA RowStatus ==
  ASSUME NEW row \in Row, NEW c \in Status
  PROVE  LET new == [row EXCEPT !.status = c] IN
         new \in Row /\ new.src = row.src /\ new.ckpt = row.ckpt /\ new.status = c
BY DEF Row, Status

(* A step commits one run of one process, or none.                           *)
LEMMA RunsEffect ==
  IngestInv /\ RunsInv /\ [Next]_vars => UNCHANGED runs \/ \E p \in Proc : RunsBy(p)
<1> SUFFICES ASSUME IngestInv, RunsInv, [Next]_vars
             PROVE  UNCHANGED runs \/ \E p \in Proc : RunsBy(p)
  OBVIOUS
<1>0. runs \in [RunId -> Row \cup {None}] /\ main \in [Proc -> Main]
  BY DEF IngestInv, TypeOK
<1>1. ASSUME NEW p \in Proc, main[p].pc \in Entered
      PROVE  main[p].run \in RunId /\ main[p].row \in Row /\ main[p].row.src = main[p].src
  BY <1>1 DEF IngestInv, MainInv, LocalsOK
<1>2. ASSUME NEW p \in Proc, main[p].pc \in Entered, Publish(p) PROVE RunsBy(p)
  BY <1>0, <1>1, <1>2 DEF Publish, RunsBy
<1>3. ASSUME NEW p \in Proc, Finalize(p) PROVE RunsBy(p)
  <2>1. main[p].pc \in Entered /\ main[p].conn
    BY <1>3 DEF Finalize, Entered
  <2>2. main[p].run \in RunId /\ main[p].row \in Row /\ main[p].row.src = main[p].src
    BY <1>1, <2>1
  <2>3. runs' = [runs EXCEPT ![main[p].run] = [main[p].row EXCEPT !.status = "complete"]]
    BY <1>3 DEF Finalize
  <2> DEFINE new == [main[p].row EXCEPT !.status = "complete"]
  <2>4. "complete" \in Status
    BY DEF Status
  <2>5. new \in Row /\ new.src = main[p].row.src /\ new.ckpt = main[p].row.ckpt
    BY <2>2, <2>4, RowStatus
  <2>6. runs' = [runs EXCEPT ![main[p].run] = new]
    BY <2>3
  <2> HIDE DEF new
  <2> QED BY <1>0, <2>1, <2>2, <2>5, <2>6 DEF RunsBy
<1>4. ASSUME NEW p \in Proc, Abort(p) PROVE UNCHANGED runs \/ RunsBy(p)
  <2>1. CASE runs' # runs
    <3>1. /\ main[p].run # None /\ runs[main[p].run] # None /\ main[p].conn
          /\ runs' = [runs EXCEPT ![main[p].run].status = "interrupted"]
      BY <1>4, <2>1 DEF Abort
    <3>2. main[p].pc \in Entered
      BY <3>1 DEF IngestInv, MainInv, LocalsOK
    <3>3. main[p].run \in RunId /\ runs[main[p].run] \in Row
      BY <1>0, <1>1, <3>1, <3>2
    <3>4. runs[main[p].run].src = main[p].src
      BY <3>1, <3>2 DEF RunsInv, RunsOK
    <3>5. PICK row \in Row : /\ row = [runs[main[p].run] EXCEPT !.status = "interrupted"]
                             /\ row.src = runs[main[p].run].src /\ row.ckpt = runs[main[p].run].ckpt
      BY <3>3, RowStatus DEF Status
    <3>6. runs' = [runs EXCEPT ![main[p].run] = row]
      BY <1>0, <3>1, <3>3, <3>5
    <3> QED BY <1>0, <3>1, <3>2, <3>3, <3>4, <3>5, <3>6 DEF RunsBy
  <2> QED BY <2>1
<1>5. ASSUME NEW p \in Proc, Flush(p) \/ FlushRest(p) \/ Analyze(p)
      PROVE  UNCHANGED runs \/ RunsBy(p)
  BY <1>2, <1>5 DEF Flush, FlushRest, Analyze, Entered, dbvars
<1>6. ASSUME NEW p \in Proc, MainStep(p) PROVE UNCHANGED runs \/ RunsBy(p)
  BY <1>3, <1>4, <1>5, <1>6 DEF MainStep, BatchRefused, ConnectionLost, Sweep, EmptyMbox, EnsureRun,
      NothingPending, Receive, Close, dbvars
<1>7. ASSUME NEW p \in Proc, ProcFault(p) PROVE UNCHANGED runs \/ RunsBy(p)
  BY <1>4, <1>7 DEF ProcFault, ParseFails, Interrupt, ConnectionDies, KillContainer, KillMain, dbvars
<1> QED BY <1>6, <1>7
  DEF Next, WorkerStep, AcquireLock, TakeTask, PutStep, Deliver, PutFails, WorkerDies, PowerFails,
      AtRest, dbvars, vars

\* Committing the run of p opens no second one.
LEMMA OneOpenStep == IngestInv /\ RunsInv /\ [Next]_vars => OneOpenRun'
<1> SUFFICES ASSUME IngestInv, RunsInv, [Next]_vars PROVE OneOpenRun'
  OBVIOUS
<1>1. CASE UNCHANGED runs
  BY <1>1 DEF RunsInv, OneOpenRun
<1>2. ASSUME NEW p \in Proc, RunsBy(p) PROVE OneOpenRun'
  <2>1. \A q \in RunId \ {main[p].run} :
          runs'[q] = runs[q] /\ (runs[q] # None /\ runs[q].src = main[p].src => runs[q].status = "complete")
    BY <1>2 DEF RunsInv, RunsOK, RunsBy
  <2> QED BY <1>2, <2>1 DEF RunsInv, OneOpenRun, RunsBy
<1> QED BY <1>1, <1>2, RunsEffect

\* How the locals of a process that has a run can change.
Kept(q) ==
  /\ main[q].pc \in Entered /\ (main'[q].conn => main[q].conn)
  /\ main'[q].run = main[q].run /\ main'[q].src = main[q].src /\ main'[q].start = main[q].start
  /\ main[q].got \subseteq main'[q].got
  /\ main'[q].row.ckpt = main[q].row.ckpt \/ Flush(q) \/ FlushRest(q)

(* A process past its entry has just entered, or keeps its file and its run. *)
LEMMA KeptStep ==
  ASSUME IngestInv, [Next]_vars, NEW q \in Proc, main'[q].pc \in Entered
  PROVE  EnsureRun(q) \/ Kept(q)
<1>0. main \in [Proc -> Main] /\ LocalsOK(q) /\ NoMain.pc \notin Entered
  BY DEF IngestInv, TypeOK, MainInv, NoMain, Entered
<1>1. CASE main'[q] = main[q]
  BY <1>1 DEF Kept
<1>2. CASE main'[q] = NoMain
  BY <1>0, <1>2
<1>3. ASSUME NEW p \in Proc, MainStep(p) PROVE EnsureRun(q) \/ Kept(q)
  <2>1. CASE EmptyMbox(p) \/ NothingPending(p) \/ Close(p)
    BY <1>0, <1>1, <1>2, <2>1 DEF EmptyMbox, NothingPending, Close, Stop
  <2>2. CASE Sweep(p)
    BY <1>0, <1>1, <2>2 DEF Sweep, Main, Entered
  <2>3. CASE EnsureRun(p)
    <3>1. PICK i, row : EnterRun(p, i, row)
      BY <2>3 DEF EnsureRun
    <3> QED BY <1>0, <1>1, <2>3, <3>1, EnterEffect
  <2>4. CASE Receive(p)
    BY <1>0, <1>1, <2>4 DEF Receive, Main, Kept, Entered
  <2>5. CASE Flush(p) \/ FlushRest(p)
    BY <1>0, <1>1, <2>5, FlushEffect DEF Kept, Entered
  <2>6. CASE Analyze(p)
    BY <1>0, <1>1, <2>6 DEF Analyze, Main, Kept, Entered
  <2>7. CASE Finalize(p)
    <3>1. CASE p = q
      <4>1. main[q].pc = "finalize" /\ main[q].row \in Row
        BY <1>0, <2>7, <3>1 DEF Finalize, LocalsOK, Entered
      <4>2. main'[q] = [main[q] EXCEPT !.pc = "closing",
                                       !.row = [main[q].row EXCEPT !.status = "complete"]]
        BY <1>0, <2>7, <3>1 DEF Finalize
      <4>3. /\ main'[q].run = main[q].run /\ main'[q].src = main[q].src
            /\ main'[q].conn = main[q].conn
            /\ main'[q].start = main[q].start /\ main'[q].got = main[q].got
            /\ main'[q].row = [main[q].row EXCEPT !.status = "complete"]
        BY <1>0, <4>2 DEF Main
      <4>4. main'[q].row.ckpt = main[q].row.ckpt
        BY <4>1, <4>3 DEF Row
      <4> QED BY <4>1, <4>3, <4>4 DEF Kept, Entered
    <3>2. CASE p # q
      BY <1>0, <1>1, <2>7, <3>2 DEF Finalize
    <3> QED BY <3>1, <3>2
  <2>8. CASE BatchRefused(p) \/ ConnectionLost(p)
    BY <1>0, <1>1, <1>2, <2>8 DEF BatchRefused, ConnectionLost, Abort, Stop
  <2> QED BY <1>3, <2>1, <2>2, <2>3, <2>4, <2>5, <2>6, <2>7, <2>8 DEF MainStep
<1>4. ASSUME NEW p \in Proc, NEW s \in Source, NEW a \in Account, AcquireLock(p, s, a)
      PROVE  EnsureRun(q) \/ Kept(q)
  <2>1. p = q => main'[q].pc = "locked"
    BY <1>0, <1>4 DEF AcquireLock, Main
  <2>2. p # q => main'[q] = main[q]
    BY <1>0, <1>4 DEF AcquireLock
  <2> QED BY <1>1, <2>1, <2>2 DEF Entered
<1>5. ASSUME NEW w \in Worker, Deliver(w) PROVE EnsureRun(q) \/ Kept(q)
  BY <1>0, <1>1, <1>5 DEF Deliver, Main, Kept
<1>6. ASSUME NEW w \in Worker, NEW p \in Proc, TakeTask(w, p) PROVE EnsureRun(q) \/ Kept(q)
  BY <1>0, <1>1, <1>6 DEF TakeTask, Main, Kept
<1>7. ASSUME NEW p \in Proc, ParseFails(p) PROVE EnsureRun(q) \/ Kept(q)
  BY <1>0, <1>1, <1>7 DEF ParseFails, Main, Kept
<1>8. ASSUME NEW p \in Proc, Stop(p) PROVE EnsureRun(q) \/ Kept(q)
  BY <1>0, <1>1, <1>2, <1>8 DEF Stop
<1>9. CASE PowerFails
  BY <1>2, <1>9 DEF PowerFails
<1>10. CASE UNCHANGED main
  BY <1>1, <1>10
<1>11. ASSUME NEW p \in Proc, ConnectionDies(p) PROVE EnsureRun(q) \/ Kept(q)
  BY <1>0, <1>11, DiesEffect DEF SameLocals, Kept
<1> QED BY <1>3, <1>4, <1>5, <1>6, <1>7, <1>8, <1>9, <1>10, <1>11
  DEF Next, WorkerStep, ProcFault, PutStep, PutFails, WorkerDies, Interrupt, Abort, KillContainer,
      KillMain, AtRest, vars

\* A new checkpoint covers received messages only, and all that the old one did.
LEMMA FlushAdvances ==
  ASSUME IngestInv, NEW q \in Proc, main[q].conn, RunsOK(q), Flush(q) \/ FlushRest(q)
  PROVE  /\ main[q].row.ckpt <= main'[q].row.ckpt
         /\ main[q].start <= main'[q].row.ckpt
         /\ (main[q].start + 1)..main'[q].row.ckpt \subseteq Done(q)
<1>0. /\ main \in [Proc -> Main] /\ main[q].pc = "pool" /\ main[q].pc \in Entered
  BY DEF IngestInv, TypeOK, Flush, FlushRest, Entered
<1>1. /\ main[q].start \in 0..Total(main[q].src) /\ Total(main[q].src) \in Nat
      /\ main[q].row \in Row /\ main[q].row.ckpt \in 0..Total(main[q].src)
  BY <1>0, InRange
<1>2. /\ main[q].start <= main[q].row.ckpt
      /\ (main[q].start + 1)..main[q].row.ckpt \subseteq Done(q)
  BY <1>0 DEF RunsOK
<1>3. CASE main'[q].row = main[q].row
  BY <1>1, <1>2, <1>3
<1>4. ASSUME NEW k \in 0..Total(main[q].src), Mark(q, k), main'[q].row = [main[q].row EXCEPT !.ckpt = k]
      PROVE  /\ main[q].row.ckpt <= main'[q].row.ckpt
             /\ main[q].start <= main'[q].row.ckpt
             /\ (main[q].start + 1)..main'[q].row.ckpt \subseteq Done(q)
  <2>1. main'[q].row.ckpt = k
    BY <1>1, <1>4 DEF Row
  <2>2. /\ k \in main[q].start..Total(main[q].src)
        /\ (main[q].start + 1)..k \subseteq Done(q)
        /\ k = Total(main[q].src) \/ k + 1 \notin Done(q)
    BY <1>4 DEF Mark, LowWater
  <2>3. main[q].row.ckpt <= k
    <3>1. CASE k < main[q].row.ckpt
      <4>1. k + 1 \in (main[q].start + 1)..main[q].row.ckpt
        BY <1>1, <2>2, <3>1
      <4> QED BY <1>1, <1>2, <2>2, <3>1, <4>1
    <3> QED BY <1>1, <2>2, <3>1
  <2> QED BY <2>1, <2>2, <2>3
<1> QED BY <1>0, <1>3, <1>4, FlushEffect

\* Entering a run: it is the only open one of the file, or there is none.
LEMMA EnterRunsOK ==
  ASSUME IngestInv, RunsInv, IngestInv', NEW q \in Proc, EnsureRun(q)
  PROVE  RunsOK(q)'
<1>0. /\ main \in [Proc -> Main] /\ UNCHANGED runs /\ runs \in [RunId -> Row \cup {None}]
      /\ main[q].got = {}
  BY DEF IngestInv, TypeOK, EnsureRun, dbvars, MainInv, LocalsOK, Entered
<1>1. PICK r \in RunId, row \in Row :
             /\ EnterRun(q, r, row)
             /\ runs[r] # None => runs[r] = row /\ row.src = main[q].src
             /\ \A x \in RunId \ {r} :
                  runs[x] # None /\ runs[x].src = main[q].src => runs[x].status = "complete"
  <2>1. ASSUME NEW r \in RunId, Latest(main[q].src, r), EnterRun(q, r, runs[r])
        PROVE  /\ runs[r] \in Row /\ runs[r].src = main[q].src
               /\ \A x \in RunId \ {r} :
                    runs[x] # None /\ runs[x].src = main[q].src => runs[x].status = "complete"
    BY <1>0, <2>1 DEF Latest, Open, RunsInv, OneOpenRun
  <2>2. ASSUME NEW r \in RunId, NewId(r), Open(main[q].src) = {}
        PROVE  \A x \in RunId \ {r} :
                 runs[x] # None /\ runs[x].src = main[q].src => runs[x].status = "complete"
    BY <1>0, <2>2 DEF Open, Row, Status
  <2>3. main[q].src \in Source /\ main[q].acct \in Account
    BY DEF EnsureRun, IngestInv, MainInv, LocalsOK
  <2>4. [src |-> main[q].src, acct |-> main[q].acct, status |-> "running", ckpt |-> 0] \in Row
    BY <2>3 DEF Row, Status
  <2>5. CASE \E r \in RunId : Latest(main[q].src, r) /\ EnterRun(q, r, runs[r])
    BY <2>1, <2>5
  <2>6. CASE Open(main[q].src) = {} /\ \E r \in RunId : NewId(r) /\
               EnterRun(q, r, [src |-> main[q].src, acct |-> main[q].acct, status |-> "running", ckpt |-> 0])
    BY <2>2, <2>4, <2>6 DEF NewId
  <2> QED BY <2>5, <2>6 DEF EnsureRun
<1>2. /\ main'[q].run = r /\ main'[q].row = row /\ main'[q].start = row.ckpt
      /\ main'[q].src = main[q].src
  BY <1>0, <1>1, EnterEffect
<1>3. row.ckpt \in Nat
  BY DEF Row
<1> QED BY <1>0, <1>1, <1>2, <1>3 DEF RunsOK

\* What a main process knows of the runs stays true.
LEMMA RunsOKStep ==
  ASSUME IngestInv, RunsInv, [Next]_vars, IngestInv', NEW q \in Proc
  PROVE  RunsOK(q)'
<1> SUFFICES ASSUME main'[q].pc \in Entered, main'[q].conn, Kept(q) PROVE RunsOK(q)'
  BY KeptStep, EnterRunsOK DEF RunsOK
<1>0. /\ main[q].pc \in Entered /\ main[q].conn /\ main[q].run \in RunId
      /\ main[q].start \in Nat /\ main[q].row.ckpt \in Nat /\ main'[q].row.ckpt \in Nat
  <2>1. main[q].pc \in Entered /\ main[q].conn
    BY DEF Kept
  <2>2. main[q].run \in RunId /\ main[q].row \in Row /\ main[q].start \in Nat
    BY <2>1 DEF IngestInv, TypeOK, MainInv, LocalsOK, Main
  <2>3. main'[q].row \in Row
    BY DEF IngestInv, MainInv, LocalsOK
  <2> QED BY <2>1, <2>2, <2>3 DEF Row
<1>1. /\ main'[q].run = main[q].run /\ main'[q].src = main[q].src /\ main'[q].start = main[q].start
      /\ Done(q) \subseteq Done(q)'
  BY DEF Kept, Done
<1>2. /\ runs[main[q].run] # None =>
           runs[main[q].run].src = main[q].src /\ runs[main[q].run].ckpt <= main[q].row.ckpt
      /\ \A x \in RunId \ {main[q].run} :
           runs[x] # None /\ runs[x].src = main[q].src => runs[x].status = "complete"
      /\ main[q].start <= main[q].row.ckpt
      /\ (main[q].start + 1)..main[q].row.ckpt \subseteq Done(q)
  BY <1>0 DEF RunsInv, RunsOK
<1>3. /\ main[q].row.ckpt <= main'[q].row.ckpt
      /\ main[q].start <= main'[q].row.ckpt
      /\ (main[q].start + 1)..main'[q].row.ckpt \subseteq Done(q)
  <2>1. CASE main'[q].row.ckpt = main[q].row.ckpt
    BY <1>0, <1>2, <2>1
  <2>2. CASE Flush(q) \/ FlushRest(q)
    BY <1>0, <2>2, FlushAdvances DEF RunsInv
  <2> QED BY <2>1, <2>2 DEF Kept
<1>4. \/ UNCHANGED runs
      \/ RunsBy(q)
  <2>1. ASSUME NEW p \in Proc, RunsBy(p) PROVE p = q
    BY <1>0, <2>1 DEF RunsBy, IngestInv, LockInv, Entered
  <2> QED BY <2>1, RunsEffect
<1>5. /\ runs'[main[q].run] # None =>
           runs'[main[q].run].src = main[q].src /\ runs'[main[q].run].ckpt <= main'[q].row.ckpt
      /\ \A x \in RunId \ {main[q].run} :
           runs'[x] # None /\ runs'[x].src = main[q].src => runs'[x].status = "complete"
  <2>0. runs[main[q].run] # None => runs[main[q].run].ckpt \in Nat
    BY <1>0 DEF IngestInv, TypeOK, Row
  <2>1. CASE UNCHANGED runs
    BY <1>0, <1>2, <1>3, <2>0, <2>1
  <2>2. CASE RunsBy(q)
    BY <1>0, <1>2, <1>3, <2>0, <2>2 DEF RunsBy
  <2> QED BY <1>4, <2>1, <2>2
<1> QED BY <1>1, <1>3, <1>5 DEF RunsOK

(* What a process knows of the runs is so, always.                           *)
LEMMA RunsInvariant == Spec => [](IngestInv /\ RunsInv)
<1>1. Init => RunsInv
  BY DEF Init, RunsInv, OneOpenRun, RunsOK, Entered, NoMain
<1>2. IngestInv /\ RunsInv /\ [Next]_vars /\ IngestInv' => RunsInv'
  BY OneOpenStep, RunsOKStep DEF RunsInv
<1> QED BY <1>1, <1>2, IngestInvariant, PTL DEF Spec

(***************************************************************************)
(* The pipeline implements the ledger                                      *)
(***************************************************************************)

\* A step that records something commits a run along with it.
LEMMA RecordsWithRun ==
  IngestInv /\ RunsInv /\ [Next]_vars =>
    UNCHANGED <<runs, sightings, failed>> \/ \E p \in Proc : RunsBy(p)
<1> SUFFICES ASSUME IngestInv, RunsInv, [Next]_vars, UNCHANGED runs,
                    ~ UNCHANGED <<sightings, failed>>
             PROVE  \E p \in Proc : RunsBy(p)
  BY RunsEffect
<1>1. PICK p \in Proc : (Flush(p) \/ FlushRest(p)) /\ Publish(p)
  BY ZenonT(40) DEF Next, MainStep, WorkerStep, ProcFault, AcquireLock, Sweep, EmptyMbox, EnsureRun,
         NothingPending, TakeTask, PutStep, Deliver, Receive, Flush, FlushRest, Analyze, Finalize,
         Close, PutFails, ParseFails, WorkerDies, Interrupt, BatchRefused, ConnectionLost,
         ConnectionDies, Abort, KillContainer, KillMain, PowerFails, AtRest, dbvars, vars
<1>2. main[p].pc \in Entered
  BY <1>1 DEF Flush, FlushRest, Entered
<1>3. main[p].run \in RunId /\ main[p].row \in Row /\ main[p].row.src = main[p].src
  BY <1>2 DEF IngestInv, MainInv, LocalsOK
<1>4. runs \in [RunId -> Row \cup {None}]
  BY DEF IngestInv, TypeOK
<1> QED BY <1>1, <1>2, <1>3, <1>4 DEF Publish, RunsBy

\* What the ledger sees recorded.
RecordedView == {x \in Position : Recorded(x[1], x[2])}

\* The entry of a run is one the ledger may have.
EntryOK(i) ==
  LET e == LedgerView[i] IN
  /\ e \in Promise!Entry
  /\ Promise!Honest(e, RecordedView)
  /\ e.src = runs[i].src /\ e.ckpt = runs[i].ckpt

EntriesOK == \A i \in RunId : runs[i] # None => EntryOK(i)

(* What a reader sees of the runs is well formed and honest.                 *)
LEMMA HonestView == IngestInv => EntriesOK
<1> SUFFICES ASSUME IngestInv, NEW i \in RunId, runs[i] # None PROVE EntryOK(i)
  BY DEF EntriesOK
<1>1. runs[i] \in Row /\ runs[i].src \in Source /\ Total(runs[i].src) \in Nat
  BY IngestAssumption DEF IngestInv, TypeOK, Row, Total
<1>2. LedgerView[i] = [src |-> runs[i].src, ckpt |-> runs[i].ckpt,
                       complete |-> runs[i].status = "complete"]
  BY DEF LedgerView
<1>3. ASSUME NEW k \in 1..Total(runs[i].src), runs[i].status = "complete" \/ k <= runs[i].ckpt
      PROVE  <<runs[i].src, k>> \in RecordedView
  <2>1. Recorded(runs[i].src, k)
    BY <1>3 DEF IngestInv, NoSilentLoss
  <2> QED BY <1>1, <2>1 DEF RecordedView, Position
<1>4. \A e : /\ e.src = runs[i].src /\ e.ckpt = runs[i].ckpt
             /\ e.complete => runs[i].status = "complete"
             => Promise!Honest(e, RecordedView)
  BY <1>1, <1>3 DEF Promise!Honest
<1>5. Promise!Honest(LedgerView[i], RecordedView)
  BY <1>2, <1>4
<1> QED BY <1>1, <1>2, <1>5 DEF EntryOK, Promise!Entry, Row

(* So it is after a step.                                                    *)
LEMMA HonestViewNext == IngestInv' => EntriesOK'
BY HonestView, PTL

\* A step that commits the run of p is a commit of the ledger.
LEMMA RunsByCommits ==
  ASSUME IngestInv, RunsInv, [Next]_vars, IngestInv', NEW p \in Proc, RunsBy(p)
  PROVE  Promise!Commit
<1> DEFINE i == main[p].run
<1>0. /\ i \in RunId /\ main[p].pc \in Entered /\ main[p].conn /\ runs'[i] \in Row
      /\ runs'[i].src = main[p].src
      /\ runs \in [RunId -> Row \cup {None}]
  BY DEF RunsBy, IngestInv, TypeOK
<1>1. RecordedView \subseteq RecordedView'
  BY RecordedGrows DEF RecordedView
<1>2. LedgerView' = [LedgerView EXCEPT ![i] = LedgerView'[i]]
  BY <1>0 DEF RunsBy, LedgerView
<1>3. runs'[i] # None
  BY <1>0, IngestAssumption DEF Row, Status
<1>4. /\ LedgerView'[i] \in Promise!Entry
      /\ Promise!Honest(LedgerView'[i], RecordedView')
      /\ LedgerView'[i].src = runs'[i].src /\ LedgerView'[i].ckpt = runs'[i].ckpt
  BY <1>0, <1>3, HonestViewNext DEF EntriesOK, EntryOK
<1>5. LedgerView[i] # None =>
        LedgerView'[i].src = LedgerView[i].src /\ LedgerView'[i].ckpt >= LedgerView[i].ckpt
  <2>1. SUFFICES ASSUME runs[i] # None
                 PROVE  runs'[i].src = runs[i].src /\ runs'[i].ckpt >= runs[i].ckpt
    BY <1>0, <1>4, HonestView DEF LedgerView, EntriesOK, EntryOK
  <2>2. runs[i].src = main[p].src /\ runs[i].ckpt <= main[p].row.ckpt /\ runs[i].ckpt \in Nat
    BY <1>0, <2>1 DEF RunsInv, RunsOK, Row
  <2>3. main[p].row.ckpt \in Nat
    BY <1>0, InRange DEF Row
  <2> QED BY <1>0, <2>2, <2>3 DEF RunsBy
<1> QED BY <1>0, <1>1, <1>2, <1>4, <1>5 DEF Promise!Commit, RecordedView

(***************************************************************************)
(* Theorems                                                                *)
(***************************************************************************)

\* _ensure_run: however often an ingest of a file is cut off and started
\* again, there is one run to resume.
THEOREM OneOpenRunAlways == Spec => []OneOpenRun
<1>1. RunsInv => OneOpenRun
  BY DEF RunsInv
<1> QED BY <1>1, RunsInvariant, PTL

\* The pipeline implements module Ledger: for whoever reads only the database,
\* every step of every ingest, resume and fault is an honest commit or nothing.
THEOREM KeepsLedgerAlways == Spec => KeepsLedger
<1>1. Init => Promise!LedgerInit
  BY DEF Init, Promise!LedgerInit, LedgerView, Recorded, Position
<1>2. IngestInv /\ RunsInv /\ [Next]_vars /\ (IngestInv /\ RunsInv)' =>
        [Promise!Commit]_<<LedgerView, RecordedView>>
  <2> SUFFICES ASSUME IngestInv, RunsInv, [Next]_vars, IngestInv'
               PROVE  [Promise!Commit]_<<LedgerView, RecordedView>>
    OBVIOUS
  <2>1. CASE UNCHANGED <<runs, sightings, failed>>
    BY <2>1 DEF LedgerView, RecordedView, Recorded
  <2>2. ASSUME NEW p \in Proc, RunsBy(p) PROVE Promise!Commit
    BY <2>2, RunsByCommits
  <2> QED BY <2>1, <2>2, RecordsWithRun
<1>3. [Promise!Commit]_<<LedgerView, RecordedView>> <=> [Promise!Commit]_Promise!lvars
  BY DEF Promise!lvars, RecordedView
<1> QED BY <1>1, <1>2, <1>3, RunsInvariant, PTL DEF Spec, KeepsLedger, Promise!LedgerSpec
=============================================================================
