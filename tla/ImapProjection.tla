--------------------------- MODULE ImapProjection ---------------------------
(***************************************************************************)
(* The IMAP view of the archive: folders for labels, and in each folder a  *)
(* permanent UID for each message. imap-backfill jobs build it while       *)
(* ingests commit messages and IMAP sessions read it.                      *)
(*                                                                         *)
(* A statement sees what was committed when it began (read committed). Its *)
(* inserts wait for an uncommitted row with an equal key and raise once    *)
(* that row is committed. Rows are never deleted.                          *)
(***************************************************************************)
EXTENDS Naturals, Sequences, FiniteSets

CONSTANTS
  Message,      \* digests of messages
  Account,      \* accounts whose exports are ingested
  Label,        \* Gmail labels
  LabelsOf,     \* the labels of a message: part of its bytes
  Inbox,        \* the folder INBOX, which holds every message
  InboxNames,   \* names a client may use for it: equal but for their case
  Unreadable,   \* messages whose blob cannot be read
  Job,          \* invocations of imap-backfill
  Client,       \* IMAP sessions
  CommitEvery,  \* envelopes per transaction
  MaxKills      \* bound on how many jobs are killed

ASSUME ProjectionAssumption ==
  /\ LabelsOf \in [Message -> SUBSET Label]
  /\ InboxNames \subseteq Label \cup {Inbox}
  /\ Inbox \in InboxNames
  /\ Unreadable \subseteq Message
  /\ CommitEvery \in Nat \ {0}
  /\ MaxKills \in Nat

Folder == Label \cup {Inbox}

VARIABLES
  arrived,   \* messages in the order of ingested_at, and of digest within it
  seenIn,    \* message_accounts, and with LabelsOf the rows of labels
  folders,   \* names in imap_folders
  uids,      \* rows of imap_uids
  envelopes, \* messages whose envelope and bodystructure are stored
  job,       \* per backfill: its place, and what it has read and not committed
  client,    \* per session: its place, and what it has been told
  kills      \* jobs killed so far

vars == <<arrived, seenIn, folders, uids, envelopes, job, client, kills>>

Archive == {arrived[i] : i \in 1..Len(arrived)}
UidRow  == [folder : Folder, msg : Message, uid : Nat]

JobRec ==
  [pc : {"idle", "folders", "envelopes", "list", "number", "insert"},
   wants : SUBSET Folder, claimed : SUBSET Folder,
   todo : SUBSET Message, drafts : SUBSET Message,
   left : SUBSET Folder, rows : SUBSET UidRow, doubled : BOOLEAN]
ClientRec ==
  [pc : {"out", "sync", "in"}, wants : SUBSET Folder, folder : Folder,
   top : [Folder -> Nat], next : Nat]

NoJob == [pc |-> "idle", wants |-> {}, claimed |-> {}, todo |-> {}, drafts |-> {},
          left |-> {}, rows |-> {}, doubled |-> FALSE]
NoClient == [pc |-> "out", wants |-> {}, folder |-> Inbox,
             top |-> [f \in Folder |-> 0], next |-> 0]

TypeOK ==
  /\ arrived \in Seq(Message) /\ \A i, j \in 1..Len(arrived) : arrived[i] = arrived[j] => i = j
  /\ seenIn \subseteq Account \X Archive
  /\ folders \subseteq Folder
  /\ uids \subseteq UidRow
  /\ envelopes \subseteq Archive
  /\ job \in [Job -> JobRec]
  /\ client \in [Client -> ClientRec]
  /\ kills \in 0..MaxKills

Init ==
  /\ arrived = <<>> /\ seenIn = {}
  /\ folders = {} /\ uids = {} /\ envelopes = {}
  /\ job = [b \in Job |-> NoJob]
  /\ client = [c \in Client |-> NoClient]
  /\ kills = 0

(***************************************************************************)
(* What the SQL of the jobs and sessions computes                          *)
(***************************************************************************)

\* Folders without a row: INBOX and every label in use.
Missing == ({Inbox} \cup UNION {LabelsOf[x[2]] : x \in seenIn}) \ folders

\* Place of a message in the order of arrival.
Place(m) == CHOOSE i \in 1..Len(arrived) : arrived[i] = m

Rows(f) == {r \in uids : r.folder = f}

\* Messages of a folder that have no UID in it yet.
Unassigned(f) ==
  LET candidates == IF f = Inbox THEN Archive
                    ELSE {m \in Archive : f \in LabelsOf[m] /\ \E a \in Account : <<a, m>> \in seenIn}
  IN {m \in candidates : \A r \in Rows(f) : r.msg # m}

\* The join with labels returns a message once per account that has it.
Doubled(f) ==
  f # Inbox /\ \E m \in Unassigned(f) : \E a, b \in Account :
    a # b /\ <<a, m>> \in seenIn /\ <<b, m>> \in seenIn

\* coalesce(max(uid), 0)
TopUid(f) ==
  CHOOSE n \in {0} \cup {r.uid : r \in Rows(f)} : \A r \in Rows(f) : r.uid <= n

\* (Mutant: last come, first numbered.)
RankBackwards(m, S) == Cardinality({x \in S : Place(x) >= Place(m)})

\* row_number() over (order by ingested_at, raw_sha256)
Rank(m, S) == Cardinality({x \in S : Place(x) <= Place(m)})

\* (Mutant: numbers of the whole archive by digest.)
DigestPlace == CHOOSE d \in [Message -> 1..Cardinality(Message)] : \A m, n \in Message : d[m] = d[n] => m = n
NumberedByDigest(f) == {[folder |-> f, msg |-> m, uid |-> DigestPlace[m]] : m \in Unassigned(f)}

Numbered(f) ==
  {[folder |-> f, msg |-> m, uid |-> TopUid(f) + Rank(m, Unassigned(f))] : m \in Unassigned(f)}

\* A row some other row's key stands in the way of: (folder, uid) or
\* (folder, message).
Clash(new) == \E r \in new, s \in uids : r.folder = s.folder /\ (r.uid = s.uid \/ r.msg = s.msg)

\* Another job's uncommitted folder makes an insert of its name wait.
Free(b, names) == \A d \in Job \ {b} : job[d].claimed \cap names = {}

(***************************************************************************)
(* The ingest, as the projection sees it                                   *)
(***************************************************************************)

\* A message arrives from an account's export: first or once more.
Arrive(a, m) ==
  /\ <<a, m>> \notin seenIn
  /\ arrived' = IF m \in Archive THEN arrived ELSE Append(arrived, m)
  /\ seenIn' = seenIn \cup {<<a, m>>}
  /\ UNCHANGED <<folders, uids, envelopes, job, client, kills>>

(***************************************************************************)
(* imap-backfill                                                           *)
(***************************************************************************)

\* The inserts of missing folders begin.
Start(b) ==
  /\ job[b].pc = "idle"
  /\ job' = [job EXCEPT ![b].pc = "folders", ![b].wants = Missing]
  /\ UNCHANGED <<arrived, seenIn, folders, uids, envelopes, client, kills>>

\* (Mutant: no envelope is missing, so there is nothing to do.)
ReturnEarly(b) ==
  LET todo == Archive \ envelopes IN
  /\ job[b].pc = "folders"
  /\ Free(b, job[b].wants)
  /\ IF job[b].wants \cap folders # {}
     THEN job' = [job EXCEPT ![b] = NoJob] /\ UNCHANGED folders
     ELSE IF todo = {}
     THEN job' = [job EXCEPT ![b] = NoJob] /\ folders' = folders \cup job[b].wants
     ELSE /\ job' = [job EXCEPT ![b].pc = "envelopes", ![b].wants = {},
                                ![b].claimed = job[b].wants, ![b].todo = todo]
          /\ UNCHANGED folders
  /\ UNCHANGED <<arrived, seenIn, uids, envelopes, client, kills>>

\* They end, with an error if somebody else has committed one of them
\* meanwhile; then the messages without an envelope are listed.
MakeFolders(b) ==
  LET todo == Archive \ envelopes IN
  /\ job[b].pc = "folders"
  /\ Free(b, job[b].wants)
  /\ job' = IF job[b].wants \cap folders # {}
            THEN [job EXCEPT ![b] = NoJob]
            ELSE [job EXCEPT ![b].pc = IF todo = {} THEN "list" ELSE "envelopes",
                             ![b].wants = {}, ![b].claimed = job[b].wants, ![b].todo = todo]
  /\ UNCHANGED <<arrived, seenIn, folders, uids, envelopes, client, kills>>

\* conn.commit() of b, whose envelopes so far are new.
Commit(b, new) ==
  /\ envelopes' = envelopes \cup new
  /\ folders' = folders \cup job[b].claimed

\* The next message in order of arrival: skipped when its blob cannot be read,
\* else its envelope is written, and every so often committed. The update
\* waits for one of the same row by another job.
Envelope(b) ==
  /\ job[b].pc = "envelopes"
  /\ \E m \in job[b].todo :
       LET new == job[b].drafts \cup {m} IN
       /\ \A x \in job[b].todo : Place(m) <= Place(x)
       /\ \/ /\ m \in Unreadable
             /\ job' = [job EXCEPT ![b].todo = @ \ {m}]
             /\ UNCHANGED <<envelopes, folders>>
          \/ /\ m \notin Unreadable
             /\ \A d \in Job \ {b} : m \notin job[d].drafts
             /\ Cardinality(new) < CommitEvery
             /\ job' = [job EXCEPT ![b].todo = @ \ {m}, ![b].drafts = new]
             /\ UNCHANGED <<envelopes, folders>>
          \/ /\ m \notin Unreadable
             /\ \A d \in Job \ {b} : m \notin job[d].drafts
             /\ Cardinality(new) >= CommitEvery
             /\ job' = [job EXCEPT ![b].todo = @ \ {m}, ![b].drafts = {}, ![b].claimed = {}]
             /\ Commit(b, new)
  /\ UNCHANGED <<arrived, seenIn, uids, client, kills>>

\* No message is left: what is not committed yet is.
EndEnvelopes(b) ==
  /\ job[b].pc = "envelopes"
  /\ job[b].todo = {}
  /\ Commit(b, job[b].drafts)
  /\ job' = [job EXCEPT ![b].pc = "list", ![b].drafts = {}, ![b].claimed = {}]
  /\ UNCHANGED <<arrived, seenIn, uids, client, kills>>

\* The folders to go through, its own uncommitted ones among them. (The code
\* takes them by name; here in any order.)
ListFolders(b) ==
  /\ job[b].pc = "list"
  /\ job' = [job EXCEPT ![b].pc = "number", ![b].left = folders \cup job[b].claimed]
  /\ UNCHANGED <<arrived, seenIn, folders, uids, envelopes, client, kills>>

\* The statement that assigns a folder's UIDs begins: it sees the archive and
\* the UIDs as they are now.
Number(b) ==
  /\ job[b].pc = "number"
  /\ \E f \in job[b].left :
       job' = [job EXCEPT ![b].pc = "insert", ![b].left = @ \ {f},
                          ![b].rows = Numbered(f), ![b].doubled = Doubled(f)]
  /\ UNCHANGED <<arrived, seenIn, folders, uids, envelopes, client, kills>>

\* (Mutant: every row is committed on its own.)
InsertSome(b) ==
  /\ job[b].pc = "insert"
  /\ ~job[b].doubled /\ ~Clash(job[b].rows)
  /\ \E some \in SUBSET job[b].rows : uids' = uids \cup some
  /\ folders' = folders \cup job[b].claimed
  /\ job' = [job EXCEPT ![b].pc = "number", ![b].claimed = {}, ![b].rows = {}]
  /\ UNCHANGED <<arrived, seenIn, envelopes, client, kills>>

\* It ends, and is committed; or a key clashes and the job aborts.
Insert(b) ==
  /\ job[b].pc = "insert"
  /\ \/ /\ job[b].doubled \/ Clash(job[b].rows)
        /\ job' = [job EXCEPT ![b] = NoJob]
        /\ UNCHANGED <<uids, folders>>
     \/ /\ ~job[b].doubled /\ ~Clash(job[b].rows)
        /\ uids' = uids \cup job[b].rows
        /\ folders' = folders \cup job[b].claimed
        /\ job' = [job EXCEPT ![b].pc = "number", ![b].claimed = {}, ![b].rows = {}]
  /\ UNCHANGED <<arrived, seenIn, envelopes, client, kills>>

Finish(b) ==
  /\ job[b].pc = "number"
  /\ job[b].left = {}
  /\ job' = [job EXCEPT ![b] = NoJob]
  /\ UNCHANGED <<arrived, seenIn, folders, uids, envelopes, client, kills>>

\* The job is killed: what it has not committed is gone.
Kill(b) ==
  /\ job[b].pc # "idle"
  /\ kills < MaxKills
  /\ kills' = kills + 1
  /\ job' = [job EXCEPT ![b] = NoJob]
  /\ UNCHANGED <<arrived, seenIn, folders, uids, envelopes, client>>

(***************************************************************************)
(* IMAP sessions: what they load is left out, what they announce is kept   *)
(***************************************************************************)

\* SELECT, and LIST, which goes no further: _sync_folders begins to insert
\* missing folders.
Sync(c) ==
  /\ client[c].pc # "sync"
  /\ client' = [client EXCEPT ![c].pc = "sync", ![c].wants = Missing]
  /\ UNCHANGED <<arrived, seenIn, folders, uids, envelopes, job, kills>>

\* The inserts wait for the jobs, and raise if a name was committed meanwhile.
SyncRaises(c) ==
  /\ client[c].pc = "sync"
  /\ client[c].wants \cap folders # {}
  /\ client' = [client EXCEPT ![c] = NoClient]
  /\ UNCHANGED <<arrived, seenIn, folders, uids, envelopes, job, kills>>

\* The folder a name of a client leads to.
Resolve(f) == IF f \in InboxNames THEN Inbox ELSE f

\* The folders are there and one is selected: its messages are loaded. top is
\* _max_uid of the folder's MailboxData, which the session keeps.
Select(c) ==
  /\ client[c].pc = "sync"
  /\ client[c].wants \cap folders = {}
  /\ \A b \in Job : job[b].claimed \cap client[c].wants = {}
  /\ folders' = folders \cup client[c].wants
  /\ \E g \in folders' :
       LET f == Resolve(g)  n == TopUid(f) IN
       client' = [client EXCEPT ![c].pc = "in", ![c].wants = {}, ![c].folder = f,
                    ![c].top[f] = IF n > @ THEN n ELSE @, ![c].next = 0]
  /\ UNCHANGED <<arrived, seenIn, uids, envelopes, job, kills>>

\* (Mutant: one too many.)
SnapshotPlusTwo(c) ==
  LET f == client[c].folder IN
  /\ client[c].pc = "in"
  /\ client' = [client EXCEPT ![c].top[f] = TopUid(f), ![c].next = TopUid(f) + 2]
  /\ UNCHANGED <<arrived, seenIn, folders, uids, envelopes, job, kills>>

\* The session is told the counts of its folder, UIDNEXT among them.
Snapshot(c) ==
  LET f == client[c].folder  n == TopUid(f)  t == client[c].top[f]
      top == IF n > t THEN n ELSE t
  IN
  /\ client[c].pc = "in"
  /\ client' = [client EXCEPT ![c].top[f] = top, ![c].next = top + 1]
  /\ UNCHANGED <<arrived, seenIn, folders, uids, envelopes, job, kills>>

(***************************************************************************)
(* The specification                                                       *)
(***************************************************************************)
JobStep(b) ==
  \/ Start(b) \/ MakeFolders(b) \/ Envelope(b) \/ EndEnvelopes(b)
  \/ ListFolders(b) \/ Number(b) \/ Insert(b) \/ Finish(b)

Next ==
  \/ \E a \in Account, m \in Message : Arrive(a, m)
  \/ \E b \in Job : JobStep(b) \/ Kill(b)
  \/ \E c \in Client : Sync(c) \/ SyncRaises(c) \/ Select(c) \/ Snapshot(c)

Spec == Init /\ [][Next]_vars

\* A job that is started runs, and is started again after each ingest.
FairSpec == Spec /\ \A b \in Job : WF_vars(JobStep(b))

(***************************************************************************)
(* Properties                                                              *)
(***************************************************************************)

\* UIDs ascend strictly within a folder and are never reused: a row added to a
\* folder has a UID above all those the folder had, whichever jobs run at the
\* same time and wherever they were killed.
UidsAscend ==
  [][\A r \in uids' \ uids, s \in uids : r.folder = s.folder => r.uid > s.uid]_vars

\* ... and no number is left out: a folder's UIDs are 1 to their count.
UidsDense == \A f \in Folder : \A n \in 1..Cardinality(Rows(f)) : \E r \in Rows(f) : r.uid = n

\* INBOX numbers messages in their order of arrival.
InboxByArrival ==
  \A r, s \in Rows(Inbox) : Place(r.msg) < Place(s.msg) => r.uid < s.uid

\* A message that gets its UID after a session was told UIDNEXT gets that UID
\* or a higher one, so that the client finds it as new mail.
UidNextIsSafe ==
  [][\A c \in Client : \A r \in uids' \ uids :
       client[c].pc = "in" /\ r.folder = client[c].folder => r.uid >= client[c].next]_vars

\* Running the command again finishes the job, whatever aborted or killed it:
\* in the end every message has its UID in every folder of its own, and its
\* envelope if its blob can be read.
BackfillFinishes ==
  <>[](/\ Archive \ Unreadable \subseteq envelopes
       /\ \A m \in Archive : \A f \in LabelsOf[m] \cup {Inbox} :
            \E r \in uids : r.folder = f /\ r.msg = m)
=============================================================================
