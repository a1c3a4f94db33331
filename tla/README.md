# gmail-archive in TLA+

gmail-archive ingests Google Takeout mbox files into content-addressed blobs
on disk and rows in PostgreSQL, and serves the result as a web application and
a read-only IMAP server. What is stored is meant to be kept for good, so what
matters is that nothing is lost without a trace: not by parallel workers, not
by a kill at the wrong moment, not by a power failure, not by a page that is
skipped or a UID that moves.

The modules here model the parts of the program where order, failure and
concurrency decide that: the blob store, the ingest pipeline, the IMAP
projection, the walk through a mailbox and the login around it, the way messages
lie in an mbox file, which export and a later ingest must agree on, the parser
and the pages that parse a blob again years later, the paged search, migrations
and the integrity check next to an ingest, and the sender profiles. TLC checks
them on small instances; TLAPS proves every safety property of the passing runs
for every size. Paths
below are relative to the repository; `ga/` stands for `src/gmail_archive/`.

## 1. Inventory

| Part | State it keeps | Operations | Talks to |
|---|---|---|---|
| Blob store, `ga/storage.py` | files named by digest in fan-out directories, `.tmp-` files | `put`, `get`, `verify`, `iter_blobs`, `sweep_temporaries` | file system; called by ingest workers, export, verify, backfill, web, IMAP |
| Ingest, `ga/ingest.py` | advisory lock, `ingest_runs`, the locals of a run, a pool of worker processes | lock, sweep, scan, resume or create a run, worker task, result loop, batch, checkpoint, finalize, mark interrupted | blob store, PostgreSQL, mbox splitter, parser |
| mbox splitter, quoting, `ga/mbox.py`, `ga/export.py` | none | `scan`, `read_message`, `strip_envelope`, `unquote_mbox`, `requote_mbox`, export | files |
| MIME parser, `ga/parser.py` | none | `parse`, `extract_html_body`, `iter_attachment_payloads` | ingest workers; the message and attachment pages |
| Integrity check, `ga/verify.py` | none | compare disk and rows | blob store, PostgreSQL |
| Migrations, `ga/migrate.py`, `migrations/` | `schema_migrations` | apply pending, one transaction each | PostgreSQL |
| IMAP projection, `imap_backfill` in `ga/cli.py`, `ga/imap/mailbox.py` | `imap_folders`, `imap_uids`, `envelope`/`bodystructure`; per session the mailboxes selected and their highest UID | backfill, folder sync, select, snapshot | PostgreSQL, blob store; concurrent with ingest and each other |
| IMAP server, `ga/imap/backend.py`, `message.py` | credentials, a pool | login, fetch | pymap |
| Browsing and search, `ga/query.py`, `searchquery.py` | none | keyset listing, search, statistics | PostgreSQL |
| Web application, `ga/web/app.py` | a pool, cursors in links | middleware, one handler per page | query, blob store, login |
| Web login, `ga/web/auth.py` | failures per client, signed cookies | throttle, login, logout | web application |
| Gmail API source, `ga/sources/` | token, attempt counter | list, fetch with retry | nothing calls it |
| Sender analytics, `ga/analytics.py` | `sender_profiles`, with overrides set by hand | rebuild; reads for pages | PostgreSQL; concurrent with ingest |
| CLI, configuration, fixtures, compose file | none | start the above | |

What is hard in it, and what correctness means:

* **Blob store.** Several processes put the same digest at once; a put is five
  system calls and may stop after any; a sweep deletes temporaries that may be
  in use; power may fail when the directory is behind the file. Correct: a file
  under a digest is whole; what `put` says is written stays.
* **Ingest.** Workers finish out of order; the checkpoint lags behind the
  batches; the lock is bound to a connection; the main process, one worker, the
  container or the machine dies; a second ingest starts. Correct: nothing below
  a checkpoint or in a complete run is missing; a row has its blob; a run is
  adopted and not duplicated; running the command again gets everything in.
* **IMAP projection.** Two backfills, or a backfill and a session, create the
  same folders; a backfill dies between folders; an ingest commits while UIDs
  are assigned; a session keeps what it saw. Correct: UIDs ascend and are never
  reused, no UID appears below an announced UIDNEXT, a rerun finishes the job.
* **Splitter and export.** A body may hold lines that look like envelopes, quoted
  or not; the last message has no newline; a file is empty, or begins with
  anything; a blob is missing; the exporter dies. Correct: an export read again
  is what was exported, and a cut damages one message.
* **Walk and login.** Messages arrive and `now()` moves between two pages; dates are
  equal, missing or absurd; the session ends on the way. Correct: everything is
  shown once, in order; a login leads to where the reader was; guesses are few.
* **Parser and pages.** The message page and the attachment page parse the blob
  with loops of their own, which must number and pick the parts as the loop did
  that wrote the rows; the blob may be lost or damaged, the database away.
  Correct: what is served is what was recorded, and no page fails.
* **Search.** Pages are offsets into an order that mail, time and a cap on the
  offset move; a page is two statements. Correct: a search followed to its end
  has shown what it began with, and it ends.
* **Upkeep.** Two migrations, an ingest and a check run at once, any of them
  dies, a disk loses a blob. Correct: a script is applied once, in order; every
  message has an account; the check overlooks nothing that lasts.
* **Sender profiles.** A rebuild writes over the one before, or next to another;
  mail arrives and the owner corrects. Correct: what the owner says stands, and
  verdicts follow from the mail, not from earlier verdicts.

`PROJECT.json` lists the hazards line by line with the properties that cover
them, and every part with its status.

## 2. Modules

| Module | What it is |
|---|---|
| `BlobStore` | `put` system call by system call, the sweep, kills, power failure |
| `Ingest` | the pipeline; EXTENDS `BlobStore`, whose actions are steps of its own |
| `Ledger` | what the pipeline promises to a reader of the database; `Ingest` implements it |
| `ImapProjection` | backfills, the arrival of messages, IMAP sessions |
| `MailboxWalk` | the keyset listing and the cursor of the mailbox page |
| `LoginThrottle` | who may try a password, and when |
| `WebSession` | middleware and login around the walk; EXTENDS `MailboxWalk` and `LoginThrottle` |
| `MessageParse` | what the three loops of the parser make of a raw message; pure |
| `Reading` | pages of a message, FETCH and search next to ingest, damage and a database that goes; EXTENDS `MessageParse` |
| `MboxFraming` | mbox files as lines: splitter, envelope, mboxrd quoting; pure |
| `Export` | `export_mbox` and what its file is read as, `export_eml`; EXTENDS `MboxFraming` |
| `Migrate` | the migration runner |
| `Verify` | the integrity check, query by query, and what may happen meanwhile |
| `Upkeep` | both next to an ingest that needs the schema; EXTENDS `Migrate` and `Verify` |
| `SenderProfiles` | the rebuild of `sender_profiles` |
| `BlobStoreProofs` | what the store keeps, proved for every size |
| `IngestProofs` | the inductive invariant of the pipeline: types, `NoSilentLoss`, the sweep; use of the store; rows and their blobs; one open run per file; `Ingest` implements `Ledger` |
| `ImapProofs` | the UIDs of the projection, for any number of backfills and sessions |
| `WebProofs` | the walk, the login and what they keep of each other, for any mailbox and limits |
| `ExportProofs` | lemmas about `MboxFraming`: quoting is undone, a record adds its message; the invariants of `Export`, for every file |
| `UpkeepProofs` | migrations, accounts and the check, for every number of runners and blobs; sums over finite sets |
| `ReadingProofs` | the pages and the search, for any mail, query, limits and damage |
| `ProfilesProofs` | the owner's word and the verdicts, for any mail and number of rebuilds |
| `MCIngest`, `MCImap`, `MCWalk`, `MCWeb`, `MCExport`, `MCUpkeep`, `MCProfiles`, `MCReading` | instances for TLC |

### BlobStore

A blob's bytes are determined by its digest, so a file is its name and three
facts: all bytes there (`partial`), bytes fsynced (`unflushed`), name on the
platter (`entries`, and `rooted` for its directory). `put[w]` is the program
counter of the call worker `w` is in: `BeginPut` is the `is_file` test,
`WriteTemp` mkdir to fsync of the temporary, `Rename` `os.replace`, `SyncDir`
`_fsync_dir` and the return; `PutRaises` is the exception handler, from any of
them. Mkdir to fsync is one step because nothing between them is visible but a
temporary whose contents nobody reads; after a power failure temporaries are
litter with any contents. `PowerCut` keeps at least what is known to be on the
platter and any part of the rest. `JournalledMkdir` says whether fsync of a
directory also persists the directory's own name, as the usual Linux file
systems do and POSIX does not promise.

`stored` and `found` are history: the digests for which some `put` returned
`written = True` and `False`.

### Ingest

A file is a sequence of digests; the i-th message covers the bytes from i - 1
to i, so an offset is a count of messages and the checkpoint k means that a
resume begins at message k + 1. `main[p]` holds the locals of `ingest()` that
decide a step: where it is, file and account, the run's id, `row` (the run's
row as the open transaction has it), `start` and `next` (the pending list), the
results queued, received, and batched. `task[w]` is what a worker works on and
for whom; `Nobody` for an orphan whose main process was killed.

Database state is what has been committed; a transaction shows in `row` and
becomes visible with `Publish`. The rows of a batch are computed and committed
in one action because no one else reads them before. Three details are kept
because they matter: the checkpoint set after a batch is committed with the
*next* batch (`Flush`), `analyze` commits it only if a message was new
(`Analyze`), and the return with nothing pending commits nothing
(`NothingPending`).

`LowWater` is the low-water mark of `safe_offset` in closed form: the last
position reached without a gap. The loop that advances it is not modelled step
by step.

`Refused` are the digests of messages whose rows PostgreSQL does not take: a NUL
in a Message-ID, an address or another column that `parse` stores as it is. One
of them in a batch (`Offends`) makes COPY raise, the batch is rolled back and the
run ends as interrupted (`BatchRefused`), as for any other exception
(`Abort`). The two ways a main process leaves its pool are named: `Stop` when the
connection is closed and the lock with it, `StopPool` when the `with` block ends.

The advisory lock belongs to a database session, so `main[p].conn` says whether `p`
still has its own. When it dies (`ConnectionDies`) the lock is free at once, while
the main process and its pool carry on: the pool stores blobs, results come in,
and only the next statement raises (`StatementDue`, `ConnectionLost`), after
which not even the mark as interrupted is made. Whatever commits needs the session.
Between the lock and the first statement lies the sweep, which a process without
session still does.

Faults: a failing system call in `put`, an exception in the parser, an
exception or Ctrl-C in the main process (workers terminated, rollback, run
marked interrupted, or not if that fails as well), a killed worker, a killed
main process (its workers go on as orphans), a killed container, a database
session that dies, a power failure. `FaultKind` says which happen in a run, `MaxFaults` how many.

`Ledger` knows runs with a checkpoint and a set of recorded positions and one
action, an honest commit. `Promise` in `Ingest` is the refinement mapping.

### ImapProjection

A message in the archive is its place in the order of arrival. A backfill is
modelled statement by statement: the folder inserts (which wait for another
transaction's equal key and raise once it commits), the list of messages
without envelope, each envelope with the commit after every `CommitEvery`
(100 in the code), the list of folders, and per folder the one statement that
numbers what has no UID, split where it takes its snapshot (`Number`) and where
it inserts and commits (`Insert`). Several jobs overlap at will and may be
killed. `Doubled` is what the join with `labels` does when a message has a label
in two accounts. Sessions synchronise folders, select (INBOX in any spelling
is the one folder INBOX) and report UIDNEXT from the maximum they keep.

The labels of a message are part of its bytes (`X-Gmail-Labels`), hence of its
digest, and so a constant.

### MailboxWalk

Dates and digests are numbers; a mailbox is the set of messages its filter lets
through. `Before` is the ORDER BY, `After` the predicate of a cursor, `Top` the
LIMIT, `NextCursor` the decision of `index()` which link the page offers.
Meanwhile messages arrive and the horizon `now() + 90 days` moves.

### LoginThrottle and WebSession

A client's entry is a count and the age of its last failure; time passes in
steps, and ages beyond the lockout are alike. `RecordFailure` prunes first, as
`record_failure` does. `guesses` is history: the ages of the last wrong guesses.
Check and record are one step (`Wrong`, `Right`): `login_submit` is a coroutine
that awaits nothing between `locked_for` and `record_failure`.

`WebSession` puts the middleware in front of the walk: a request is served, or
turned away to the login page, which keeps it (`target`) and redirects to it
after the right password. Cookies end at any moment (`SignedOut`: expiry, logout,
another password), the server restarts and forgets its failures. Passwords,
hashes and signatures are data; whether a cookie verifies is one bit.

### MessageParse and Reading

A raw message is its fields and parts. Of a field only what decides a step is
kept: it is absent, plain, holds a NUL, a base64 word that is malformed and on
which `_decode_header` raises, or characters outside Latin-1. A part has its kind, whether it is said to be
attached, its name, whether its payload decodes, whether its charset's codec
raises in spite of `errors="replace"`, and a content. `Attached` and `Bodies` are
the loop of `parse`, `HtmlParts` that of `extract_html_body`, `Payloads` that of
`iter_attachment_payloads`; each is translated on its own, since that they agree
is what is to be shown. `InternalDate` is the choice between `Date` and the
Received hops, the latest plausible one first.

In `Reading`, `mail` is what the messages really are, fixed at the beginning; `row`
and `blob` are what the archive has of them. `Ingest` is the outcome of a whole
ingest of one message: nothing if parse raises, a blob without a row if the row
is refused, otherwise both, and never a second row or blob. `Harm` loses or
changes a blob. Each page is one action whose guards are the handler's early
returns: `MessagePage` shows a message without html if its blob is lost
(`HtmlShown`), `Attachment` finds a part by number (`At`) and is a 500 where a name
raises on the way to it (`Stumbles`) or where the response cannot encode the name
in its header (`HeaderRaises`). `page` keeps the response together
with what the blob was at that moment and whether there was a row.

A search is `ask` and `rows`, for the two statements of `search()`, which
READ COMMITTED gives two views of the archive. `Precedes` is the ORDER BY of
the three sorts, `Rank` a hit's offset in it, `Offset` the clamp to
`MAX_SEARCH_OFFSET`, `More` the condition of the link in `search.html`. `start`,
`shown` and `steady` are history: the hits at the beginning, those shown, and
whether a hit came between the two statements of a page or a future date became
plausible.

### MboxFraming and Export

Bytes are a sequence of the pieces between newlines, so that "a\nb\n" is a, b and
a last blank piece, and a file that does not end in a newline is told from one
that does. Of a line only its carets and whether "From " follows are kept; the
rest is a text. `Starts` is `scan`: the first line, and every later one with
"From " and no caret. `ReadMessage` is the bytes of one message as scanned, with
the newline that belongs to the next separator; `StripEnvelope` drops the
envelope line and, if a separator's newline is there, that; `Unquote` takes one
caret from a quoted line, `Requote` puts one before every line of carets and
"From ". The windows of the scan and the heuristic that only warns of an
ambiguous quote are left out.

`Export` starts from an archive that holds the messages of an ingested file.
`Select` stands for the query with its label, text and limit, which are data:
any messages in any order; it truncates the output. `WriteOne` appends a record,
`SkipOne` passes over a message whose blob is gone, `Die` leaves any beginning
of what was written, down to the middle of a line. `WriteEml` makes one file per
message, named by the digest, over what an earlier export has left; `DieEml` may
leave one of them cut. `written` is history.

### Migrate, Verify and Upkeep

A script is its number. `Discover` reads the directory and `schema_migrations`
once for a whole run, as the code does; each script and its row is a
transaction (`Apply`, `Record`). A script that a rival has applied meanwhile can
be executed again (`if not exists`), but its row breaks the key and takes
everything back. Runners come from images of different releases (`Image`).

`Verify` goes through `verify()` query by query: counts, the listing of the
disk directory by directory, rows, messages without sighting, hashes. Of the
ingest it knows that blobs are put before their rows are committed, and of the
disk that a blob may be lost or damaged. `since` is history: which rows have had
no blob, which blobs have been damaged, ever since the check began.

`Upkeep` lets all of it run on one database. The ingest needs the tables of
accounts and gives each message of a batch its account; the script of accounts
(0006) gives one to those it sees.

### SenderProfiles

A rebuild is two statements in one transaction. `Begin` is where the first reads
messages and labels, `Upsert` where it writes each row over its latest
committed version, `Inherit` the sweep of domains that are mostly bulk, `Commit`
the commit in `analyze`. Rows a rebuild has written are held (`held`, `draft`):
others wait for them. `LooksBulk` is the case expression, with thresholds as
constants. Mail arrives at any time; the owner sets or clears `override` in the
table. `settled`, `wrote` and `made` are history: rows rewritten since their override
was set, the mail read by the rebuild that wrote a row last, and the mail of a
rebuild that ran alone. A sweep that takes a row others have written leaves `wrote`
as it is.

## 3. Runs

| Run | Instance | Shows |
|---|---|---|
| `ingest_faults` | 2 processes, 2 workers, a file of 5 messages (4 of them equal) and an empty one, batches of 2; puts that fail, workers and main processes killed, exceptions, power failures, 2 faults in all; 1.8 million states | types; no silent loss; rows outlive power; of the store: no torn file, stored blobs are durable, litter only of the dead, names lost by power failure only |
| `ingest_live` | 2 processes, 2 workers, two files of 2 messages, equal ones in the first, one that is refused in the second, batches of 2; puts or parses that fail, exceptions, container and main process killed, a database session lost, 1 fault; fair scheduling; 262 thousand states | rows have blobs, the sweep spares live workers while sessions last, one open run per file, the pipeline implements `Ledger`; every ingest ends; in the end every file without a refused message is recorded |
| `imap` | 2 jobs, 1 session, 2 messages, an unreadable blob, 1 kill, fair scheduling | UIDs ascend without gaps, in order of arrival, above UIDNEXT; the projection gets complete |
| `web` | 5 messages, pages of 1, 1 mailbox, 2 days, threshold 2, lockout 2, fair reader | nothing skipped, nothing twice, a login loses no place, guesses are few, the walk ends |
| `export` | every file of up to 5 lines of 5 kinds, 1 lost blob, death of the exporter | an export is read as what was written, a whole export equals a well-framed file, a cut damages the last message, counts are true |
| `upkeep` | 2 runners, 2 releases, 2 messages in 2 directories, 1 failure, 1 damage, fair runners | scripts once and in order, every message has an account, lasting damage is reported, an undisturbed report is exact, the schema gets to the newest release |
| `reading` | one message of any two of 10 kinds of part or three attachments with or without a payload, one that parse or the database refuses, 1 harm; or three hits with equal, future and missing dates, three sorts, pages of 1 and 2, an offset cap of 1, 1 day, a database that goes and comes; 270 thousand states | attachments and html are those recorded, no page fails but that of an attachment with a name outside Latin-1; a search misses nothing and ends |
| `profiles` | 2 rebuilds, 3 addresses of a domain, 5 messages, 1 failure, 1 override; 1.1 million states | the owner's word stands, as far as the last rebuild knew it; verdicts follow from mail |
| `ingest_noloss` | 2 workers, a file of two equal messages, 1 power failure | **violated**: a row without a blob |
| `ingest_hang` | a killed worker, fair scheduling | **violated**: the ingest waits for ever |
| `imap_twice` | 2 accounts, fair scheduling | **violated**: the backfill aborts on every run |
| `walk_future` | messages of the far future | **violated**: no page shows them |

**Bounds.** Every bound is a constant. A checkpoint set with
one batch is committed with the next, so for it to run ahead of a message in
flight takes that message and two batches: five messages in batches of two.
Two workers are
enough for out-of-order delivery and for two puts of one digest (the files
repeat one). Two processes are enough for a second ingest next to a first and
to its orphans. Two faults let a resume from a checkpoint be cut off again. In
`ingest_live` the refused message is the last of its file, in a batch with a
good one, so that both the loss of a batch and the other file's freedom from it
show; a put that fails in the middle of a batch is one of its faults, and so is a
session that dies at any point: one that dies between the commit of a batch and
the checkpoint set after it is one that dies before the next statement, as nothing
of that checkpoint is committed yet. `ingest_faults` has no lost sessions, which its
five messages make too many for TLC; that nothing is lost with one is checked as
`KeepsLedger` in `ingest_live` (its commits are honest) and proved as
`NoSilentLossAlways`. `RunId` has two runs:
a second one exists only when the first is complete. Two messages of one label
each, with a second job, give the projection every collision of folder, UID and
message; a label that is INBOX but for its case is there. In the walk, three
dated messages of which two are equal, and two undated, make a boundary of
pages of one fall within a tie, between dates, at the start of the tail and in
it; at horizon 0 the newer date lies in the future, at horizon 1 it does not.
Threshold and lockout of 2 let a guess fall before, at and after the moment an
entry is pruned and a lockout ends. Two runners of two releases are the smallest
pair of which one may lag behind the other and both may collide; two directories
let the disk change between two listings, two messages let one be in a batch
while another is damaged. Thresholds in `profiles` are such that the five
messages make a domain bulk and, by the time all have come, human again; one
override and one rival rebuild fall at any place of a rebuild. Five lines hold two framed
messages with a quoted line, or one with three lines of body; the kinds are
blank, words, and "From " with none, one or two carets, so that each quoting
step has a line that looks like the result of the other. The output file is
absent or holds an earlier export. In `reading`, two parts let each of the three
loops skip or take one before the other, three attachments let a number fall
before, at and after one that a loop leaves out; the ten kinds of part take
every branch of `parse` that records something or raises. Three hits and
pages of one or two make last pages that are full and such that are not; two
equal dates, one in the future until a day passes and one missing touch every
line of the ORDER BY. With an offset cap of 1, pages of one cannot reach the
third hit, which is the excluded case of `SearchEnds`; pages of two can.

Each module defines its type invariant; `ingest_faults` and `export` run it, and it
is proved for all of them in the modules named `...Proofs`.

Symmetry (of processes, workers, digests alike, jobs) is used in safety runs
only. Deadlock is checked except in `ingest_faults` and `ingest_hang`, where a
killed worker makes the program wait for ever: that is the finding, and in
`export`, where the command returns.

**Fairness.** `WF(MainStep)`, `WF(WorkerStep)`: the operating system runs every
process that can run. `Retry`: somebody starts the ingest of a file again when
it stopped, which the runbook tells them to, and now and then finds the lock free
(strong fairness per file): with two files, one of which is refused for ever,
weak fairness would let the lock be taken for that one each time the other is
tried. For the steps of a process weak fairness is enough, since nothing
disables them for ever. `WF(JobStep)`: a backfill proceeds, and is started again, as after
each ingest. In `web`: a reader turned away goes to the login page (WF), time
passes (WF), so that lockouts end, and the right password and the use of the
session are strongly fair: a session lasts far longer than a request
(`SESSION_MAX_AGE`), so a reader who goes on gets to use one in the end.
In `reading`: the database comes back (WF), and a reader who follows the links gets
an answer in the end, whichever interruptions lie between (SF on `Count` and
`Rows`).
`WF(MigrateStep)`: whoever migrates does so until nothing is pending. No
fairness is assumed of faults, arrivals, damage, or the end of sessions.

**Mutants.** Next to the definitions stand mutated forms of some of them,
marked as such (`HighWater` for the checkpoint the code had before issue 12,
`NextWithoutTail` for the walk before issue 15, `ReturnEarly` for the backfill
before its repair, `StripFirstLine` for the parser before issue 53, `AcquireNothing` for
an ingest without its lock). Nothing uses them; substituted for the original, each makes
a property fail, and `PROJECT.json` says which.

## 4. What the violated runs say about the code

* `ingest_noloss` (`ga/storage.py:76`). A put that finds the file returns without
  syncing the directory. Two workers have equal messages: the first has renamed
  its blob and not yet synced the directory, the second finds the file, and the
  batch with its row is committed. Power fails before the first worker's fsync, and
  there is a row without a blob. No put is killed and none fails in this run; one
  that died between rename and fsync would leave the same name behind, for good.
  `RowOutlivesPower` shows that this is the only way: where some put wrote the
  blob in full, it stays.
* `ingest_hang` (`ga/ingest.py:769`). `imap_unordered` never yields the result
  of a killed worker; the main process waits with the lock held, and the
  runbook's advice to run the command again meets "another ingest is running".
* `imap_twice` (`ga/cli.py:693`). Since migration 0006 labels are per account;
  the join of the backfill lists a message twice that has the label in two, and
  the key on folder and message refuses the statement.
* `walk_future` (`ga/query.py:710`). The order demotes absurd future dates, the
  cursor predicate does not know of it.

Seen while modelling, without a run of their own: `ingest()` with nothing
pending marks its run complete and never commits that (`ga/ingest.py:710`);
`failed_messages` has no key, so a replayed batch records a failure again
(`ga/ingest.py:525`); the fan-out directory's own entry in the root is never
synced (`ga/storage.py:80`); ADR 001 says that a blob always has a row, whereas
the code guarantees the converse and leaves blobs without rows after a kill; a run is found by its file alone, so one resumed
with another `--account` keeps the old account while the messages go to the new
(`ga/ingest.py:264`); an export that matches nothing leaves an older file at its
path as it was (`ga/export.py:79`).

Of the check: a blob that is put and committed between the listing of the disk
and the reading of the rows is reported missing (`ga/verify.py:67`), which the
runbook calls data loss (`docs/runbook.md:173`), so a report made next to an
ingest needs a second look; orphans, which it calls harmless to clean up, may
be about to get their rows; and `sighting_mismatch` counts every message seen
twice, although README.md:100 tells one to expect zero. Of the login: pruning
forgets counts below the threshold too, contrary to the comment at
`ga/web/auth.py:167`, so guesses paced slower than the lockout are never counted
together; `FewGuesses` says what remains true. Of the profiles: of two rebuilds
that overlap the one that has read less mail may write last, and then hides, until
the next rebuild, somebody the owner wrote to meanwhile; `OwnersWordStands` is
about the mail that the last writer of a row had read. Of the unused Gmail
source: a 401 refreshes the token on the first attempt only
(`ga/sources/gmail_api_source.py:113`).

Of the lock: it is taken once and never looked at again. When the session that took
it dies, another ingest may take it and sweep while the pool of the first goes on
writing (`ga/ingest.py:668`, "Safe now that the lock guarantees no other run is
writing"), or the first may sweep while the other writes, if it has not got to it yet. A
worker whose temporary is taken fails to rename it. In the ingest without a session
that is of no account, as it commits nothing any more; in the other one the
message becomes a row of `failed_messages`, and the run goes on past it.
`SweepSparesLive` claims the temporaries of an
ingest that has its session, unless a process without one is about to sweep, and
TLC refutes it without either condition.

Of the pages: an attachment whose name has a character outside Latin-1 (a Japanese
name, an em dash, a euro sign) cannot be downloaded, although it is recorded and
its blob is intact. `_safe_filename` keeps such characters (`ga/web/app.py:1003`), and
the response encodes its headers as Latin-1, so the handler raises and the reader
gets a 500 (`ga/web/app.py:1040`). `ServesWhatWasRecorded` and `NoPageFails` say that
it is these and no others.

Of the parser: `parse` says "Never raises" (`ga/parser.py:527`, and line 5 of the
same file), but a malformed base64 word in an encoded header makes
`make_header` raise `HeaderParseError`, which `_decode_header` does not catch
(`ga/parser.py:241`), and a few charsets (`idna`, `undefined`) raise in
`_part_text` in spite of `errors="replace"`; the message becomes a row of
`failed_messages`, without a blob. The comment at `ga/parser.py:12` says that a NUL
would abort the batch and is therefore stripped; it is stripped from what is
decoded, not from Message-ID, In-Reply-To, References, the Gmail ids, addresses
or MIME types. Such a message ends the ingest of its file at the same batch on
every run (`ga/ingest.py:796`): `AllRecordedAtLast` claims other files only, and
`KeepsLedger` that nothing of the batch is counted.

Of the search: the link to older hits is drawn from the count, while the offset
is clamped to `MAX_SEARCH_OFFSET` (`ga/web/app.py:101`), so with more hits than the
cap and a page the last link leads to the same page for ever; `SearchEnds`
excludes that case. A message that arrives between the count and the rows of the
last page pushes a hit over its end, where no link leads; one whose future date
becomes plausible moves to the front, past the reader: `steady` is false then.
A damaged blob is served as it is, since no page compares it with its digest;
`Faithful` says so. IMAP answers for a lost blob with an empty body.

## 5. Proofs

Every invariant and every action property of a passing run is a theorem, stated for
all values of the constants. The only assumptions are those named in the modules,
which TLC evaluates on every run, the two named in the tables below, and the
definitions of the faults. Most of the named assumptions say of what type a
constant is, and that the values for "nothing" are none of the something
(`NullAssumption` and others). A few say more: `VerifyAssumption` and
`ReadingAssumption` that there are finitely many digests and messages,
`WalkAssumption` that messages with one digest are one message and that digests
are below the one a link to the tail carries, `ThrottleAssumption` that threshold
and lockout are positive, as the constants of `ga/web/auth.py` are.

Each invariant below was checked by TLC, on the instance of its run, before it was
proved.

### The blob store and the pipeline

`BlobStoreProofs` proves, for any workers, digests and directories, `BlobTypeOK`,
`NeverTorn`, `OnlyPowerLosesNames`, `TempsAreInFlight`, and under
`JournalledMkdir` `StoredIsDurable`. The invariant `BlobInv` adds that a put past
the write has flushed its file and that nothing under a digest's name is
unflushed: without it a power failure could tear a file.

Of `Ingest`, for any number of processes, workers, files, accounts, messages,
any batch size and any faults:

| Theorem of `IngestProofs` | States | Assumes |
|---|---|---|
| `TypeCorrect` | `TypeOK` | |
| `NoSilentLossAlways` | `NoSilentLoss` | |
| `SweepSparesLiveAlways` | `SweepSparesLive`, an action property | |
| `UsesBlobStore` | every step is a step of the store or leaves it alone | |
| `LitterIsOfTheDead` | `TempsAreInFlight`, in the pipeline | |
| `RowHasBlobAlways` | `RowHasBlob` | no power failure |
| `RowOutlivesPowerAlways` | `RowOutlivesPower` | `JournalledMkdir` |
| `OneOpenRunAlways` | `OneOpenRun` | |
| `KeepsLedgerAlways` | `KeepsLedger`: `Ingest` implements `Ledger` | |

The invariant is

    IngestInv == BlobInv /\ TypeOK /\ LockInv /\ MainInv /\ TaskInv
                 /\ RunInv /\ DoneInv /\ NoSilentLoss

`NoSilentLoss` alone is not inductive: a commit publishes what the main process
holds in `row`. `DoneInv` says that this is honest already: every position the
process resumed behind, has checkpointed, or has received and written is
recorded. `MainInv` ties its locals together, so that results lie in the
pending range; `TaskInv` says that no two workers have one position and none
has a position whose result is in; `LockInv` that the process with a session has
the lock, so that there is at most one: processes that lost theirs may still be
about, but commit nothing. The last two are what the sweep needs too: a worker's
process is in its pool, so if it has its session nobody else who has one is
between lock and scan. The lemma `StoreStep`
carries `BlobInv` over: every step of the pipeline is a step of the store or
leaves it alone.

For rows and blobs, `RowInv` adds that a put about to return has been counted in
`stored` or `found`, that a worker puts the message of its task, that a successful
result stands for a put that returned, and so does every row. That the store
keeps what puts returned is then all that is needed.

For the runs, `RunsInv` adds what a main process knows of the runs that are
committed: its own run is of its file and not ahead of `row`, every other run of
the file is complete, and what it has checkpointed past its start it has
received. From the first two a commit opens no second run; from the last the
low-water mark of a flush is never below the one before, which is the part of
`Ledger` that says a checkpoint never moves back. `RunsEffect` reduces every step
to one commit of one process's run or none, and `RunsByCommits` maps that to
`Ledger`'s `Commit`, with `NoSilentLoss` after the step as its honesty.

### The IMAP projection

For any messages, labels, accounts, unreadable blobs, jobs and sessions:

| Theorem of `ImapProofs` | States |
|---|---|
| `ProjectionTypes` | `TypeOK` |
| `UidsDenseAlways` | `UidsDense` |
| `UidsAscendAlways` | `UidsAscend` |
| `InboxByArrivalAlways` | `InboxByArrival` |
| `UidNextIsSafeAlways` | `UidNextIsSafe` |

What makes them hard is that a statement numbers what it saw when it began and
inserts later, when another job may have inserted. `JobsInv` says that the rows in a
job's hands carry on, without a gap, from a maximum the folder has *or had*
(`Continues`). If the maximum has moved, the job's first number is taken, or its rows
are none; so an insert that breaks no key goes on from the maximum of now
(`InsertContinues`), and from that come density, order and the bound on UIDNEXT
(`SessionsInv`: no session knows of a UID its folder does not have). `RankNumbers` is
the lemma about `row_number()`: ranks of a finite set in the order of arrival
are 1 to its size. In INBOX, `ByPlace` says that a UID *is* the place of its
message in the order of arrival.

### The walk and the login

For any mailboxes, dates and digests, page size, horizon, threshold, lockout and
number of clients, as invariants and action properties of `AllSpec`:

| Theorem of `WebProofs` | States |
|---|---|
| `WebTypes` | types of walk, throttle and session |
| `NothingSkippedAlways` | `NothingSkipped` |
| `PagesInOrderAlways` | `PagesInOrder` |
| `WalkSurvivesLoginAlways` | `WalkSurvivesLogin` |
| `FewGuessesAlways` | `FewGuesses` |

`ShownOrPending` is `NothingSkipped` on the way: whatever was there at the beginning
and is not of the far future has been shown or lies ahead of the cursor,
`Pending`, which counts the undated tail as ahead of any dated cursor.
`CursorBehindShown` is the converse, that nothing shown lies ahead, for
`PagesInOrder`. Both are conditional on what the run `walk_future` shows to go
wrong, and only on that. They rest on lemmas about the order: it is total and
transitive, and for dates within the horizon the predicate of a cursor at a
message selects what comes after it. `EntryTells` relates the throttle's entry to
the history of guesses: it has the age of the latest, counts that many, and a
guess it does not count is older than the lockout, because pruning took it.

### Framing and export

For files of any length, lines with any number of carets and any texts:

| Theorem of `ExportProofs` | States |
|---|---|
| `UnquoteOfRequote`, `RequoteOfUnquote` | quoting is undone by unquoting, always; the converse for bytes without a bare envelope line |
| `QuotingSurvives` | a message of a file, quoted again, has the lines it had there |
| `RecordAddsItsMessage` | a record appended to a file adds one message, its own, and leaves the others as they are |
| `ExportTypeCorrect` | `TypeOK` |
| `RoundTripAlways` | `RoundTrip` |
| `CountIsMessagesAlways` | `CountIsMessages` |
| `CutDamagesLastAlways` | `CutDamagesLast` |
| `ByteIdenticalAlways` | `ByteIdentical` |

The invariant `ExportInv` is that while the exporter writes, the file is empty or
ends with a newline, its messages are those written, and its starts are as many
as the count. `LastLineEnds`, that a message ends, takes the least element of a set.

`ByteIdentical` needs another, `CopyInv`: as long as no message was skipped, an
export in the source's order has copied the source, but for envelope lines, up to
a line where one of its messages starts or to its end, and the messages before
that line are as many as have been written (`CopiedTo`). `FramedMessage` says
which lines a message of a framed file is made of, for one that a separator ends
and for the last. If the exporter is not at a start when something is left to
do, it has written as many messages as there are starts, more than it chose;
when it returns with as many, none was skipped and it is at the end.

### Migrations, accounts and the check

For any number of runners, releases, blobs and directories:

| Theorem of `UpkeepProofs` | States |
|---|---|
| `UpkeepTypes` | `TypeOK` |
| `InOrderOnceAlways` | `InOrderOnce` |
| `EveryMessageHasAccountAlways` | `EveryMessageHasAccount` |
| `DamageIsReportedAlways` | `DamageIsReported` |
| `ReportIsExactAlways` | `ReportIsExact` |

`InOrderOnce` is not inductive: a runner acts on a list it read earlier. `ListInv`
says that this list is an interval that begins at most one above what is
recorded by now, so a script not recorded is the next one. `FoundInv` says that
an open transaction of the script of accounts has found every message, because
nothing is ingested before it commits. `CheckInv` follows the check from step to
step: what has been gone since it began is in no listing, what has been damaged
since is in every one and still to be hashed or already found.

`ExactInv` says query by query what the check has found in an archive that has
been quiet. That a mismatch of zero means one sighting each is a fact about sums:
with at least one sighting for every message (`SightingsOK`) the sum is the number
of messages if and only if each has one. `SumFunction` is recursive, and the
induction theorems of the library cannot be used here; `SumsExist` and `SumCounts`
go by the least counterexample instead.

### Pages and search

For any messages of any parts, any damage, any query, order, page size and cap, and
any number of hits:

| Theorem of `ReadingProofs` | States |
|---|---|
| `ReadingTypes` | types; a row is what `parse` made of its message |
| `ServesWhatWasRecordedAlways` | `ServesWhatWasRecorded` |
| `ShowsWhatParseSawAlways` | `ShowsWhatParseSaw` |
| `NoPageFailsAlways` | `NoPageFails` |
| `SearchMissesNothingAlways` | `SearchMissesNothing` |
| `HopsMendDates` | a row's date is plausible if a hop of its message had a plausible one |

For the pages, `PagesInv` says that a row has the attachments `parse` found and that
`parse` did not raise, and that a row stays. `PayloadsAreAttached` and
`HtmlPartsAreBodies` are the agreement of the loops; `ParsedOnceParsedAgain`
that a message in the archive raises in none of them. For the search, `WalkInv`
says of a steady walk that what has not been shown lies ahead (`Ahead`: its rank
is at least the next offset), which holds because ranks never fall: mail that
arrives is inserted into the order and takes nobody out (`RankGrows`). The last
page misses nothing because a rank is below the number of hits (`RankBelowTotal`),
and that is the count the link was drawn from.

### Sender profiles

For any addresses, mail, thresholds, and number of rebuilds and overrides:

| Theorem of `ProfilesProofs` | States |
|---|---|
| `ProfileTypes` | `TypeOK` |
| `OwnersWordStandsAlways` | `OwnersWordStands` |
| `VerdictsFromMailAlways` | `VerdictsFromMail` |

`DraftsSpoken` says that the rows a rebuild holds respect the owner's word already,
so that its commit cannot break it, and that it holds the rows of all senders it
has read by the time it sweeps: the rows it does not write were made by others.
What a row says of the owner's letters is tied to the mail by `Counted`: every count is
that of the mail its row was made from, for rows in the table and for those in a
rebuild's hands. It needs `HeldApart`, that no row is held twice: a row that is held
only because it was swept keeps the count its writer gave it. `AloneOK` says of a rebuild that overlaps no other that what it sees is a function
of the mail it read and the overrides; `SweepOnce` that making and sweeping the
table once more, from the same mail and the overrides now in it, changes nothing.

### Model-checked only

Liveness: `IngestEnds`, `AllRecordedAtLast`, `BackfillFinishes`, `WalkEnds`,
`SchemaGetsLatest`, `SearchEnds`. Fairness and ENABLED are out of reach of the
provers. What they lead to when they end is proved: `NoSilentLoss` for complete
runs, `NothingSkipped` and `SearchMissesNothing` for walks and searches at their
end, `InOrderOnce` for what is recorded.

## 6. Not modelled

* The Gmail API source (`ga/sources/`). Nothing calls it (README.md:365 of the
  repository), so neither what asks it for messages nor what an error of it leads
  to exists; the retry loop alone keeps no state between calls.
* A file that is exported again to the same path. Sightings are keyed by path and
  offset, and an open run is found by path, so what is ingested of the new file
  depends on byte offsets of both (`ga/ingest.py:265`, `507`); a model of it would
  say what the two lines say. A file that changes while it is read.
* Data conversions: addresses, labels, kept headers, charset repair and the search
  text of the parser, the query language of the search box, the filters of a
  mailbox page. Each is a function of its input without state; the models take
  its result as a constant (`Matches`, labels, `Mailboxes`).
* Memory: the queue of results is unbounded in the code and in the model.
* The lazily created connection pool of the web application, an optimisation
  whose failure is a 503, which `Reading` has.
* A broken connection whose session lives on at the server for a while: the lock is
  then held longer than its ingest, which delays the next one and endangers nothing.
* Mail that is taken away again: the runbook's way to start from scratch truncates
  the tables of messages and keeps `sender_profiles` (`docs/runbook.md:147`), whose
  rows of senders who are gone then stay. In `SenderProfiles` mail only grows.
* An ingest of an older release next to the migration to accounts: the compose file
  starts the new image only.
* Templates, HTML cleaning, statistics, counters and log lines: layout, and single
  queries.

## 7. What could follow

That a backfill which runs to its end has numbered all it found when it began: the
model keeps no history of that, and `BackfillFinishes` checks it together with
liveness. Measures that fall with every page and every batch, from which a
prover with fairness would get `WalkEnds`, `SearchEnds` and `IngestEnds`. A model of a
file exported again would be worth writing once the code has a rule for it.
