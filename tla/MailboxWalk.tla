---------------------------- MODULE MailboxWalk ----------------------------
(***************************************************************************)
(* A reader goes through a mailbox page by page, following the links the   *)
(* index page offers, while an ingest adds messages: the keyset query of   *)
(* query.py and the cursor logic of web/app.py.                            *)
(*                                                                         *)
(* Dates and digests are numbers. A mailbox stands for the filter by label *)
(* and category, which is the same on every page of a walk.                *)
(***************************************************************************)
EXTENDS Naturals, FiniteSets

CONSTANTS
  Message,
  Date,      \* the dates messages have
  DateOf,    \* internal_date of each message, or Undated
  DigestOf,  \* raw_sha256 of each message
  Undated,   \* a missing or unreadable Date header
  Mailbox,   \* the mailboxes: sets of the messages that pass the filter
  DayOf,     \* the calendar day of a date
  EveryDay,  \* no restriction to a day
  Limit,     \* messages per page
  TopDigest, \* the highest digest there is
  Horizons   \* values of now() + 90 days, from 0 up: bounds how time passes

ASSUME WalkAssumption ==
  /\ Date \subseteq Nat
  /\ DateOf \in [Message -> Date \cup {Undated}]
  /\ DigestOf \in [Message -> 0..(TopDigest - 1)]
  /\ \A m, n \in Message : DigestOf[m] = DigestOf[n] => m = n
  /\ Mailbox \subseteq SUBSET Message
  /\ DayOf \in [Date -> Nat]
  /\ Undated \notin Nat /\ EveryDay \notin Nat
  /\ Limit \in Nat \ {0}
  /\ TopDigest \in Nat \ {0}
  /\ Horizons \in Nat

VARIABLES
  archive, \* messages stored
  horizon, \* now() + 90 days
  walk,    \* the walk: its mailbox, its day, the cursor of the next link
  page,    \* messages on the page in view
  seen,    \* messages on earlier pages
  initial, \* messages of the mailbox and day when the walk began
  far      \* those of them that were dated in the far future then

vars == <<archive, horizon, walk, page, seen, initial, far>>

\* Cursors: the first page; after a message with a date; in the undated tail;
\* no further page.
First      == [kind |-> "first", date |-> 0, digest |-> 0]
Dated(d, h) == [kind |-> "dated", date |-> d, digest |-> h]
NoDate(h)    == [kind |-> "tail", date |-> 0, digest |-> h]
End        == [kind |-> "end", date |-> 0, digest |-> 0]
Cursor     == [kind : {"first", "dated", "tail", "end"}, date : Nat, digest : 0..TopDigest]

TypeOK ==
  /\ archive \subseteq Message
  /\ horizon \in 0..Horizons
  /\ walk \in [box : Mailbox, day : Nat \cup {EveryDay}, next : Cursor]
  /\ page \subseteq archive /\ Cardinality(page) <= Limit
  /\ seen \subseteq archive
  /\ initial \subseteq archive /\ far \subseteq initial

Plausible(m) == DateOf[m] # Undated /\ DateOf[m] <= horizon
Implausible(m) == DateOf[m] # Undated /\ DateOf[m] > horizon

(***************************************************************************)
(* list_messages_keyset                                                    *)
(***************************************************************************)

\* order by (internal_date > now() + interval '90 days') asc,
\*          internal_date desc nulls last, raw_sha256 desc
Before(m, n) ==
  \/ Plausible(m) /\ ~Plausible(n)
  \/ Implausible(m) /\ DateOf[n] = Undated
  \/ /\ Plausible(m) <=> Plausible(n)
     /\ DateOf[m] # Undated /\ DateOf[n] # Undated
     /\ DateOf[m] > DateOf[n] \/ (DateOf[m] = DateOf[n] /\ DigestOf[m] > DigestOf[n])
  \/ DateOf[m] = Undated /\ DateOf[n] = Undated /\ DigestOf[m] > DigestOf[n]

\* (Mutants: messages of the cursor's date are cut off; or shown again.)
AfterByDate(c, m) ==
  CASE c.kind = "first" -> TRUE
    [] c.kind = "dated" -> DateOf[m] # Undated /\ DateOf[m] < c.date
    [] c.kind = "tail"  -> DateOf[m] = Undated /\ DigestOf[m] < c.digest

AfterOrAt(c, m) ==
  CASE c.kind = "first" -> TRUE
    [] c.kind = "dated" -> DateOf[m] # Undated /\ DateOf[m] <= c.date
    [] c.kind = "tail"  -> DateOf[m] = Undated /\ DigestOf[m] < c.digest

\* The predicate of the cursor. A comparison with a missing date is not true.
After(c, m) ==
  CASE c.kind = "first" -> TRUE
    [] c.kind = "dated" -> /\ DateOf[m] # Undated
                           /\ \/ DateOf[m] < c.date
                              \/ DateOf[m] = c.date /\ DigestOf[m] < c.digest
    [] c.kind = "tail"  -> DateOf[m] = Undated /\ DigestOf[m] < c.digest

OnDay(day, m) == day = EveryDay \/ (DateOf[m] # Undated /\ DayOf[DateOf[m]] = day)

\* Rows the query would return without a limit, and the first k of them.
Matching(box, day, c) == {m \in archive \cap box : OnDay(day, m) /\ After(c, m)}
Top(k, S) == {m \in S : Cardinality({n \in S : Before(n, m)}) < k}

(***************************************************************************)
(* index()                                                                 *)
(***************************************************************************)

\* (Mutant: the walk stops where the dated messages do, as before issue 15.)
NextWithoutTail(day, c, rows, msgs) ==
  IF Cardinality(rows) > Limit
  THEN LET last == CHOOSE m \in msgs : \A n \in msgs : n = m \/ Before(n, m) IN
       IF DateOf[last] = Undated THEN NoDate(DigestOf[last]) ELSE Dated(DateOf[last], DigestOf[last])
  ELSE End

\* (Mutant: the undated tail leads into itself.)
NextTailAgain(day, c, rows, msgs) ==
  IF Cardinality(rows) > Limit
  THEN LET last == CHOOSE m \in msgs : \A n \in msgs : n = m \/ Before(n, m) IN
       IF DateOf[last] = Undated THEN NoDate(DigestOf[last]) ELSE Dated(DateOf[last], DigestOf[last])
  ELSE IF c.kind # "first" /\ day = EveryDay THEN NoDate(TopDigest) ELSE End

\* next_cursor: after the last message when there are more; else into the
\* undated tail, if the walk was among dated messages of every day.
NextCursor(day, c, rows, msgs) ==
  IF Cardinality(rows) > Limit
  THEN LET last == CHOOSE m \in msgs : \A n \in msgs : n = m \/ Before(n, m) IN
       IF DateOf[last] = Undated THEN NoDate(DigestOf[last]) ELSE Dated(DateOf[last], DigestOf[last])
  ELSE IF c.kind = "dated" /\ day = EveryDay THEN NoDate(TopDigest) ELSE End

\* The page a request with the cursor c shows; one row more than it shows is
\* asked for, to know whether there is a further page.
Show(box, day, c) ==
  LET rows == Top(Limit + 1, Matching(box, day, c))
      msgs == Top(Limit, rows)
  IN
  /\ page' = msgs
  /\ walk' = [box |-> box, day |-> day, next |-> NextCursor(day, c, rows, msgs)]

\* The first page of a mailbox, on all days or on one of those its messages
\* have.
FirstPage(box, day) ==
  /\ Show(box, day, First)
  /\ seen' = {}
  /\ initial' = {m \in archive \cap box : OnDay(day, m)}
  /\ far' = {m \in initial' : Implausible(m)}
  /\ UNCHANGED <<archive, horizon>>

\* A mailbox is opened. (A walk that is given up for another one is the
\* beginning of a walk.)
Open(box, day) == walk.next = End /\ FirstPage(box, day)

\* The link to older messages is followed.
Older ==
  /\ walk.next # End
  /\ Show(walk.box, walk.day, walk.next)
  /\ seen' = seen \cup page
  /\ UNCHANGED <<archive, horizon, initial, far>>

(***************************************************************************)
(* What goes on meanwhile                                                  *)
(***************************************************************************)

\* An ingest commits a message.
Arrive(m) ==
  /\ m \notin archive
  /\ archive' = archive \cup {m}
  /\ UNCHANGED <<horizon, walk, page, seen, initial, far>>

\* Time passes, and a future date may become plausible.
Tick ==
  /\ horizon < Horizons
  /\ horizon' = horizon + 1
  /\ UNCHANGED <<archive, walk, page, seen, initial, far>>

Init ==
  /\ archive \in SUBSET Message
  /\ horizon \in 0..Horizons
  /\ walk \in [box : Mailbox, day : {EveryDay}, next : {End}]
  /\ page = {} /\ seen = {} /\ initial = {} /\ far = {}

Days == {EveryDay} \cup {DayOf[DateOf[m]] : m \in {x \in Message : DateOf[x] # Undated}}

Next ==
  \/ \E box \in Mailbox, day \in Days : Open(box, day)
  \/ Older
  \/ \E m \in Message : Arrive(m)
  \/ Tick

Spec == Init /\ [][Next]_vars

(***************************************************************************)
(* Properties                                                              *)
(***************************************************************************)

\* At the end of a walk everything that was there when it began, and was not
\* dated in the far future, has been shown, undated messages included and
\* whatever has been ingested meanwhile.
NothingSkipped == walk.next = End => initial \ far \subseteq seen \cup page

\* Pages follow each other in the order of the listing, so that nothing is
\* shown twice, as long as no message dated in the far future has come up.
PagesInOrder ==
  [][Older /\ far \cap seen' = {} => \A m \in page', n \in seen' : Before(n, m)]_vars

\* Every walk comes to its end.
WalkEnds == walk.next # End ~> walk.next = End

\* A message with an implausible date is still reached at the end of a walk.
ImplausibleReached == walk.next = End => far \subseteq seen \cup page
=============================================================================
