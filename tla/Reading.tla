------------------------------- MODULE Reading -------------------------------
(***************************************************************************)
(* Reading the archive: the pages of one message, which web/app.py makes   *)
(* from the rows and from the blob parsed anew, FETCH of the IMAP server,  *)
(* and the paged full-text search. Meanwhile mail arrives, blobs are lost  *)
(* or damaged, the database comes and goes, and future dates become near.  *)
(***************************************************************************)
EXTENDS MessageParse

CONSTANTS
  Message,    \* digests of messages
  Mailboxes,  \* the mail there may be: functions from Message to Raw
  Garbled,    \* what damage may make of a blob
  Matches,    \* the messages the query matches
  Score,      \* their ts_rank
  Digest,     \* their place in the order of digests
  Index,      \* attachment numbers a URL may ask for
  Asked,      \* page sizes a URL may ask for
  MaxLimit,   \* MAX_PAGE_LIMIT
  MaxOffset,  \* MAX_SEARCH_OFFSET
  Lost,       \* no blob
  NoRow,      \* no row of messages
  LastDay,    \* bound on the days that pass
  MaxDamage   \* bound on the blobs that come to harm

\* What the columns that are read hold.
MessageRow ==
  [date : Int \cup {Undated},
   attachments : SUBSET [index : Nat, name : Field, content : Content]]

ASSUME ReadingAssumption ==
  /\ Mailboxes \subseteq [Message -> Raw]
  /\ Garbled \subseteq Raw
  /\ Lost \notin Raw
  /\ NoRow \notin MessageRow
  /\ Matches \subseteq Message /\ IsFiniteSet(Message)
  /\ Score \in [Message -> Nat]
  /\ Digest \in [Message -> Nat] /\ \A m, n \in Message : Digest[m] = Digest[n] => m = n
  /\ Asked \subseteq Int /\ Index \subseteq Int
  /\ MaxLimit \in Nat \ {0} /\ MaxOffset \in Nat
  /\ LastDay \in Nat /\ MaxDamage \in Nat

VARIABLES
  mail,   \* the bytes of each message
  row,    \* rows of messages, with those of attachments
  blob,   \* the blob store
  dbUp,   \* whether the database answers
  now,    \* the day
  harm,   \* blobs harmed so far
  page,   \* the last response to the reader
  walk    \* a search, page by page

vars == <<mail, row, blob, dbUp, now, harm, page, walk>>

NoPage == [kind |-> "none"]
NoWalk == [pc |-> "none"]

Init ==
  /\ mail \in Mailboxes
  /\ row = [m \in Message |-> NoRow]
  /\ blob = [m \in Message |-> Lost]
  /\ dbUp = TRUE
  /\ now = 0
  /\ harm = 0
  /\ page = NoPage
  /\ walk = NoWalk

(***************************************************************************)
(* Around the reader                                                       *)
(***************************************************************************)

Hits == {m \in Matches : row[m] # NoRow}

\* An ingest of m, now or once more: a blob that is there is left as it is,
\* and so is a row. A message that parse raises on, or whose row is refused,
\* gets none. A new hit unsettles a search between its two statements.
Ingest(m) ==
  /\ dbUp
  /\ ~ParseRaises(mail[m])
  /\ blob' = [blob EXCEPT ![m] = IF @ = Lost THEN mail[m] ELSE @]
  /\ row' = IF row[m] = NoRow /\ Storable(mail[m])
            THEN [row EXCEPT ![m] = [date |-> InternalDate(mail[m], now),
                                     attachments |-> Attachments(mail[m])]]
            ELSE row
  /\ walk' = IF walk.pc = "rows" /\ Hits' # Hits THEN [walk EXCEPT !.steady = FALSE] ELSE walk
  /\ UNCHANGED <<mail, dbUp, now, harm, page>>

\* A blob is lost, or its bytes change.
Harm(m) ==
  /\ harm < MaxDamage
  /\ blob[m] # Lost
  /\ \E bytes \in Garbled \cup {Lost} : blob' = [blob EXCEPT ![m] = bytes]
  /\ harm' = harm + 1
  /\ UNCHANGED <<mail, row, dbUp, now, page, walk>>

\* The database goes: a search between its statements ends in a 503, and the
\* reader loads the page again.
DbDown ==
  /\ dbUp
  /\ dbUp' = FALSE
  /\ walk' = IF walk.pc = "rows" THEN [walk EXCEPT !.pc = "ask"] ELSE walk
  /\ UNCHANGED <<mail, row, blob, now, harm, page>>

DbBack ==
  /\ ~dbUp
  /\ dbUp' = TRUE
  /\ UNCHANGED <<mail, row, blob, now, harm, page, walk>>

\* internal_date > now() + interval '90 days', which a null date leaves open.
Place(m, day) ==
  IF row[m].date = Undated THEN 2 ELSE IF row[m].date > day + Horizon THEN 1 ELSE 0

\* A day passes. A search by date or rank is unsettled if a hit changes place.
Tick ==
  /\ now < LastDay
  /\ now' = now + 1
  /\ walk' = IF walk.pc \in {"ask", "rows"} /\ \E m \in Hits : Place(m, now) # Place(m, now')
             THEN [walk EXCEPT !.steady = @ /\ walk.sort = "date-asc"]
             ELSE walk
  /\ UNCHANGED <<mail, row, blob, dbUp, harm, page>>

(***************************************************************************)
(* The pages of a message                                                  *)
(***************************************************************************)

\* The reader gets a response about m: what blob it was made from, and whether
\* there was a row.
Respond(m, kind, status, index, body) ==
  /\ walk.pc \in {"none", "end"}
  /\ page' = [kind |-> kind, msg |-> m, status |-> status, index |-> index, body |-> body,
              held |-> blob[m], archived |-> row[m] # NoRow]
  /\ walk' = NoWalk
  /\ UNCHANGED <<mail, row, blob, dbUp, now, harm>>

\* message_detail: the row, and the html from the blob, which may be missing.
\* What a strict codec raises is a ValueError, and is caught.
HtmlShown(m) ==
  IF blob[m] = Lost THEN {} ELSE IF HtmlRaises(blob[m]) THEN {} ELSE ExtractHtml(blob[m])

MessagePage(m) ==
  \/ ~dbUp /\ Respond(m, "message", 503, 0, {})
  \/ dbUp /\ row[m] = NoRow /\ Respond(m, "message", 404, 0, {})
  \/ dbUp /\ row[m] # NoRow /\ Respond(m, "message", 200, 0, HtmlShown(m))

\* _safe_filename keeps what is outside Latin-1, and then the response cannot
\* encode its Content-Disposition.
HeaderRaises(part) == part.name = "wide"

\* message_attachment: the part that iter_attachment_payloads gives the index,
\* unless a name on the way to it raises, or the header that is to hold its own.
Attachment(m, i) ==
  \/ (blob[m] = Lost \/ i < 0) /\ Respond(m, "attachment", 404, i, Blank)
  \/ /\ blob[m] # Lost /\ i >= 0
     /\ \/ Stumbles(blob[m], i) /\ Respond(m, "attachment", 500, i, Blank)
        \/ /\ ~Stumbles(blob[m], i) /\ At(blob[m], i) = {}
           /\ Respond(m, "attachment", 404, i, Blank)
        \/ /\ ~Stumbles(blob[m], i)
           /\ \E k \in At(blob[m], i) :
                \/ /\ HeaderRaises(blob[m].parts[k])
                   /\ Respond(m, "attachment", 500, i, Blank)
                \/ /\ ~HeaderRaises(blob[m].parts[k])
                   /\ Respond(m, "attachment", 200, i, blob[m].parts[k].content)

\* raw_message and raw_message_view, which needs the database for decoration.
RawPage(m) ==
  \/ blob[m] = Lost /\ Respond(m, "raw", 404, 0, Lost)
  \/ blob[m] # Lost /\ Respond(m, "raw", 200, 0, blob[m])

\* load_content, for a message of a folder: an empty body beats no response.
Fetch(m) == row[m] # NoRow /\ Respond(m, "fetch", 200, 0, blob[m])

(***************************************************************************)
(* Search                                                                  *)
(***************************************************************************)

Sorts == {"date", "date-asc", "relevance"}

Day(m) == IF row[m].date = Undated THEN 0 ELSE row[m].date

NewerFirst(m, n) ==
  \/ Place(m, now) < Place(n, now)
  \/ Place(m, now) = Place(n, now) /\ Day(m) > Day(n)
  \/ Place(m, now) = Place(n, now) /\ Day(m) = Day(n) /\ Digest[m] > Digest[n]

OlderFirst(m, n) ==
  \/ row[m].date # Undated /\ row[n].date = Undated
  \/ (row[m].date = Undated <=> row[n].date = Undated) /\ Day(m) < Day(n)
  \/ (row[m].date = Undated <=> row[n].date = Undated) /\ Day(m) = Day(n) /\ Digest[m] < Digest[n]

\* order by
Precedes(sort, m, n) ==
  \/ sort = "date" /\ NewerFirst(m, n)
  \/ sort = "date-asc" /\ OlderFirst(m, n)
  \/ sort = "relevance" /\ Score[m] > Score[n]
  \/ sort = "relevance" /\ Score[m] = Score[n] /\ NewerFirst(m, n)

\* How many hits come before m.
Rank(sort, m) == Cardinality({n \in Hits : Precedes(sort, n, m)})

\* _page_limit
PageLimit(asked) ==
  IF asked < 1 THEN 1 ELSE IF asked > MaxLimit THEN MaxLimit ELSE asked

\* A search is begun. Start is what there is to find.
Search(sort, asked) ==
  /\ walk.pc \in {"none", "end"}
  /\ walk' = [pc |-> "ask", sort |-> sort, limit |-> PageLimit(asked), next |-> 0,
              total |-> 0, start |-> Hits, shown |-> {}, steady |-> TRUE]
  /\ page' = NoPage
  /\ UNCHANGED <<mail, row, blob, dbUp, now, harm>>

\* The offset of a page is bounded.
Offset == IF walk.next > MaxOffset THEN MaxOffset ELSE walk.next

\* The first statement counts. Without a hit there is no second one.
Count ==
  /\ walk.pc = "ask"
  /\ dbUp
  /\ walk' = [walk EXCEPT !.pc = IF Hits = {} THEN "end" ELSE "rows", !.total = Cardinality(Hits)]
  /\ UNCHANGED <<mail, row, blob, dbUp, now, harm, page>>

\* (Mutant: the last page is taken for full.)
MoreAfter(offset) == offset + 2 * walk.limit <= walk.total

\* (Mutant: and here it is a link to nothing, which is clamped to this page.)
MoreOrNothing(offset) == offset + walk.limit <= walk.total

\* Whether search.html has a link to older hits.
More(offset) == offset + walk.limit < walk.total

\* The second one selects a page of hits; the reader follows the link on it.
OnPage == {m \in Hits : Rank(walk.sort, m) \in Offset..(Offset + walk.limit - 1)}

Rows ==
  /\ walk.pc = "rows"
  /\ dbUp
  /\ walk' = [walk EXCEPT !.pc = IF More(Offset) THEN "ask" ELSE "end",
                          !.next = Offset + walk.limit,
                          !.shown = @ \cup OnPage]
  /\ UNCHANGED <<mail, row, blob, dbUp, now, harm, page>>

(***************************************************************************)
(* The specification                                                       *)
(***************************************************************************)

PageStep(m) == MessagePage(m) \/ RawPage(m) \/ Fetch(m) \/ \E i \in Index : Attachment(m, i)
SearchStep == (\E sort \in Sorts, asked \in Asked : Search(sort, asked)) \/ Count \/ Rows

Next ==
  \/ \E m \in Message : Ingest(m) \/ Harm(m) \/ PageStep(m)
  \/ SearchStep
  \/ DbDown \/ DbBack \/ Tick

Spec == Init /\ [][Next]_vars

\* The database comes back, and the reader of a search goes on.
FairSpec ==
  Spec /\ WF_vars(DbBack) /\ SF_vars(Count) /\ SF_vars(Rows)

(***************************************************************************)
(* Properties                                                              *)
(***************************************************************************)

\* The page shows a message as ingest saw it: its blob is intact and it was
\* not refused or failed.
Faithful == page # NoPage /\ page.archived /\ page.held = mail[page.msg]

\* The row of the attachment that was asked for.
Recorded == {a \in row[page.msg].attachments : a.index = page.index}

\* The attachment served for an index is the one whose row has that index, and
\* there is one for every row and for no other: two loops of parser.py number
\* them, years apart (parser.py:503). Only one whose recorded name has a
\* character outside Latin-1 is not served: asking for it ends in a 500.
ServesWhatWasRecorded ==
  Faithful /\ page.kind = "attachment" =>
    IF Recorded = {} THEN page.status = 404
    ELSE \E a \in Recorded :
           IF a.name = "wide" THEN page.status = 500
           ELSE page.status = 200 /\ page.body = a.content

\* The html shown is what parse would have stored: the same parts in the same
\* order, attachments left out (parser.py:476).
ShowsWhatParseSaw ==
  Faithful /\ page.kind = "message" /\ page.status = 200 => page.body = BodyHtml(mail[page.msg])

\* No page of a message that was archived fails while its bytes are intact, but
\* for attachments whose recorded name has a character outside Latin-1, and a
\* blob that is gone costs no more than what was in it.
NoPageFails ==
  page # NoPage /\ page.archived /\ page.held \in {mail[page.msg], Lost} =>
    /\ page.status = 500 => page.kind = "attachment" /\ \E a \in Recorded : a.name = "wide"
    /\ page.status = 404 => (page.held = Lost /\ page.kind = "raw") \/ page.kind = "attachment"

\* A search followed to its last page has shown every hit that was there when
\* it began, whatever arrived between the pages - unless a hit arrived between
\* the two statements of one page, or a date ceased to be implausible.
SearchMissesNothing == walk.pc = "end" /\ walk.steady => walk.start \subseteq walk.shown

\* It has a last page, unless there are more hits than MAX_SEARCH_OFFSET and a
\* page: then the link to older hits leads to one and the same page for ever.
SearchEnds ==
  walk.pc = "ask" /\ Cardinality(Matches) <= MaxOffset + walk.limit ~> walk.pc \in {"none", "end"}
=============================================================================
