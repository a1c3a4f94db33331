---------------------------- MODULE ReadingProofs ----------------------------
(***************************************************************************)
(* What holds of the pages and of the search whatever the mail, the query, *)
(* the limits and the damage.                                              *)
(***************************************************************************)
EXTENDS Reading, FiniteSetTheorems, WellFoundedInduction, TLAPS

Walk ==
  [pc : {"ask", "rows", "end"}, sort : Sorts, limit : Nat \ {0}, next : Nat,
   total : Nat, start : SUBSET Message, shown : SUBSET Message, steady : BOOLEAN]

ReadingTypeOK ==
  /\ mail \in Mailboxes
  /\ row \in [Message -> MessageRow \cup {NoRow}]
  /\ blob \in [Message -> Raw \cup {Lost}]
  /\ now \in Nat
  /\ page # NoPage => page.msg \in Message
  /\ walk = NoWalk \/ walk \in Walk

(* A row has what parse made of the message, and it did not raise.           *)
RowInv ==
  \A m \in Message : row[m] # NoRow =>
    /\ row[m].attachments = Attachments(mail[m])
    /\ ~ParseRaises(mail[m])

(* A row that a page was made from stays.                                    *)
PageInv == page # NoPage /\ page.archived => row[page.msg] # NoRow

PagesInv == ReadingTypeOK /\ RowInv /\ PageInv

(* What has not been shown lies ahead, and the count of a page is good.      *)
Ahead == \A m \in walk.start \ walk.shown : walk.next <= Rank(walk.sort, m)

WalkInv ==
  walk # NoWalk =>
    /\ walk.start \subseteq Hits
    /\ walk.steady /\ walk.pc \in {"ask", "rows"} => Ahead
    /\ walk.steady /\ walk.pc = "rows" => walk.total = Cardinality(Hits)
    /\ walk.steady /\ walk.pc = "end" => walk.start \subseteq walk.shown

(***************************************************************************)
(* The loops of parser.py                                                  *)
(***************************************************************************)

(* extract_html_body walks over the parts whose html parse took.             *)
LEMMA HtmlPartsAreBodies ==
  ASSUME NEW raw
  PROVE  HtmlParts(raw) = Bodies(raw, "text/html")
BY DEF HtmlParts, Bodies

(* iter_attachment_payloads yields the parts that parse recorded.            *)
LEMMA PayloadsAreAttached ==
  ASSUME NEW raw
  PROVE  Payloads(raw) = Attached(raw)
BY DEF Payloads, Attached

(* What parse accepts raises in neither of the other loops.                  *)
LEMMA ParsedOnceParsedAgain ==
  ASSUME NEW raw, ~ParseRaises(raw)
  PROVE  /\ ~HtmlRaises(raw)
         /\ \A k \in Payloads(raw) : ~RaisesBy(raw, k)
         /\ ~\E k \in Payloads(raw) : RaisesBy(raw, k)
<1>1. ~HtmlRaises(raw)
  BY HtmlPartsAreBodies DEF HtmlRaises, ParseRaises
<1>2. \A k \in Payloads(raw) : ~RaisesBy(raw, k)
  BY PayloadsAreAttached DEF RaisesBy, ParseRaises
<1> QED BY <1>1, <1>2

(* So the html shown is the html parse would have stored.                    *)
LEMMA SameHtml ==
  ASSUME NEW raw
  PROVE  ExtractHtml(raw) = BodyHtml(raw)
BY HtmlPartsAreBodies DEF ExtractHtml, BodyHtml

(* The parts are numbered from 0.                                            *)
LEMMA NumbersAreNatural ==
  ASSUME NEW raw \in Raw, NEW K \in SUBSET (DOMAIN raw.parts), NEW k \in K
  PROVE  Number(K, k) \in Nat /\ raw.parts[k] \in Part
<1>1. raw.parts \in Seq(Part)
  BY DEF Raw
<1>2. DOMAIN raw.parts = 1 .. Len(raw.parts) /\ Len(raw.parts) \in Nat
  BY <1>1
<1>3. IsFiniteSet(DOMAIN raw.parts)
  BY <1>2, FS_Interval
<1>4. IsFiniteSet({j \in K : j < k})
  <2>1. {j \in K : j < k} \in SUBSET (DOMAIN raw.parts)
    OBVIOUS
  <2> QED BY <1>3, <2>1, FS_Subset
<1>5. raw.parts[k] \in Part
  BY <1>1, <1>2
<1> QED BY <1>4, <1>5, FS_CardinalityType DEF Number

(* What parse records of attachments has the type of their table.            *)
LEMMA AttachmentsType ==
  ASSUME NEW raw \in Raw
  PROVE  Attachments(raw) \in SUBSET [index : Nat, name : Field, content : Content]
<1> SUFFICES ASSUME NEW k \in Attached(raw)
    PROVE  [index |-> Number(Attached(raw), k), name |-> raw.parts[k].name,
            content |-> raw.parts[k].content] \in [index : Nat, name : Field, content : Content]
  BY DEF Attachments
<1>1. Attached(raw) \in SUBSET (DOMAIN raw.parts)
  BY DEF Attached
<1>2. Number(Attached(raw), k) \in Nat /\ raw.parts[k] \in Part
  BY <1>1, NumbersAreNatural
<1> QED BY <1>2 DEF Part

(***************************************************************************)
(* Dates                                                                   *)
(***************************************************************************)

(* There is a latest hop with a plausible date if there is any.              *)
LEMMA LatestHop ==
  ASSUME NEW raw \in Raw, NEW day \in Nat, Arrived(raw, day) # {}
  PROVE  \E i \in Arrived(raw, day) : \A j \in Arrived(raw, day) : i <= j
<1> DEFINE R == {ss \in Nat \X Nat : ss[1] < ss[2]}
<1>1. Arrived(raw, day) \subseteq Nat
  <2>1. raw.hops \in Seq(Int \cup {Undated})
    BY DEF Raw
  <2> QED BY <2>1 DEF Arrived
<1>2. \A x, y \in Nat : x < y => <<x, y>> \in R
  OBVIOUS
<1>3. PICK i \in Arrived(raw, day) : \A j \in Arrived(raw, day) : ~(<<j, i>> \in R)
  <2>1. IsWellFoundedOn(R, Nat)
    BY NatLessThanWellFounded, Zenon DEF OpToRel
  <2> HIDE DEF R
  <2> QED BY <2>1, <1>1, WFMin
<1> HIDE DEF R
<1>4. \A j \in Arrived(raw, day) : i <= j
  <2> SUFFICES ASSUME NEW j \in Arrived(raw, day) PROVE i <= j
    OBVIOUS
  <2>1. i \in Nat /\ j \in Nat /\ ~(j < i)
    BY <1>1, <1>2, <1>3
  <2> QED BY <2>1
<1> QED BY <1>4

(* A date that is implausible is kept only if no hop has a better one.       *)
LEMMA DateFromHop ==
  ASSUME NEW raw \in Raw, NEW day \in Nat
  PROVE  /\ InternalDate(raw, day) \in Int \cup {Undated}
         /\ Arrived(raw, day) # {} => Plausible(InternalDate(raw, day), day)
<1>0. raw.date \in Int \cup {Undated} /\ raw.hops \in Seq(Int \cup {Undated})
  BY DEF Raw
<1>1. CASE Plausible(raw.date, day) \/ Arrived(raw, day) = {}
  BY <1>0, <1>1 DEF InternalDate
<1>2. CASE ~(Plausible(raw.date, day) \/ Arrived(raw, day) = {})
  <2> DEFINE i == CHOOSE i \in Arrived(raw, day) : \A j \in Arrived(raw, day) : i <= j
  <2>1. i \in Arrived(raw, day)
    BY <1>2, LatestHop
  <2>2. i \in DOMAIN raw.hops /\ Plausible(raw.hops[i], day)
    BY <2>1 DEF Arrived
  <2>3. InternalDate(raw, day) = raw.hops[i]
    BY <1>2 DEF InternalDate
  <2>4. Plausible(InternalDate(raw, day), day)
    BY <2>2, <2>3
  <2> QED BY <2>4 DEF Plausible
<1> QED BY <1>1, <1>2

(***************************************************************************)
(* The order of hits                                                       *)
(***************************************************************************)

(* There are finitely many hits.                                             *)
LEMMA HitsFinite == IsFiniteSet(Hits) /\ Cardinality(Hits) \in Nat /\ Hits \in SUBSET Message
<1>1. Hits \in SUBSET Message
  BY ReadingAssumption DEF Hits
<1> QED BY <1>1, ReadingAssumption, FS_Subset, FS_CardinalityType

(* A rank is a natural number, at most the number of hits.                   *)
LEMMA RankType ==
  ASSUME NEW sort, NEW m
  PROVE  Rank(sort, m) \in Nat /\ Rank(sort, m) <= Cardinality(Hits)
<1>1. {n \in Hits : Precedes(sort, n, m)} \in SUBSET Hits
  OBVIOUS
<1> QED BY <1>1, HitsFinite, FS_Subset, FS_CardinalityType DEF Rank

(* No hit comes before itself.                                               *)
LEMMA NotBeforeItself ==
  ASSUME ReadingTypeOK, NEW sort \in Sorts, NEW m \in Hits
  PROVE  ~Precedes(sort, m, m)
<1>1. m \in Message /\ row[m] \in MessageRow
  BY ReadingAssumption DEF Hits, ReadingTypeOK
<1>2. Day(m) \in Int
  BY <1>1 DEF Day, MessageRow
<1>3. Place(m, now) \in Int
  BY DEF Place
<1>4. Score[m] \in Int /\ Digest[m] \in Int
  BY <1>1, ReadingAssumption
<1>5. ~NewerFirst(m, m) /\ ~OlderFirst(m, m)
  BY <1>2, <1>3, <1>4 DEF NewerFirst, OlderFirst
<1> QED BY <1>4, <1>5 DEF Precedes, Sorts

(* So it comes at an offset below the total.                                 *)
LEMMA RankBelowTotal ==
  ASSUME ReadingTypeOK, NEW sort \in Sorts, NEW m \in Hits
  PROVE  Rank(sort, m) < Cardinality(Hits)
<1> DEFINE Before == {n \in Hits : Precedes(sort, n, m)}
<1>1. Before \in SUBSET Hits /\ Before # Hits
  BY NotBeforeItself
<1>2. Cardinality(Before) <= Cardinality(Hits) /\ Cardinality(Before) # Cardinality(Hits)
  BY <1>1, HitsFinite, FS_Subset
<1>3. Rank(sort, m) = Cardinality(Before)
  BY DEF Rank
<1> QED BY <1>2, <1>3, HitsFinite, RankType

(* Mail that arrives pushes a hit back, never forward.                       *)
LEMMA RankGrows ==
  ASSUME NEW sort \in Sorts, NEW m \in Hits,
         \A n \in Hits : n \in Hits' /\ row'[n] = row[n],
         sort = "date-asc" \/ \A n \in Hits : Place(n, now)' = Place(n, now)
  PROVE  Rank(sort, m)' \in Nat /\ Rank(sort, m) <= Rank(sort, m)'
<1>1. \A n \in Hits : Precedes(sort, n, m)' <=> Precedes(sort, n, m)
  <2> SUFFICES ASSUME NEW n \in Hits PROVE Precedes(sort, n, m)' <=> Precedes(sort, n, m)
    OBVIOUS
  <2>1. Day(n)' = Day(n) /\ Day(m)' = Day(m)
    BY DEF Day
  <2>2. OlderFirst(n, m)' <=> OlderFirst(n, m)
    BY <2>1 DEF OlderFirst
  <2>3. CASE sort = "date-asc"
    BY <2>2, <2>3 DEF Precedes
  <2>4. CASE \A p \in Hits : Place(p, now)' = Place(p, now)
    <3>1. NewerFirst(n, m)' <=> NewerFirst(n, m)
      BY <2>1, <2>4 DEF NewerFirst
    <3> QED BY <2>2, <3>1 DEF Precedes, Sorts
  <2> QED BY <2>3, <2>4
<1>2. {n \in Hits : Precedes(sort, n, m)} \subseteq {n \in Hits' : Precedes(sort, n, m)'}
  BY <1>1
<1>3. IsFiniteSet({n \in Hits' : Precedes(sort, n, m)'})
  <2>1. Hits' \subseteq Message
    BY ReadingAssumption DEF Hits
  <2> QED BY <2>1, ReadingAssumption, FS_Subset
<1>4. Rank(sort, m)' = Cardinality({n \in Hits' : Precedes(sort, n, m)'})
  BY DEF Rank
<1> QED BY <1>2, <1>3, <1>4, FS_Subset, FS_CardinalityType DEF Rank

(***************************************************************************)
(* The invariant of the pages                                              *)
(***************************************************************************)

(* The invariant of the pages holds at first.                                *)
LEMMA InitPagesInv == Init => PagesInv
BY ReadingAssumption DEF Init, PagesInv, ReadingTypeOK, RowInv, PageInv, NoPage, NoWalk

(* An ingest leaves the rows there are, and makes new ones as parse has it.  *)
LEMMA IngestKeepsRows ==
  ASSUME PagesInv, NEW m \in Message, Ingest(m)
  PROVE  /\ row' \in [Message -> MessageRow \cup {NoRow}]
         /\ RowInv'
         /\ \A n \in Message : row[n] # NoRow => row'[n] = row[n]
<1> USE DEF PagesInv, ReadingTypeOK
<1>1. mail' = mail /\ mail[m] \in Raw /\ ~ParseRaises(mail[m])
  BY ReadingAssumption DEF Ingest
<1> DEFINE new == [date |-> InternalDate(mail[m], now), attachments |-> Attachments(mail[m])]
<1>2. new \in MessageRow
  <2>2. Attachments(mail[m]) \in SUBSET [index : Nat, name : Field, content : Content]
    BY <1>1, AttachmentsType
  <2>3. InternalDate(mail[m], now) \in Int \cup {Undated}
    BY <1>1, DateFromHop
  <2> QED BY <2>2, <2>3 DEF MessageRow
<1>3. CASE row[m] = NoRow /\ Storable(mail[m])
  <2>1. row' = [row EXCEPT ![m] = new]
    BY <1>3 DEF Ingest
  <2>2. new.attachments = Attachments(mail[m])
    OBVIOUS
  <2> HIDE DEF new
  <2>3. row' \in [Message -> MessageRow \cup {NoRow}]
    BY <1>2, <2>1
  <2>4. RowInv'
    <3> SUFFICES ASSUME NEW n \in Message, row'[n] # NoRow
                 PROVE  row'[n].attachments = Attachments(mail[n]) /\ ~ParseRaises(mail[n])
      BY <1>1 DEF RowInv
    <3>1. CASE n = m
      BY <1>1, <2>1, <2>2, <3>1
    <3>2. CASE n # m
      BY <2>1, <3>2 DEF RowInv
    <3> QED BY <3>1, <3>2
  <2>5. \A n \in Message : row[n] # NoRow => row'[n] = row[n]
    BY <1>3, <2>1
  <2> QED BY <2>3, <2>4, <2>5
<1>4. CASE ~(row[m] = NoRow /\ Storable(mail[m]))
  <2>1. row' = row
    BY <1>4 DEF Ingest
  <2> QED BY <1>1, <2>1 DEF RowInv
<1> QED BY <1>3, <1>4

(* A step of the search keeps the types of the walk.                         *)
LEMMA WalkType ==
  ASSUME ReadingTypeOK,
         \/ \E m \in Message : Ingest(m)
         \/ DbDown \/ Tick \/ SearchStep
  PROVE  walk' = NoWalk \/ walk' \in Walk
<1> USE DEF ReadingTypeOK, Walk, NoWalk
<1>0. walk.pc # "none" => walk \in Walk
  OBVIOUS
<1>1. CASE \E m \in Message : Ingest(m)
  <2>1. walk' = walk \/ (walk.pc = "rows" /\ walk' = [walk EXCEPT !.steady = FALSE])
    BY <1>1 DEF Ingest
  <2> QED BY <1>0, <2>1
<1>2. CASE DbDown
  <2>1. walk' = walk \/ (walk.pc = "rows" /\ walk' = [walk EXCEPT !.pc = "ask"])
    BY <1>2 DEF DbDown
  <2> QED BY <1>0, <2>1
<1>3. CASE Tick
  <2>1. \/ walk' = walk
        \/ /\ walk.pc \in {"ask", "rows"}
           /\ walk' = [walk EXCEPT !.steady = @ /\ walk.sort = "date-asc"]
    BY <1>3 DEF Tick
  <2>2. CASE walk' = walk
    BY <2>2
  <2>3. CASE /\ walk.pc \in {"ask", "rows"}
             /\ walk' = [walk EXCEPT !.steady = @ /\ walk.sort = "date-asc"]
    <3>1. walk \in Walk /\ (walk.steady /\ walk.sort = "date-asc") \in BOOLEAN
      BY <1>0, <2>3
    <3> QED BY <2>3, <3>1
  <2> QED BY <2>1, <2>2, <2>3
<1>4. CASE \E sort \in Sorts, asked \in Asked : Search(sort, asked)
  <2>1. PICK sort \in Sorts, asked \in Asked : Search(sort, asked)
    BY <1>4
  <2>2. PageLimit(asked) \in Nat \ {0}
    <3>1. asked \in Int /\ MaxLimit \in Nat /\ MaxLimit # 0
      BY ReadingAssumption
    <3> QED BY <3>1 DEF PageLimit
  <2> QED BY <2>1, <2>2, HitsFinite DEF Search
<1>5. CASE Count
  <2>1. walk \in Walk
    BY <1>0, <1>5 DEF Count
  <2>2. Cardinality(Hits) \in Nat
    BY HitsFinite
  <2>3. \/ walk' = [walk EXCEPT !.pc = "end", !.total = Cardinality(Hits)]
        \/ walk' = [walk EXCEPT !.pc = "rows", !.total = Cardinality(Hits)]
    BY <1>5 DEF Count
  <2>4. CASE walk' = [walk EXCEPT !.pc = "end", !.total = Cardinality(Hits)]
    BY <2>1, <2>2, <2>4
  <2>5. CASE walk' = [walk EXCEPT !.pc = "rows", !.total = Cardinality(Hits)]
    BY <2>1, <2>2, <2>5
  <2> QED BY <2>3, <2>4, <2>5
<1>6. CASE Rows
  <2>1. walk \in Walk
    BY <1>0, <1>6 DEF Rows
  <2>2. Offset \in Nat /\ Offset + walk.limit \in Nat
    BY <2>1, ReadingAssumption DEF Offset
  <2> DEFINE pc == IF More(Offset) THEN "ask" ELSE "end"
  <2>3. OnPage \in SUBSET Message
    BY HitsFinite DEF OnPage
  <2>4. walk' = [walk EXCEPT !.pc = pc, !.next = Offset + walk.limit, !.shown = @ \cup OnPage]
    BY <1>6 DEF Rows
  <2>5. pc \in {"ask", "rows", "end"}
    OBVIOUS
  <2> HIDE DEF pc
  <2> QED BY <2>1, <2>2, <2>3, <2>4, <2>5
<1> QED BY <1>1, <1>2, <1>3, <1>4, <1>5, <1>6 DEF SearchStep

(* A response is about a message, and made from what there is.               *)
LEMMA RespondKeepsPagesInv ==
  ASSUME PagesInv, NEW m \in Message, NEW kind, NEW status, NEW index, NEW body,
         Respond(m, kind, status, index, body)
  PROVE  PagesInv'
<1>1. page'.msg = m /\ page'.archived = (row[m] # NoRow)
  BY DEF Respond
<1>2. walk' = NoWalk /\ UNCHANGED <<mail, row, blob, dbUp, now, harm>>
  BY DEF Respond
<1> QED BY <1>1, <1>2 DEF PagesInv, ReadingTypeOK, RowInv, PageInv

(* Every page is a response.                                                 *)
LEMMA PageStepResponds ==
  ASSUME NEW m, PageStep(m)
  PROVE  \E kind, status, index, body : Respond(m, kind, status, index, body)
<1>1. CASE MessagePage(m)
  BY <1>1, ZenonT(60) DEF MessagePage
<1>2. CASE RawPage(m)
  BY <1>2, ZenonT(60) DEF RawPage
<1>3. CASE Fetch(m)
  BY <1>3, ZenonT(60) DEF Fetch
<1>4. ASSUME NEW i \in Index, Attachment(m, i)
      PROVE  \E kind, status, index, body : Respond(m, kind, status, index, body)
  BY <1>4, ZenonT(60) DEF Attachment
<1> QED BY <1>1, <1>2, <1>3, <1>4 DEF PageStep

(* Every step keeps the invariant of the pages.                              *)
LEMMA NextPagesInv == PagesInv /\ [Next]_vars => PagesInv'
<1> SUFFICES ASSUME PagesInv, [Next]_vars PROVE PagesInv'
  OBVIOUS
<1>1. ASSUME NEW m \in Message, Ingest(m) PROVE PagesInv'
  <2>1. row' \in [Message -> MessageRow \cup {NoRow}] /\ RowInv'
    BY <1>1, IngestKeepsRows
  <2>2. blob' \in [Message -> Raw \cup {Lost}]
    BY <1>1, ReadingAssumption DEF Ingest, PagesInv, ReadingTypeOK
  <2>3. PageInv'
    BY <1>1, IngestKeepsRows DEF Ingest, PageInv, PagesInv, ReadingTypeOK
  <2>4. walk' = NoWalk \/ walk' \in Walk
    BY <1>1, WalkType DEF PagesInv
  <2> QED BY <1>1, <2>1, <2>2, <2>3, <2>4 DEF Ingest, PagesInv, ReadingTypeOK
<1>2. ASSUME NEW m \in Message, Harm(m) PROVE PagesInv'
  <2>1. PICK bytes \in Garbled \cup {Lost} : blob' = [blob EXCEPT ![m] = bytes]
    BY <1>2 DEF Harm
  <2>2. blob' \in [Message -> Raw \cup {Lost}]
    BY <2>1, ReadingAssumption DEF PagesInv, ReadingTypeOK
  <2> QED BY <1>2, <2>2 DEF Harm, PagesInv, ReadingTypeOK, RowInv, PageInv
<1>3. ASSUME NEW m \in Message, PageStep(m) PROVE PagesInv'
  BY <1>3, PageStepResponds, RespondKeepsPagesInv
<1>4. CASE SearchStep
  <2>1. walk' = NoWalk \/ walk' \in Walk
    BY <1>4, WalkType DEF PagesInv
  <2>2. UNCHANGED <<mail, row, blob, dbUp, now, harm>> /\ (page' = page \/ page' = NoPage)
    BY <1>4 DEF SearchStep, Search, Count, Rows
  <2> QED BY <2>1, <2>2 DEF PagesInv, ReadingTypeOK, RowInv, PageInv
<1>5. CASE DbDown \/ Tick
  <2>1. walk' = NoWalk \/ walk' \in Walk
    BY <1>5, WalkType DEF PagesInv
  <2>2. UNCHANGED <<mail, row, blob, page>> /\ now' \in Nat
    BY <1>5 DEF DbDown, Tick, PagesInv, ReadingTypeOK
  <2> QED BY <2>1, <2>2 DEF PagesInv, ReadingTypeOK, RowInv, PageInv
<1>6. CASE DbBack \/ UNCHANGED vars
  BY <1>6 DEF DbBack, vars, PagesInv, ReadingTypeOK, RowInv, PageInv
<1> QED BY <1>1, <1>2, <1>3, <1>4, <1>5, <1>6 DEF Next

(* The state is well formed, and a row is what parse made of its message     *)
(* when it was ingested, whatever happens to its blob afterwards.            *)
THEOREM ReadingTypes == Spec => []PagesInv
<1>1. PagesInv /\ [Next]_vars => PagesInv'
  BY NextPagesInv
<1> QED BY <1>1, InitPagesInv, PTL DEF Spec

(***************************************************************************)
(* The pages                                                               *)
(***************************************************************************)

PagesRight == ServesWhatWasRecorded /\ ShowsWhatParseSaw /\ NoPageFails

(* An attachment of an intact message, by its number.                        *)
LEMMA NumberedAsRecorded ==
  ASSUME PagesInv, NEW m \in Message, NEW i, row[m] # NoRow
  PROVE  /\ \A a \in row[m].attachments : a.index = i => At(mail[m], i) # {}
         /\ \A k \in At(mail[m], i) :
              [index |-> i, name |-> mail[m].parts[k].name, content |-> mail[m].parts[k].content]
                \in row[m].attachments
<1> DEFINE raw == mail[m]
           at(k) == Number(Attached(raw), k)
<1>1. row[m].attachments =
        {[index |-> at(k), name |-> raw.parts[k].name, content |-> raw.parts[k].content] :
           k \in Attached(raw)}
  BY DEF PagesInv, RowInv, Attachments
<1>2. At(raw, i) = {k \in Attached(raw) : at(k) = i}
  BY PayloadsAreAttached DEF At
<1> HIDE DEF at, raw
<1>3. ASSUME NEW a \in row[m].attachments, a.index = i PROVE At(raw, i) # {}
  <2>1. PICK k \in Attached(raw) :
          a = [index |-> at(k), name |-> raw.parts[k].name, content |-> raw.parts[k].content]
    BY <1>1
  <2> QED BY <1>2, <1>3, <2>1
<1>4. ASSUME NEW k \in At(raw, i)
      PROVE  [index |-> i, name |-> raw.parts[k].name, content |-> raw.parts[k].content]
               \in row[m].attachments
  BY <1>1, <1>2
<1> QED BY <1>3, <1>4 DEF raw

(* No attachment has a negative number.                                      *)
LEMMA NumbersFromZero ==
  ASSUME NEW raw \in Raw, NEW i \in Int, i < 0
  PROVE  At(raw, i) = {}
<1>1. Payloads(raw) \in SUBSET (DOMAIN raw.parts)
  BY DEF Payloads
<1>2. \A k \in Payloads(raw) : Number(Payloads(raw), k) \in Nat
  BY <1>1, NumbersAreNatural
<1>3. ASSUME NEW k \in At(raw, i) PROVE FALSE
  <2>1. k \in Payloads(raw) /\ Number(Payloads(raw), k) = i
    BY DEF At
  <2> QED BY <1>2, <2>1
<1> QED BY <1>3

(* What the page of an attachment is to say, given the rows of its message.  *)
AnswersFrom(rows, i, status, body) ==
  IF {a \in rows : a.index = i} = {} THEN status = 404
  ELSE \E a \in {a \in rows : a.index = i} :
         IF a.name = "wide" THEN status = 500 ELSE status = 200 /\ body = a.content

(* message_attachment answers for an intact message by its rows.             *)
LEMMA AttachmentByNumber ==
  ASSUME PagesInv, NEW m \in Message, NEW i \in Index, Attachment(m, i),
         row[m] # NoRow, blob[m] = mail[m]
  PROVE  /\ page'.status = 500 => \E a \in {a \in row[m].attachments : a.index = i} : a.name = "wide"
         /\ AnswersFrom(row[m].attachments, i, page'.status, page'.body)
<1>1. mail[m] \in Raw /\ blob[m] # Lost /\ ~ParseRaises(mail[m])
  BY ReadingAssumption DEF PagesInv, ReadingTypeOK, RowInv
<1>2. ~Stumbles(mail[m], i)
  <2>1. \A k \in Payloads(mail[m]) : ~RaisesBy(mail[m], k)
    BY <1>1, ParsedOnceParsedAgain
  <2>2. At(mail[m], i) \subseteq Payloads(mail[m])
    BY DEF At
  <2> QED BY <2>1, <2>2 DEF Stumbles
<1>3. i < 0 => At(mail[m], i) = {}
  BY <1>1, NumbersFromZero, ReadingAssumption
<1>4. \/ At(mail[m], i) = {} /\ Respond(m, "attachment", 404, i, Blank)
      \/ \E k \in At(mail[m], i) :
           \/ mail[m].parts[k].name = "wide" /\ Respond(m, "attachment", 500, i, Blank)
           \/ /\ mail[m].parts[k].name # "wide"
              /\ Respond(m, "attachment", 200, i, mail[m].parts[k].content)
  BY <1>1, <1>2, <1>3 DEF Attachment, HeaderRaises
<1>5. CASE At(mail[m], i) = {} /\ Respond(m, "attachment", 404, i, Blank)
  BY <1>5, NumberedAsRecorded DEF Respond, AnswersFrom
<1>6. ASSUME NEW k \in At(mail[m], i),
             \/ mail[m].parts[k].name = "wide" /\ Respond(m, "attachment", 500, i, Blank)
             \/ /\ mail[m].parts[k].name # "wide"
                /\ Respond(m, "attachment", 200, i, mail[m].parts[k].content)
      PROVE  /\ page'.status = 500 => \E a \in {a \in row[m].attachments : a.index = i} : a.name = "wide"
             /\ AnswersFrom(row[m].attachments, i, page'.status, page'.body)
  <2> DEFINE a == [index |-> i, name |-> mail[m].parts[k].name, content |-> mail[m].parts[k].content]
  <2>1. a \in {b \in row[m].attachments : b.index = i}
    BY NumberedAsRecorded
  <2>2. IF a.name = "wide" THEN page'.status = 500 ELSE page'.status = 200 /\ page'.body = a.content
    BY <1>6 DEF Respond
  <2> HIDE DEF a
  <2> QED BY <2>1, <2>2 DEF AnswersFrom
<1> QED BY <1>4, <1>5, <1>6

(* What a response says, and that it changes no row.                         *)
LEMMA RespondSays ==
  ASSUME NEW m, NEW kind, NEW status, NEW index, NEW body,
         Respond(m, kind, status, index, body)
  PROVE  /\ page'.kind = kind /\ page'.msg = m /\ page'.held = blob[m]
         /\ page'.status = status /\ page'.index = index /\ page'.body = body
         /\ page'.archived => row[m] # NoRow
         /\ mail' = mail /\ row' = row
<1>1. page'.archived = (row[m] # NoRow)
  BY DEF Respond
<1>2. page'.archived => row[m] # NoRow
  BY <1>1
<1> QED BY <1>2 DEF Respond

(* message_detail is right.                                                  *)
LEMMA MessagePageRight ==
  ASSUME PagesInv, NEW m \in Message, MessagePage(m)
  PROVE  PagesRight'
<1>1. page'.kind = "message" /\ page'.msg = m /\ page'.held = blob[m]
      /\ (page'.archived => row[m] # NoRow) /\ mail' = mail
  <2>1. \E status, body : Respond(m, "message", status, 0, body)
    BY Zenon DEF MessagePage
  <2> QED BY <2>1, RespondSays
<1>2. page'.status \in {200, 404, 503} /\ (page'.status = 404 => row[m] = NoRow)
  BY DEF MessagePage, Respond
<1>3. page'.status = 200 => row[m] # NoRow /\ page'.body = HtmlShown(m)
  BY DEF MessagePage, Respond
<1>4. row[m] # NoRow /\ blob[m] = mail[m] => HtmlShown(m) = BodyHtml(mail[m])
  <2> SUFFICES ASSUME row[m] # NoRow, blob[m] = mail[m] PROVE HtmlShown(m) = BodyHtml(mail[m])
    OBVIOUS
  <2>1. mail[m] \in Raw /\ mail[m] # Lost /\ ~ParseRaises(mail[m])
    BY ReadingAssumption DEF PagesInv, ReadingTypeOK, RowInv
  <2> QED BY <2>1, ParsedOnceParsedAgain, SameHtml DEF HtmlShown
<1>5. ServesWhatWasRecorded'
  BY <1>1 DEF ServesWhatWasRecorded
<1>6. ShowsWhatParseSaw'
  <2> SUFFICES ASSUME Faithful', page'.status = 200 PROVE page'.body = BodyHtml(mail[m])
    BY <1>1 DEF ShowsWhatParseSaw
  <2>1. row[m] # NoRow /\ blob[m] = mail[m]
    BY <1>1 DEF Faithful
  <2> QED BY <1>3, <1>4, <2>1
<1>7. NoPageFails'
  BY <1>1, <1>2 DEF NoPageFails
<1> QED BY <1>5, <1>6, <1>7 DEF PagesRight

(* message_attachment is right.                                              *)
LEMMA AttachmentRight ==
  ASSUME PagesInv, NEW m \in Message, NEW i \in Index, Attachment(m, i)
  PROVE  PagesRight'
<1>1. page'.kind = "attachment" /\ page'.msg = m /\ page'.index = i /\ page'.held = blob[m]
      /\ (page'.archived => row[m] # NoRow) /\ mail' = mail /\ row' = row
  <2>1. \E status, body : Respond(m, "attachment", status, i, body)
    BY Zenon DEF Attachment
  <2> QED BY <2>1, RespondSays
<1>2. blob[m] = Lost => page'.status = 404
  BY DEF Attachment, Respond
<1>3. CASE row[m] # NoRow /\ blob[m] = mail[m]
  <2>1. /\ page'.status = 500 => \E a \in Recorded' : a.name = "wide"
        /\ AnswersFrom(row[m].attachments, i, page'.status, page'.body)
        /\ Recorded' = {a \in row[m].attachments : a.index = i}
    BY <1>1, <1>3, AttachmentByNumber DEF Recorded
  <2>2. ServesWhatWasRecorded'
    BY <2>1 DEF ServesWhatWasRecorded, AnswersFrom
  <2>3. ShowsWhatParseSaw' /\ NoPageFails'
    BY <1>1, <2>1 DEF ShowsWhatParseSaw, NoPageFails
  <2> QED BY <2>2, <2>3 DEF PagesRight
<1>4. CASE ~(row[m] # NoRow /\ blob[m] = mail[m])
  <2>1. ~Faithful'
    BY <1>1, <1>4 DEF Faithful
  <2>2. NoPageFails'
    BY <1>1, <1>2, <1>4 DEF NoPageFails
  <2> QED BY <2>1, <2>2 DEF PagesRight, ServesWhatWasRecorded, ShowsWhatParseSaw
<1> QED BY <1>3, <1>4

(* raw_message and FETCH are right.                                          *)
LEMMA RawPageRight ==
  ASSUME PagesInv, NEW m \in Message, RawPage(m) \/ Fetch(m)
  PROVE  PagesRight'
<1>1. /\ page'.kind \in {"raw", "fetch"} /\ page'.msg = m /\ page'.held = blob[m]
      /\ page'.status \in {200, 404} /\ mail' = mail
      /\ page'.status = 404 => blob[m] = Lost /\ page'.kind = "raw"
  BY DEF RawPage, Fetch, Respond
<1>2. mail[m] # Lost
  BY ReadingAssumption DEF PagesInv, ReadingTypeOK
<1> QED BY <1>1, <1>2
        DEF PagesRight, ServesWhatWasRecorded, ShowsWhatParseSaw, NoPageFails, Faithful

(* A page that was right stays so: its row does not change.                  *)
LEMMA PageStays ==
  ASSUME PagesInv, PagesRight, page' = page, mail' = mail,
         \A n \in Message : row[n] # NoRow => row'[n] = row[n]
  PROVE  PagesRight'
<1>1. page # NoPage /\ page.archived => row'[page.msg] = row[page.msg]
  BY DEF PagesInv, ReadingTypeOK, PageInv
<1> QED BY <1>1
        DEF PagesRight, ServesWhatWasRecorded, ShowsWhatParseSaw, NoPageFails, Faithful, Recorded

(* Every step leaves the page right.                                         *)
LEMMA NextPagesRight == PagesInv /\ PagesRight /\ [Next]_vars => PagesRight'
<1> SUFFICES ASSUME PagesInv, PagesRight, [Next]_vars PROVE PagesRight'
  OBVIOUS
<1>1. ASSUME NEW m \in Message, Ingest(m) PROVE PagesRight'
  <2>1. \A n \in Message : row[n] # NoRow => row'[n] = row[n]
    BY <1>1, IngestKeepsRows
  <2>2. page' = page /\ mail' = mail
    BY <1>1 DEF Ingest
  <2> QED BY <2>1, <2>2, PageStays
<1>2. ASSUME NEW m \in Message, PageStep(m) PROVE PagesRight'
  BY <1>2, MessagePageRight, AttachmentRight, RawPageRight DEF PageStep
<1>3. CASE SearchStep
  <2>1. CASE page' = NoPage
    BY <2>1 DEF PagesRight, ServesWhatWasRecorded, ShowsWhatParseSaw, NoPageFails, Faithful
  <2>2. CASE page' = page /\ mail' = mail /\ row' = row
    BY <2>2, PageStays
  <2> QED BY <1>3, <2>1, <2>2 DEF SearchStep, Search, Count, Rows
<1>4. ASSUME NEW m \in Message, Harm(m) PROVE PagesRight'
  BY <1>4, PageStays DEF Harm
<1>5. CASE DbDown \/ DbBack \/ Tick \/ UNCHANGED vars
  BY <1>5, PageStays DEF DbDown, DbBack, Tick, vars
<1> QED BY <1>1, <1>2, <1>3, <1>4, <1>5 DEF Next

(* The last page is always right.                                            *)
LEMMA PagesAlwaysRight == Spec => []PagesRight
<1>1. Init => PagesRight
  BY DEF Init, PagesRight, ServesWhatWasRecorded, ShowsWhatParseSaw, NoPageFails, Faithful
<1>2. PagesInv /\ PagesRight /\ [Next]_vars => PagesRight'
  BY NextPagesRight
<1> QED BY <1>1, <1>2, ReadingTypes, PTL DEF Spec

(* For any mail, any damage and any order of requests: the attachment served *)
(* is the one of its row, message_attachment against parse, and only one     *)
(* whose recorded name is outside Latin-1 is not served but fails.           *)
THEOREM ServesWhatWasRecordedAlways == Spec => []ServesWhatWasRecorded
<1>1. PagesRight => ServesWhatWasRecorded
  BY DEF PagesRight
<1> QED BY <1>1, PagesAlwaysRight, PTL

(* The html of message_detail is what parse would have stored.               *)
THEOREM ShowsWhatParseSawAlways == Spec => []ShowsWhatParseSaw
<1>1. PagesRight => ShowsWhatParseSaw
  BY DEF PagesRight
<1> QED BY <1>1, PagesAlwaysRight, PTL

(* No page of an archived message fails while its blob is intact or lost,    *)
(* but for attachments whose recorded name is outside Latin-1.               *)
THEOREM NoPageFailsAlways == Spec => []NoPageFails
<1>1. PagesRight => NoPageFails
  BY DEF PagesRight
<1> QED BY <1>1, PagesAlwaysRight, PTL

(* A date that a row got when a hop had a plausible one is plausible.        *)
HopDates ==
  \A m \in Message : row[m] # NoRow /\ Arrived(mail[m], 0) # {} => Plausible(row[m].date, now)

(* A plausible date stays plausible as time passes.                          *)
LEMMA PlausibleStays ==
  ASSUME NEW d \in Int \cup {Undated}, NEW day \in Nat, NEW later \in Nat, day <= later,
         Plausible(d, day)
  PROVE  Plausible(d, later)
<1>1. d \in Int
  BY DEF Plausible
<1> QED BY <1>1, ParseAssumption DEF Plausible

(* So does the hop that has it.                                              *)
LEMMA ArrivedStays ==
  ASSUME NEW raw \in Raw, NEW day \in Nat, Arrived(raw, 0) # {}
  PROVE  Arrived(raw, day) # {}
<1>1. PICK i \in DOMAIN raw.hops : Plausible(raw.hops[i], 0)
  BY DEF Arrived
<1>2. raw.hops[i] \in Int \cup {Undated}
  BY <1>1 DEF Raw
<1>3. Plausible(raw.hops[i], day)
  <2>1. 0 \in Nat /\ 0 <= day
    OBVIOUS
  <2> QED BY <1>1, <1>2, <2>1, PlausibleStays
<1> QED BY <1>1, <1>3 DEF Arrived

(* Every step keeps the dates of rows as good as their hops.                 *)
LEMMA NextHopDates == PagesInv /\ HopDates /\ [Next]_vars => HopDates'
<1> SUFFICES ASSUME PagesInv, HopDates, [Next]_vars PROVE HopDates'
  OBVIOUS
<1> USE DEF PagesInv, ReadingTypeOK
<1>1. ASSUME NEW m \in Message, Ingest(m) PROVE HopDates'
  <2> SUFFICES ASSUME NEW n \in Message, row'[n] # NoRow, Arrived(mail[n], 0) # {}
               PROVE  Plausible(row'[n].date, now)
    BY <1>1 DEF HopDates, Ingest
  <2>1. CASE row[n] # NoRow
    BY <1>1, <2>1, IngestKeepsRows DEF HopDates
  <2>2. CASE row[n] = NoRow
    <3>1. n = m /\ row'[n].date = InternalDate(mail[n], now)
      BY <1>1, <2>2 DEF Ingest
    <3>2. mail[n] \in Raw
      BY ReadingAssumption
    <3>3. Arrived(mail[n], now) # {}
      BY <3>2, ArrivedStays
    <3> QED BY <3>1, <3>2, <3>3, DateFromHop
  <2> QED BY <2>1, <2>2
<1>2. CASE Tick
  <2> SUFFICES ASSUME NEW n \in Message, row[n] # NoRow, Arrived(mail[n], 0) # {}
               PROVE  Plausible(row[n].date, now + 1)
    BY <1>2 DEF HopDates, Tick
  <2>1. row[n].date \in Int \cup {Undated} /\ Plausible(row[n].date, now)
    BY DEF HopDates, MessageRow
  <2>2. now + 1 \in Nat /\ now <= now + 1
    OBVIOUS
  <2> QED BY <2>1, <2>2, PlausibleStays
<1>3. ASSUME NEW m \in Message, PageStep(m) PROVE HopDates'
  <2>1. UNCHANGED <<mail, row, now>>
    BY <1>3, PageStepResponds DEF Respond
  <2> QED BY <2>1 DEF HopDates
<1>4. ASSUME NEW m \in Message, Harm(m) PROVE HopDates'
  BY <1>4 DEF Harm, HopDates
<1>5. CASE SearchStep \/ DbDown \/ DbBack \/ UNCHANGED vars
  <2>1. UNCHANGED <<mail, row, now>>
    BY <1>5 DEF SearchStep, Search, Count, Rows, DbDown, DbBack, vars
  <2> QED BY <2>1 DEF HopDates
<1> QED BY <1>1, <1>2, <1>3, <1>4, <1>5 DEF Next

(* The date of a row is never implausible when a Received header had a good  *)
(* one: the 2611 of the archive gives way (_received_date).                  *)
THEOREM HopsMendDates == Spec => []HopDates
<1>1. Init => HopDates
  BY DEF Init, HopDates
<1>2. PagesInv /\ HopDates /\ [Next]_vars => HopDates'
  BY NextHopDates
<1> QED BY <1>1, <1>2, ReadingTypes, PTL DEF Spec

(***************************************************************************)
(* The search                                                              *)
(***************************************************************************)

(* What the database does between two pages leaves what lies ahead ahead.    *)
LEMMA AheadStays ==
  ASSUME PagesInv, WalkInv, walk # NoWalk, Ahead,
         walk'.sort = walk.sort, walk'.next = walk.next,
         walk'.start = walk.start, walk'.shown = walk.shown,
         \A n \in Hits : n \in Hits' /\ row'[n] = row[n],
         walk.sort = "date-asc" \/ \A n \in Hits : Place(n, now)' = Place(n, now)
  PROVE  Ahead'
<1> SUFFICES ASSUME NEW m \in walk.start \ walk.shown PROVE walk.next <= Rank(walk.sort, m)'
  BY DEF Ahead
<1>1. walk \in Walk
  BY DEF PagesInv, ReadingTypeOK
<1>2. m \in Hits /\ walk.next <= Rank(walk.sort, m)
  BY DEF Ahead, WalkInv
<1>3. PICK sort \in Sorts : sort = walk.sort
  BY <1>1 DEF Walk
<1>4. walk.next \in Nat
  BY <1>1 DEF Walk
<1>5. Rank(sort, m)' \in Nat /\ Rank(sort, m) <= Rank(sort, m)'
  BY <1>2, <1>3, RankGrows
<1>6. Rank(sort, m) \in Nat
  BY RankType
<1>7. walk.next <= Rank(sort, m)'
  BY <1>2, <1>3, <1>4, <1>5, <1>6
<1> QED BY <1>3, <1>7

(* While no day passes, a hit keeps its place in the order of dates.         *)
LEMMA SamePlaces ==
  ASSUME now' = now, NEW n, row'[n] = row[n]
  PROVE  Place(n, now)' = Place(n, now)
BY DEF Place

(* A step that touches neither rows nor day nor the walk keeps it right.     *)
LEMMA WalkStays ==
  ASSUME PagesInv, WalkInv, walk' = walk, row' = row, now' = now
  PROVE  WalkInv'
<1>1. Hits' = Hits
  BY DEF Hits
<1>2. \A n \in Hits : Place(n, now)' = Place(n, now)
  BY SamePlaces
<1>3. walk # NoWalk /\ Ahead => Ahead'
  BY <1>1, <1>2, AheadStays
<1> QED BY <1>1, <1>3 DEF WalkInv

(* An ingest keeps the walk right, or marks it unsteady.                     *)
LEMMA IngestWalk ==
  ASSUME PagesInv, WalkInv, NEW m \in Message, Ingest(m)
  PROVE  WalkInv'
<1>1. \A n \in Hits : n \in Hits' /\ row'[n] = row[n]
  BY IngestKeepsRows, ReadingAssumption DEF Hits
<1>2. \A n \in Hits : Place(n, now)' = Place(n, now)
  BY <1>1, SamePlaces DEF Ingest
<1>3. CASE walk' = walk
  <2>1. walk # NoWalk /\ Ahead => Ahead'
    BY <1>1, <1>2, <1>3, AheadStays
  <2>2. walk.pc = "rows" /\ walk \in Walk /\ walk.steady => Hits' = Hits
    <3> SUFFICES ASSUME walk.pc = "rows", walk \in Walk, walk.steady, Hits' # Hits PROVE FALSE
      OBVIOUS
    <3>1. walk' = [walk EXCEPT !.steady = FALSE]
      BY DEF Ingest
    <3>2. walk'.steady = FALSE
      BY <3>1 DEF Walk
    <3> QED BY <1>3, <3>2
  <2>3. walk # NoWalk => walk \in Walk
    BY DEF PagesInv, ReadingTypeOK
  <2> QED BY <1>1, <1>3, <2>1, <2>2, <2>3 DEF WalkInv
<1>4. CASE walk.pc = "rows" /\ walk' = [walk EXCEPT !.steady = FALSE]
  <2>1. walk \in Walk /\ walk # NoWalk
    BY <1>4 DEF PagesInv, ReadingTypeOK, NoWalk
  <2>2. walk'.steady = FALSE /\ walk'.start = walk.start
    BY <1>4, <2>1 DEF Walk
  <2> QED BY <1>1, <2>1, <2>2 DEF WalkInv
<1> QED BY <1>3, <1>4 DEF Ingest

(* A search cut off between its statements asks for the same page again.     *)
LEMMA DbDownWalk ==
  ASSUME PagesInv, WalkInv, DbDown
  PROVE  WalkInv'
<1>1. row' = row /\ now' = now
  BY DEF DbDown
<1>2. CASE walk' = walk
  BY <1>1, <1>2, WalkStays
<1>3. CASE walk.pc = "rows" /\ walk' = [walk EXCEPT !.pc = "ask"]
  <2>1. walk \in Walk /\ walk # NoWalk
    BY <1>3 DEF PagesInv, ReadingTypeOK, NoWalk
  <2>2. /\ walk'.pc = "ask" /\ walk'.steady = walk.steady /\ walk'.sort = walk.sort
        /\ walk'.next = walk.next /\ walk'.start = walk.start /\ walk'.shown = walk.shown
    BY <1>3, <2>1 DEF Walk
  <2>3. Hits' = Hits
    BY <1>1 DEF Hits
  <2>4. \A n \in Hits : Place(n, now)' = Place(n, now)
    BY <1>1, SamePlaces
  <2>5. Ahead => Ahead'
    BY <1>1, <2>1, <2>2, <2>3, <2>4, AheadStays
  <2> QED BY <1>3, <2>1, <2>2, <2>3, <2>5 DEF WalkInv
<1> QED BY <1>2, <1>3 DEF DbDown

(* A day that passes keeps the walk right, or marks it unsteady.             *)
LEMMA TickWalk ==
  ASSUME PagesInv, WalkInv, Tick
  PROVE  WalkInv'
<1>1. row' = row /\ Hits' = Hits
  BY DEF Tick, Hits
<1>2. CASE walk.pc \in {"ask", "rows"} /\ \E m \in Hits : Place(m, now) # Place(m, now')
  <2>1. walk \in Walk /\ walk # NoWalk
    BY <1>2 DEF PagesInv, ReadingTypeOK, NoWalk
  <2>2. walk' = [walk EXCEPT !.steady = walk.steady /\ walk.sort = "date-asc"]
    BY <1>2, Zenon DEF Tick
  <2>3. CASE walk.steady /\ walk.sort = "date-asc"
    <3>1. walk' = walk
      BY <2>1, <2>2, <2>3 DEF Walk
    <3>2. Ahead => Ahead'
      BY <1>1, <2>1, <2>3, <3>1, AheadStays
    <3> QED BY <1>1, <3>1, <3>2 DEF WalkInv
  <2>4. CASE ~(walk.steady /\ walk.sort = "date-asc")
    <3>1. ~walk'.steady /\ walk'.start = walk.start
      BY <2>1, <2>2, <2>4 DEF Walk
    <3> QED BY <1>1, <2>1, <3>1 DEF WalkInv
  <2> QED BY <2>3, <2>4
<1>3. CASE ~(walk.pc \in {"ask", "rows"} /\ \E m \in Hits : Place(m, now) # Place(m, now'))
  <2>1. walk' = walk
    BY <1>3, Zenon DEF Tick
  <2>2. CASE walk.pc \in {"ask", "rows"}
    <3>1. \A n \in Hits : Place(n, now)' = Place(n, now)
      BY <1>1, <1>3, <2>2 DEF Place
    <3>2. walk # NoWalk /\ Ahead => Ahead'
      BY <1>1, <2>1, <3>1, AheadStays
    <3> QED BY <1>1, <2>1, <3>2 DEF WalkInv
  <2>3. CASE walk.pc \notin {"ask", "rows"}
    BY <1>1, <2>1, <2>3 DEF WalkInv
  <2> QED BY <2>2, <2>3
<1> QED BY <1>2, <1>3

(* A search that begins has everything ahead.                                *)
LEMMA SearchWalk ==
  ASSUME PagesInv, WalkInv, NEW sort \in Sorts, NEW asked \in Asked, Search(sort, asked)
  PROVE  WalkInv'
<1>1. row' = row /\ now' = now /\ Hits' = Hits
  BY DEF Search, Hits
<1>2. /\ walk'.pc = "ask" /\ walk'.sort = sort /\ walk'.next = 0
      /\ walk'.start = Hits /\ walk'.shown = {}
  BY DEF Search
<1>3. \A m \in Hits : Rank(sort, m)' \in Nat
  BY <1>1, SamePlaces, RankGrows
<1>4. Ahead'
  BY <1>2, <1>3 DEF Ahead
<1> QED BY <1>1, <1>2, <1>4 DEF WalkInv

(* A count is the number of hits there are.                                  *)
LEMMA CountWalk ==
  ASSUME PagesInv, WalkInv, Count
  PROVE  WalkInv'
<1>1. row' = row /\ now' = now /\ Hits' = Hits
  BY DEF Count, Hits
<1>2. walk \in Walk /\ walk # NoWalk /\ walk.pc = "ask"
  BY DEF Count, PagesInv, ReadingTypeOK, NoWalk
<1>3. walk' = [walk EXCEPT !.pc = IF Hits = {} THEN "end" ELSE "rows", !.total = Cardinality(Hits)]
  BY DEF Count
<1>4. /\ walk'.sort = walk.sort /\ walk'.next = walk.next /\ walk'.steady = walk.steady
      /\ walk'.start = walk.start /\ walk'.shown = walk.shown
      /\ walk'.total = Cardinality(Hits)
      /\ walk'.pc = IF Hits = {} THEN "end" ELSE "rows"
  BY <1>2, <1>3 DEF Walk
<1>5. Ahead => Ahead'
  BY <1>1, <1>2, <1>4, SamePlaces, AheadStays
<1> QED BY <1>1, <1>2, <1>4, <1>5 DEF WalkInv

(* The rows of a page are those from its offset on: what is not shown on it  *)
(* comes after it, and after the last page comes nothing.                    *)
LEMMA RowsWalk ==
  ASSUME PagesInv, WalkInv, Rows
  PROVE  WalkInv'
<1>1. row' = row /\ now' = now /\ Hits' = Hits
  BY DEF Rows, Hits
<1>2. walk \in Walk /\ walk # NoWalk /\ walk.pc = "rows"
  BY DEF Rows, PagesInv, ReadingTypeOK, NoWalk
<1>3. walk' = [walk EXCEPT !.pc = IF More(Offset) THEN "ask" ELSE "end",
                          !.next = Offset + walk.limit,
                          !.shown = walk.shown \cup OnPage]
  BY DEF Rows
<1>4. /\ walk'.sort = walk.sort /\ walk'.steady = walk.steady /\ walk'.start = walk.start
      /\ walk'.next = Offset + walk.limit /\ walk'.shown = walk.shown \cup OnPage
      /\ walk'.pc = IF More(Offset) THEN "ask" ELSE "end"
  BY <1>2, <1>3 DEF Walk
<1>5. walk.start \subseteq Hits
  BY <1>2 DEF WalkInv
<1>6. ASSUME walk.steady, NEW m \in walk.start, m \notin walk.shown \cup OnPage
      PROVE  More(Offset) /\ Offset + walk.limit <= Rank(walk.sort, m)'
  <2>1. PICK sort \in Sorts : sort = walk.sort
    BY <1>2 DEF Walk
  <2>2. m \in Hits /\ walk.next <= Rank(sort, m)
    BY <1>2, <1>5, <1>6, <2>1 DEF WalkInv, Ahead
  <2>3. walk.total = Cardinality(Hits)
    BY <1>2, <1>6 DEF WalkInv
  <2>4. Rank(sort, m) \in Nat /\ Rank(sort, m) < Cardinality(Hits) /\ Cardinality(Hits) \in Nat
    BY <2>2, RankType, RankBelowTotal, HitsFinite DEF PagesInv
  <2>5. Offset \in Nat /\ Offset <= walk.next /\ walk.limit \in Nat /\ walk.next \in Nat
    BY <1>2, ReadingAssumption DEF Offset, Walk
  <2>6. Rank(sort, m) \notin Offset..(Offset + walk.limit - 1)
    BY <1>6, <2>1, <2>2 DEF OnPage
  <2>7. Offset + walk.limit <= Rank(sort, m)
    BY <2>2, <2>4, <2>5, <2>6
  <2>8. More(Offset)
    BY <2>3, <2>4, <2>5, <2>7 DEF More
  <2>9. Rank(sort, m)' \in Nat /\ Rank(sort, m) <= Rank(sort, m)'
    BY <1>1, <2>2, SamePlaces, RankGrows
  <2>10. Offset + walk.limit <= Rank(sort, m)'
    BY <2>4, <2>5, <2>7, <2>9
  <2>11. walk'.sort = sort /\ walk.sort = sort
    BY <1>4, <2>1
  <2> QED BY <2>8, <2>10, <2>11
<1>7. walk.steady => Ahead'
  BY <1>4, <1>6 DEF Ahead
<1>8. walk.steady /\ ~More(Offset) => walk.start \subseteq walk.shown \cup OnPage
  BY <1>6
<1> QED BY <1>1, <1>4, <1>5, <1>7, <1>8 DEF WalkInv

(* Every step keeps the walk right.                                          *)
LEMMA NextWalkInv == PagesInv /\ WalkInv /\ [Next]_vars => WalkInv'
<1> SUFFICES ASSUME PagesInv, WalkInv, [Next]_vars PROVE WalkInv'
  OBVIOUS
<1>1. ASSUME NEW m \in Message, Ingest(m) PROVE WalkInv'
  BY <1>1, IngestWalk
<1>2. ASSUME NEW m \in Message, Harm(m) PROVE WalkInv'
  BY <1>2, WalkStays DEF Harm
<1>3. ASSUME NEW m \in Message, PageStep(m) PROVE WalkInv'
  <2>1. walk' = NoWalk
    BY <1>3, PageStepResponds DEF Respond
  <2> QED BY <2>1 DEF WalkInv, NoWalk
<1>4. CASE SearchStep
  BY <1>4, SearchWalk, CountWalk, RowsWalk DEF SearchStep
<1>5. CASE DbBack \/ UNCHANGED vars
  BY <1>5, WalkStays DEF DbBack, vars
<1> QED BY <1>1, <1>2, <1>3, <1>4, <1>5, DbDownWalk, TickWalk DEF Next

(* A search followed to its end has shown every hit it began with, for any   *)
(* query, page size, cap and order, whatever arrived between its pages:      *)
(* search_page and search of query.py.                                       *)
THEOREM SearchMissesNothingAlways == Spec => []SearchMissesNothing
<1>1. Init => WalkInv
  BY DEF Init, WalkInv
<1>2. PagesInv /\ WalkInv /\ [Next]_vars => WalkInv'
  BY NextWalkInv
<1>3. WalkInv => SearchMissesNothing
  BY DEF WalkInv, SearchMissesNothing, NoWalk
<1> QED BY <1>1, <1>2, <1>3, ReadingTypes, PTL DEF Spec
=============================================================================
