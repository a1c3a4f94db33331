------------------------------- MODULE WebProofs -------------------------------
(***************************************************************************)
(* What a walk through a mailbox shows, and in which order, whatever is    *)
(* ingested meanwhile and however often the reader has to log in again;    *)
(* and how many passwords a client can try.                                *)
(***************************************************************************)
EXTENDS WebSession, FiniteSetTheorems, SequenceTheorems,
        NaturalsInduction, TLAPS

(***************************************************************************)
(* The inductive invariant, in named parts                                 *)
(***************************************************************************)

\* All the messages of the walk so far.
Shown == seen \cup page

\* A message the walk comes to yet: the next page's cursor lets it through, or
\* the undated tail follows.
Pending(c, m) == After(c, m) \/ (c.kind = "dated" /\ DateOf[m] = Undated)

\* A message the walk has come past.
Behind(c, n) ==
    \/ /\ c.kind = "dated"
       /\ Plausible(n)
       /\ DateOf[n] > c.date \/ (DateOf[n] = c.date /\ DigestOf[n] >= c.digest)
    \/ /\ c.kind = "tail"
       /\ DateOf[n] # Undated \/ DigestOf[n] >= c.digest

\* The cursor of a walk is one it has been given.
OnItsWay == walk.next = End \/ walk.next.kind \in {"dated", "tail"}

\* What there was when the walk began is of its mailbox and day, and dates that
\* were plausible stay so.
InitialOK ==
    /\ initial \subseteq archive \cap walk.box
    /\ \A m \in initial : OnDay(walk.day, m)
    /\ \A m \in initial \ far : ~Implausible(m)

\* NothingSkipped, before the end of the walk.
ShownOrPending ==
    \A m \in initial \ far : m \in Shown \/ (walk.next # End /\ Pending(walk.next, m))

\* Unless a date in the far future has come up, the walk has come past all that
\* it has shown, and goes on among plausible dates.
CursorBehindShown ==
    far \cap Shown = {} /\ walk.next # End =>
        /\ walk.next.kind = "dated" => walk.next.date <= horizon
        /\ \A n \in Shown : Behind(walk.next, n)

WalkInv == TypeOK /\ OnItsWay /\ InitialOK /\ ShownOrPending /\ CursorBehindShown

\* What the entry of a client says of its guesses: the entry has the age of the
\* latest, and a guess it does not count is old.
EntryTells(entry, g) ==
    /\ entry.count <= Len(g)
    /\ entry.count > 0 => g[1] = entry.age
    /\ entry.count < Len(g) => g[entry.count + 1] = Old
    /\ \A i, j \in 1 .. Len(g) : i <= j => g[i] <= g[j]

ThrottleInv == ThrottleTypeOK /\ \A c \in Client : EntryTells(failures[c], guesses[c])

\* The page the reader wanted before the login is the one the walk is at.
TargetIsNext == target # NoRequest => target \in Requests

WebInv == AllTypeOK /\ WalkInv /\ ThrottleInv /\ TargetIsNext

(***************************************************************************)
(* The order of the listing                                                *)
(***************************************************************************)

(* Messages have dates, or none, and digests of their own.                   *)
LEMMA DatesAndDigests ==
    ASSUME NEW m \in Message
    PROVE  /\ DigestOf[m] \in Nat /\ DigestOf[m] < TopDigest
           /\ DateOf[m] \in Nat \/ DateOf[m] = Undated
           /\ DateOf[m] # Undated => DateOf[m] \in Nat /\ DateOf[m] \in Date
<1>1. DigestOf[m] \in 0 .. (TopDigest - 1) /\ TopDigest \in Nat \ {0}
    BY WalkAssumption
<1>2. DigestOf[m] \in Nat /\ DigestOf[m] < TopDigest
    BY <1>1
<1>3. DateOf[m] \in Date \cup {Undated} /\ Date \subseteq Nat
    BY WalkAssumption
<1>4. DateOf[m] # Undated => DateOf[m] \in Nat /\ DateOf[m] \in Date
    BY <1>3, Zenon
<1> QED BY <1>2, <1>4

(* There are no more messages than digests.                                  *)
LEMMA FinitelyMany == IsFiniteSet(Message)
<1>1. DigestOf \in Injection(Message, 0 .. (TopDigest - 1))
    BY WalkAssumption DEF Injection, IsInjective
<1>2. IsFiniteSet(0 .. (TopDigest - 1))
    BY WalkAssumption, FS_Interval
<1> QED BY <1>1, <1>2, FS_Injection

(* So are the messages of any page.                                          *)
LEMMA FiniteMessages ==
    ASSUME NEW S \in SUBSET Message
    PROVE  IsFiniteSet(S) /\ Cardinality(S) \in Nat
BY FinitelyMany, FS_Subset, FS_CardinalityType

(* No message is before itself.                                              *)
LEMMA BeforeIrreflexive ==
    ASSUME NEW m \in Message
    PROVE  ~Before(m, m)
BY DatesAndDigests DEF Before, Plausible, Implausible

(* Of two messages one is before the other.                                  *)
LEMMA BeforeTotal ==
    ASSUME horizon \in Nat, NEW m \in Message, NEW n \in Message, m # n
    PROVE  Before(m, n) \/ Before(n, m)
<1>1. DigestOf[m] # DigestOf[n]
    BY WalkAssumption
<1> QED BY <1>1, DatesAndDigests DEF Before, Plausible, Implausible

(* And what is before what is before a message is before it.                 *)
LEMMA BeforeTransitive ==
    ASSUME horizon \in Nat,
           NEW k \in Message, NEW m \in Message, NEW n \in Message,
           Before(k, m), Before(m, n)
    PROVE  Before(k, n)
BY DatesAndDigests DEF Before, Plausible, Implausible

(* What is in the listing before a message, among S.                         *)
Ahead(S, m) == {n \in S : Before(n, m)}

(* Where a message is among those of a page, counted from 0.                 *)
Rank(S, m) == Cardinality(Ahead(S, m))

(* Ranks are numbers.                                                        *)
LEMMA RankType ==
    ASSUME NEW S \in SUBSET Message, NEW m
    PROVE  IsFiniteSet(Ahead(S, m)) /\ Rank(S, m) \in Nat
<1>1. Ahead(S, m) \in SUBSET Message
    BY DEF Ahead
<1> QED BY <1>1, FiniteMessages DEF Rank

(* Ranks grow along the listing.                                             *)
LEMMA RankGrows ==
    ASSUME horizon \in Nat, NEW S \in SUBSET Message,
           NEW m \in S, NEW n \in S, Before(m, n)
    PROVE  Rank(S, m) < Rank(S, n)
<1>1. Ahead(S, m) \cup {m} \subseteq Ahead(S, n)
    BY BeforeTransitive DEF Ahead
<1>2. m \notin Ahead(S, m)
    BY BeforeIrreflexive DEF Ahead
<1>3. IsFiniteSet(Ahead(S, m)) /\ IsFiniteSet(Ahead(S, n)) /\ Rank(S, m) \in Nat /\ Rank(S, n) \in Nat
    BY RankType
<1>4. Cardinality(Ahead(S, m) \cup {m}) = Rank(S, m) + 1
    BY <1>2, <1>3, FS_AddElement DEF Rank
<1>5. Cardinality(Ahead(S, m) \cup {m}) <= Rank(S, n)
    BY <1>1, <1>3, FS_Subset DEF Rank
<1> QED BY <1>3, <1>4, <1>5

(* A set of numbers has a least one.                                         *)
LEMMA Least ==
    ASSUME NEW S \in SUBSET Nat, S # {}
    PROVE  \E x \in S : \A y \in S : x <= y
<1>1. PICK x \in S : \A y \in S : <<y, x>> \notin OpToRel(<, Nat)
    BY WFMin, NatLessThanWellFounded, Zenon
<1>2. ASSUME NEW y \in S PROVE ~(y < x)
    <2>1. <<y, x>> \notin OpToRel(<, Nat)
        BY <1>1, Zenon
    <2> QED BY <2>1 DEF OpToRel
<1> QED BY <1>2

(* Among messages one comes first,                                           *)
LEMMA FirstOf ==
    ASSUME horizon \in Nat, NEW S \in SUBSET Message, S # {}
    PROVE  \E m \in S : \A n \in S : n = m \/ Before(m, n)
<1> DEFINE R == {Rank(S, m) : m \in S}
<1>1. R \in SUBSET Nat /\ R # {}
    BY RankType
<1>2. PICK r \in R : \A q \in R : r <= q
    <2> HIDE DEF R
    <2> QED BY <1>1, Least
<1>3. PICK m \in S : r = Rank(S, m)
    OBVIOUS
<1>4. ASSUME NEW n \in S, n # m PROVE Before(m, n)
    <2>1. Rank(S, m) <= Rank(S, n)
        BY <1>2, <1>3
    <2>2. Rank(S, m) \in Nat /\ Rank(S, n) \in Nat
        BY RankType
    <2> QED BY <2>1, <2>2, <1>4, BeforeTotal, RankGrows
<1> QED BY <1>4

(* and one comes last: the one with the fewest after it.                     *)
LEMMA LastOf ==
    ASSUME horizon \in Nat, NEW S \in SUBSET Message, S # {}
    PROVE  \E m \in S : \A n \in S : n = m \/ Before(n, m)
<1> DEFINE R == {Cardinality(S) - Rank(S, m) : m \in S}
<1>1. Cardinality(S) \in Nat /\ IsFiniteSet(S)
    BY FiniteMessages
<1>2. \A m \in S : Rank(S, m) \in Nat /\ Rank(S, m) <= Cardinality(S)
    <2> SUFFICES ASSUME NEW m \in S PROVE Rank(S, m) <= Cardinality(S)
        BY RankType
    <2> QED BY <1>1, FS_Subset DEF Rank, Ahead
<1>3. R \in SUBSET Nat /\ R # {}
    BY <1>1, <1>2
<1>4. PICK r \in R : \A q \in R : r <= q
    <2> HIDE DEF R
    <2> QED BY <1>3, Least
<1>5. PICK m \in S : r = Cardinality(S) - Rank(S, m)
    OBVIOUS
<1>6. ASSUME NEW n \in S, n # m PROVE Before(n, m)
    <2>1. Rank(S, n) <= Rank(S, m)
        BY <1>1, <1>2, <1>4, <1>5
    <2> QED BY <2>1, <1>2, <1>6, BeforeTotal, RankGrows
<1> QED BY <1>6

(***************************************************************************)
(* A page: the first rows of those that match                              *)
(***************************************************************************)

(* What is before a row of the page is on the page.                          *)
LEMMA TopIsInitial ==
    ASSUME horizon \in Nat, NEW k \in Nat, NEW S \in SUBSET Message,
           NEW m \in Top(k, S), NEW n \in S \ Top(k, S)
    PROVE  Before(m, n)
<1>1. m \in S /\ Rank(S, m) < k /\ ~(Rank(S, n) < k)
    BY DEF Top, Rank, Ahead
<1>2. Rank(S, m) \in Nat /\ Rank(S, n) \in Nat
    BY RankType
<1>3. CASE Before(n, m)
    BY <1>1, <1>2, <1>3, RankGrows
<1> QED BY <1>1, <1>3, BeforeTotal

(* A page has no more than so many rows.                                     *)
LEMMA TopIsSmall ==
    ASSUME horizon \in Nat, NEW k \in Nat, NEW S \in SUBSET Message
    PROVE  Cardinality(Top(k, S)) <= k
<1> DEFINE f == [m \in Top(k, S) |-> Rank(S, m)]
<1>1. Top(k, S) \subseteq S
    BY DEF Top
<1>2. \A m \in Top(k, S) : Rank(S, m) \in 0 .. k - 1
    BY RankType DEF Top, Rank, Ahead
<1>3. ASSUME NEW m \in Top(k, S), NEW n \in Top(k, S), m # n PROVE Rank(S, m) # Rank(S, n)
    <2>1. Rank(S, m) \in Nat /\ Rank(S, n) \in Nat
        BY RankType
    <2> QED BY <2>1, <1>1, <1>3, BeforeTotal, RankGrows
<1>4. f \in Injection(Top(k, S), 0 .. k - 1)
    <2>1. f \in [Top(k, S) -> 0 .. k - 1]
        BY <1>2
    <2>2. \A m, n \in Top(k, S) : f[m] = f[n] => m = n
        BY <1>3
    <2> HIDE DEF f
    <2> QED BY <2>1, <2>2 DEF Injection, IsInjective
<1>5. IsFiniteSet(0 .. k - 1) /\ Cardinality(0 .. k - 1) = k
    BY FS_Interval
<1> HIDE DEF f
<1> QED BY <1>4, <1>5, FS_Injection

(* If there are fewer rows than asked for, there are no others.              *)
LEMMA ShortPageIsAll ==
    ASSUME horizon \in Nat, NEW k \in Nat, NEW S \in SUBSET Message,
           Cardinality(Top(k, S)) < k
    PROVE  Top(k, S) = S
<1>1. Top(k, S) \subseteq S
    BY DEF Top
<1>2. CASE S \ Top(k, S) # {}
    <2>1. PICK m \in S \ Top(k, S) : \A n \in S \ Top(k, S) : n = m \/ Before(m, n)
        BY <1>2, FirstOf
    <2>2. Ahead(S, m) \subseteq Top(k, S)
        <3> SUFFICES ASSUME NEW n \in S, Before(n, m), n \notin Top(k, S) PROVE FALSE
            BY DEF Ahead
        <3>1. n # m
            BY BeforeIrreflexive
        <3>2. Before(m, n)
            BY <2>1, <3>1
        <3>3. Before(m, m)
            BY <3>2, BeforeTransitive
        <3> QED BY <3>3, BeforeIrreflexive
    <2>3. IsFiniteSet(Top(k, S)) /\ Cardinality(Top(k, S)) \in Nat
        BY <1>1, FiniteMessages
    <2>4. Rank(S, m) <= Cardinality(Top(k, S)) /\ Rank(S, m) \in Nat
        BY <2>2, <2>3, FS_Subset, RankType DEF Rank
    <2>5. Rank(S, m) < k
        BY <2>3, <2>4
    <2> QED BY <2>5 DEF Top, Rank, Ahead
<1> QED BY <1>1, <1>2

(* A page of one row at least has one if there are any.                      *)
LEMMA TopIsNotEmpty ==
    ASSUME horizon \in Nat, NEW k \in Nat \ {0}, NEW S \in SUBSET Message, S # {}
    PROVE  Top(k, S) # {}
<1>1. PICK m \in S : \A n \in S : n = m \/ Before(m, n)
    BY FirstOf
<1>2. Ahead(S, m) = {}
    BY <1>1, BeforeIrreflexive, BeforeTransitive DEF Ahead
<1>3. Rank(S, m) = 0
    BY <1>2, FS_EmptySet DEF Rank
<1> QED BY <1>3 DEF Top, Rank, Ahead
(* The rows that are asked for, and those that are shown.                    *)
Rows(S) == Top(Limit + 1, S)
Msgs(S) == Top(Limit, Rows(S))

(* The cursor after a message.                                               *)
CursorAt(m) ==
    IF DateOf[m] = Undated THEN NoDate(DigestOf[m]) ELSE Dated(DateOf[m], DigestOf[m])

(* The message a page ends with: the cursor after it is the cursor of the    *)
(* next page.                                                                *)
IsLast(m, msgs, S) ==
    /\ m \in msgs
    /\ \A n \in msgs : n = m \/ Before(n, m)
    /\ \A n \in S \ msgs : Before(m, n)

(* With more rows than are shown, the page ends where the others begin.      *)
LEMMA LongPage ==
    ASSUME horizon \in Nat, NEW S \in SUBSET Message, NEW day, NEW c,
           Cardinality(Rows(S)) > Limit
    PROVE  \E m \in Msgs(S) :
               /\ IsLast(m, Msgs(S), S)
               /\ NextCursor(day, c, Rows(S), Msgs(S)) = CursorAt(m)
<1> DEFINE msgs == Msgs(S)
<1>1. Limit \in Nat \ {0} /\ Limit + 1 \in Nat
    BY WalkAssumption
<1>2. Rows(S) \subseteq S /\ msgs \subseteq Rows(S) /\ Rows(S) \in SUBSET Message
    BY DEF Rows, Msgs, Top
<1>3. Rows(S) # {}
    BY <1>1, FS_EmptySet
<1>4. msgs # {} /\ msgs \in SUBSET Message
    BY <1>1, <1>2, <1>3, TopIsNotEmpty DEF Msgs
<1> DEFINE m == CHOOSE x \in msgs : \A n \in msgs : n = x \/ Before(n, x)
<1>5. m \in msgs /\ \A n \in msgs : n = m \/ Before(n, m)
    <2> HIDE DEF msgs
    <2> QED BY <1>4, LastOf
<1>6. NextCursor(day, c, Rows(S), msgs) = CursorAt(m)
    BY DEF NextCursor, CursorAt
<1> HIDE DEF m
<1>7. ASSUME NEW n \in S \ msgs PROVE Before(m, n)
    <2>1. CASE n \in Rows(S)
        BY <1>1, <1>2, <1>5, <2>1, <1>7, TopIsInitial DEF Msgs
    <2>2. CASE n \notin Rows(S)
        BY <1>1, <1>2, <1>5, <2>2, <1>7, TopIsInitial DEF Rows
    <2> QED BY <2>1, <2>2
<1> QED BY <1>5, <1>6, <1>7 DEF IsLast

(* Otherwise they are all on the page, and the walk ends or goes on in the   *)
(* undated tail.                                                             *)
LEMMA ShortPage ==
    ASSUME horizon \in Nat, NEW S \in SUBSET Message, NEW day, NEW c,
           ~(Cardinality(Rows(S)) > Limit)
    PROVE  /\ Msgs(S) = S
           /\ NextCursor(day, c, Rows(S), Msgs(S)) =
                 IF c.kind = "dated" /\ day = EveryDay THEN NoDate(TopDigest) ELSE End
<1>1. Limit \in Nat \ {0} /\ Limit + 1 \in Nat
    BY WalkAssumption
<1>2. Rows(S) \subseteq S /\ Rows(S) \in SUBSET Message
    BY DEF Rows, Top
<1>3. Cardinality(Rows(S)) \in Nat
    BY <1>2, FiniteMessages
<1>4. Rows(S) = S
    BY <1>1, <1>3, ShortPageIsAll DEF Rows
<1>5. Cardinality(S) < Limit + 1
    BY <1>1, <1>3, <1>4
<1>6. ASSUME NEW m \in S PROVE Rank(S, m) < Limit
    <2>1. m \notin Ahead(S, m) /\ Ahead(S, m) \in SUBSET S
        BY BeforeIrreflexive DEF Ahead
    <2>2. Rank(S, m) \in Nat /\ Rank(S, m) <= Cardinality(S)
        BY <2>1, FiniteMessages, RankType, FS_Subset DEF Rank
    <2>3. Rank(S, m) # Cardinality(S)
        BY <2>1, FiniteMessages, FS_Subset DEF Rank
    <2> QED BY <1>1, <1>3, <1>4, <1>5, <2>2, <2>3
<1>7. Msgs(S) = S
    BY <1>4, <1>6 DEF Msgs, Top, Rank, Ahead
<1> QED BY <1>7 DEF NextCursor

(* A page is of matching rows, no more than fit it, and its link is a cursor.*)
LEMMA PageTypes ==
    ASSUME horizon \in Nat, NEW S \in SUBSET Message, NEW day, NEW c
    PROVE  /\ Msgs(S) \subseteq S
           /\ Cardinality(Msgs(S)) <= Limit
           /\ NextCursor(day, c, Rows(S), Msgs(S)) \in Cursor
           /\ NextCursor(day, c, Rows(S), Msgs(S)) = End
                 \/ NextCursor(day, c, Rows(S), Msgs(S)).kind \in {"dated", "tail"}
<1> DEFINE next == NextCursor(day, c, Rows(S), Msgs(S))
<1>1. Limit \in Nat /\ Rows(S) \in SUBSET S /\ Msgs(S) \in SUBSET Rows(S)
    BY WalkAssumption DEF Rows, Msgs, Top
<1>2. Cardinality(Msgs(S)) <= Limit
    BY <1>1, TopIsSmall DEF Msgs
<1>3. ASSUME NEW m \in Message
      PROVE  CursorAt(m) \in Cursor /\ CursorAt(m).kind \in {"dated", "tail"}
    <2>1. DigestOf[m] \in 0 .. TopDigest
        BY DatesAndDigests, WalkAssumption
    <2> QED BY <2>1, DatesAndDigests DEF CursorAt, Dated, NoDate, Cursor
<1>4. CASE Cardinality(Rows(S)) > Limit
    <2>1. PICK m \in Msgs(S) : next = CursorAt(m)
        BY <1>4, LongPage
    <2>2. m \in Message
        BY <1>1
    <2> QED BY <1>1, <1>2, <1>3, <2>1, <2>2
<1>5. CASE ~(Cardinality(Rows(S)) > Limit)
    <2>1. next = NoDate(TopDigest) \/ next = End
        BY <1>5, ShortPage
    <2>2. TopDigest \in 0 .. TopDigest /\ 0 \in 0 .. TopDigest
        BY WalkAssumption
    <2> QED BY <1>1, <1>2, <2>1, <2>2 DEF NoDate, End, Cursor
<1> QED BY <1>4, <1>5
(***************************************************************************)
(* What a page leaves to the next one                                      *)
(***************************************************************************)

(* The link of the page of a cursor.                                         *)
Link(box, day, c) ==
    LET S == Matching(box, day, c) IN NextCursor(day, c, Rows(S), Msgs(S))

(* What a request shows, and the link it offers.                             *)
LEMMA ShowIs ==
    ASSUME NEW box, NEW day, NEW c, Show(box, day, c)
    PROVE  /\ page' = Msgs(Matching(box, day, c))
           /\ walk' = [box |-> box, day |-> day, next |-> Link(box, day, c)]
BY DEF Show, Rows, Msgs, Link

(* What matches is stored, in the mailbox and of the day.                    *)
LEMMA MatchingIs ==
    ASSUME archive \subseteq Message, NEW box, NEW day, NEW c
    PROVE  Matching(box, day, c) \in SUBSET Message
BY DEF Matching

(* The cursor after a message is no end, and lets through what comes later:  *)
(* only far dates come between plausible dates and the undated tail.         *)
LEMMA CursorPending ==
    ASSUME horizon \in Nat, NEW k \in Message, NEW m \in Message,
           Before(k, m), ~Implausible(m)
    PROVE  CursorAt(k) # End /\ Pending(CursorAt(k), m)
<1>1. CursorAt(k).kind = IF DateOf[k] = Undated THEN "tail" ELSE "dated"
    BY DEF CursorAt, Dated, NoDate
<1>2. CursorAt(k) # End
    BY <1>1 DEF End
<1>3. CASE DateOf[k] = Undated
    <2>1. DateOf[m] = Undated /\ DigestOf[m] < DigestOf[k]
        BY <1>3, DatesAndDigests DEF Before, Plausible, Implausible
    <2> QED BY <1>2, <1>3, <2>1 DEF Pending, After, CursorAt, NoDate
<1>4. CASE DateOf[k] # Undated /\ DateOf[m] = Undated
    BY <1>1, <1>2, <1>4 DEF Pending
<1>5. CASE DateOf[k] # Undated /\ DateOf[m] # Undated
    <2>1. Plausible(m)
        BY <1>5, DatesAndDigests DEF Plausible, Implausible
    <2>2. \/ DateOf[m] < DateOf[k]
          \/ DateOf[m] = DateOf[k] /\ DigestOf[m] < DigestOf[k]
        BY <2>1, <1>5, DatesAndDigests DEF Before, Plausible, Implausible
    <2> QED BY <1>2, <1>5, <2>2 DEF Pending, After, CursorAt, Dated
<1> QED BY <1>3, <1>4, <1>5

(* A row that matches is shown, or the link leads to it.                     *)
LEMMA RowNotLost ==
    ASSUME horizon \in Nat, archive \subseteq Message, NEW box, NEW day, NEW c,
           NEW m \in Matching(box, day, c), ~Implausible(m)
    PROVE  \/ m \in Msgs(Matching(box, day, c))
           \/ Link(box, day, c) # End /\ Pending(Link(box, day, c), m)
<1> DEFINE S == Matching(box, day, c)
<1>1. S \in SUBSET Message
    BY MatchingIs
<1>2. CASE Cardinality(Rows(S)) > Limit
    <2>1. PICK k \in Msgs(S) : IsLast(k, Msgs(S), S) /\ Link(box, day, c) = CursorAt(k)
        BY <1>1, <1>2, LongPage DEF Link
    <2>2. k \in Message
        BY <1>1, <2>1, PageTypes
    <2>3. CASE m \notin Msgs(S)
        <3>1. Before(k, m)
            BY <2>1, <2>3 DEF IsLast
        <3> QED BY <1>1, <2>1, <2>2, <3>1, CursorPending
    <2> QED BY <2>3
<1>3. CASE ~(Cardinality(Rows(S)) > Limit)
    BY <1>1, <1>3, ShortPage
<1> QED BY <1>2, <1>3

(* From among dated messages the link leads into the undated tail as well.   *)
LEMMA TailNotLost ==
    ASSUME horizon \in Nat, archive \subseteq Message, NEW box, NEW c, c.kind = "dated",
           NEW m \in Message, DateOf[m] = Undated
    PROVE  Link(box, EveryDay, c) # End /\ Pending(Link(box, EveryDay, c), m)
<1> DEFINE S == Matching(box, EveryDay, c)
<1>1. S \in SUBSET Message
    BY MatchingIs
<1>2. \A n \in S : DateOf[n] # Undated
    BY DEF Matching, After
<1>3. CASE Cardinality(Rows(S)) > Limit
    <2>1. PICK k \in Msgs(S) : Link(box, EveryDay, c) = CursorAt(k)
        BY <1>1, <1>3, LongPage DEF Link
    <2>2. DateOf[k] # Undated
        BY <1>1, <1>2, PageTypes
    <2> QED BY <2>1, <2>2 DEF CursorAt, Dated, End, Pending
<1>4. CASE ~(Cardinality(Rows(S)) > Limit)
    <2>1. Link(box, EveryDay, c) = NoDate(TopDigest)
        BY <1>1, <1>4, ShortPage DEF Link
    <2>2. DigestOf[m] < TopDigest
        BY DatesAndDigests
    <2> QED BY <2>1, <2>2 DEF NoDate, End, Pending, After
<1> QED BY <1>3, <1>4

(* Only from among dated messages a link leads past the last message shown.  *)
LEMMA LinkIsAhead ==
    ASSUME horizon \in Nat, archive \subseteq Message, NEW box, NEW day, NEW c,
           c.kind # "dated", Link(box, day, c) # End
    PROVE  \E k \in Msgs(Matching(box, day, c)) :
               /\ IsLast(k, Msgs(Matching(box, day, c)), Matching(box, day, c))
               /\ Link(box, day, c) = CursorAt(k)
<1>1. Matching(box, day, c) \in SUBSET Message
    BY MatchingIs
<1> QED BY <1>1, LongPage, ShortPage DEF Link
(* Near dates: a cursor among plausible dates lets only such dates through.  *)
NearCursor(c) == c.kind = "dated" => c.date <= horizon

(* What is let through comes after what is behind.                           *)
LEMMA BehindBeforeAfter ==
    ASSUME horizon \in Nat, NEW c \in Cursor, c.kind \in {"dated", "tail"}, NearCursor(c),
           NEW m \in Message, After(c, m), NEW n \in Message, Behind(c, n)
    PROVE  Before(n, m) /\ ~Implausible(m)
<1>1. c.date \in Nat /\ c.digest \in Nat
    BY WalkAssumption DEF Cursor
<1>2. CASE c.kind = "dated"
    <2>1. DateOf[m] \in Nat /\ DateOf[m] <= horizon
        BY <1>1, <1>2, DatesAndDigests DEF After, NearCursor
    <2> QED BY <1>1, <1>2, <2>1, DatesAndDigests
            DEF After, Behind, Before, Plausible, Implausible
<1>3. CASE c.kind = "tail"
    BY <1>1, <1>3, DatesAndDigests DEF After, Behind, Before, Plausible, Implausible
<1> QED BY <1>2, <1>3

(* The same of dates alone.                                                  *)
LEMMA AfterIsNear ==
    ASSUME horizon \in Nat, NEW c \in Cursor, c.kind \in {"dated", "tail"}, NearCursor(c),
           NEW m \in Message, After(c, m)
    PROVE  ~Implausible(m)
<1>1. c.date \in Nat /\ c.digest \in Nat
    BY WalkAssumption DEF Cursor
<1>2. CASE c.kind = "dated"
    <2>1. DateOf[m] # Undated /\ (DateOf[m] < c.date \/ DateOf[m] = c.date)
        BY <1>2 DEF After
    <2> QED BY <1>1, <1>2, <2>1, DatesAndDigests DEF NearCursor, Implausible
<1>3. CASE c.kind = "tail"
    BY <1>3 DEF After, Implausible
<1> QED BY <1>2, <1>3

(* The last message of a page and those before it are behind the next link.  *)
LEMMA BehindCursorAt ==
    ASSUME horizon \in Nat, NEW k \in Message, ~Implausible(k)
    PROVE  /\ NearCursor(CursorAt(k))
           /\ \A n \in Message : n = k \/ Before(n, k) => Behind(CursorAt(k), n)
<1>1. CASE DateOf[k] = Undated
    BY <1>1, DatesAndDigests
    DEF CursorAt, NoDate, NearCursor, Behind, Before, Plausible, Implausible
<1>2. CASE DateOf[k] # Undated
    <2>1. Plausible(k)
        BY <1>2, DatesAndDigests DEF Plausible, Implausible
    <2>2. CursorAt(k) = Dated(DateOf[k], DigestOf[k])
        BY <1>2 DEF CursorAt
    <2>3. NearCursor(CursorAt(k))
        BY <2>1, <2>2 DEF NearCursor, Dated, Plausible
    <2>4. ASSUME NEW n \in Message, n = k \/ Before(n, k) PROVE Behind(CursorAt(k), n)
        <3>1. Plausible(n)
            BY <2>1, <2>4, DatesAndDigests DEF Before, Plausible, Implausible
        <3>2. DateOf[n] > DateOf[k] \/ (DateOf[n] = DateOf[k] /\ DigestOf[n] >= DigestOf[k])
            BY <2>1, <2>4, <3>1, DatesAndDigests DEF Before, Plausible, Implausible
        <3> QED BY <2>2, <3>1, <3>2 DEF Behind, Dated
    <2> QED BY <2>3, <2>4
<1> QED BY <1>1, <1>2

(***************************************************************************)
(* The steps of the walk                                                   *)
(***************************************************************************)

(* What the types say of a walk under way.                                   *)
LEMMA WalkTypes ==
    ASSUME WalkInv
    PROVE  /\ archive \subseteq Message /\ horizon \in Nat
           /\ walk.box \in Mailbox /\ walk.day \in Nat \cup {EveryDay}
           /\ walk.next \in Cursor
           /\ page \subseteq Message /\ seen \subseteq Message /\ initial \subseteq Message
BY WalkAssumption DEF WalkInv, TypeOK

(* A page, as the types have it.                                             *)
LEMMA ShowTypes ==
    ASSUME WalkInv, NEW box \in Mailbox, NEW day \in Nat \cup {EveryDay}, NEW c,
           Show(box, day, c)
    PROVE  /\ walk' \in [box : Mailbox, day : Nat \cup {EveryDay}, next : Cursor]
           /\ walk'.box = box /\ walk'.day = day /\ walk'.next = Link(box, day, c)
           /\ OnItsWay'
           /\ page' \subseteq Matching(box, day, c)
           /\ Cardinality(page') <= Limit
<1> DEFINE S == Matching(box, day, c)
<1>1. S \in SUBSET Message
    BY MatchingIs, WalkTypes
<1>2. /\ page' = Msgs(S)
      /\ walk' = [box |-> box, day |-> day, next |-> Link(box, day, c)]
    BY ShowIs
<1>3. /\ Link(box, day, c) \in Cursor
      /\ Link(box, day, c) = End \/ Link(box, day, c).kind \in {"dated", "tail"}
      /\ Msgs(S) \subseteq S /\ Cardinality(Msgs(S)) <= Limit
    BY <1>1, WalkTypes, PageTypes DEF Link
<1> QED BY <1>2, <1>3 DEF OnItsWay

(* The first page begins a walk as it should.                                *)
LEMMA FirstPageKeeps ==
    ASSUME WalkInv, NEW box \in Mailbox, NEW day \in Nat \cup {EveryDay}, FirstPage(box, day)
    PROVE  WalkInv'
<1> DEFINE S == Matching(box, day, First)
<1>1. /\ archive \subseteq Message /\ horizon \in Nat /\ horizon' = horizon
      /\ archive' = archive /\ seen' = {} /\ Show(box, day, First)
    BY WalkTypes DEF FirstPage
<1>2. /\ walk' \in [box : Mailbox, day : Nat \cup {EveryDay}, next : Cursor]
      /\ walk'.box = box /\ walk'.day = day /\ walk'.next = Link(box, day, First)
      /\ OnItsWay'
      /\ page' \subseteq S /\ Cardinality(page') <= Limit
    BY <1>1, ShowTypes
<1>3. initial' = S /\ S \subseteq archive \cap box /\ far' = {m \in S : Implausible(m)}
    BY DEF FirstPage, Matching, After, First
<1>4. page' = Msgs(S)
    BY <1>1, ShowIs
<1>5. TypeOK'
    <2>1. horizon' \in 0 .. Horizons
        BY <1>1 DEF WalkInv, TypeOK
    <2> QED BY <1>1, <1>2, <1>3, <2>1 DEF TypeOK
<1>6. InitialOK'
    <2>1. \A m \in S : OnDay(day, m)
        BY DEF Matching
    <2>2. \A m \in initial' \ far' : ~Implausible(m)'
        BY <1>1, <1>3 DEF Implausible
    <2>3. \A m \in initial' : OnDay(walk.day, m)'
        BY <1>2, <1>3, <2>1 DEF OnDay
    <2> QED BY <1>1, <1>2, <1>3, <2>2, <2>3 DEF InitialOK
<1>7. ShownOrPending'
    <2>1. \A m \in S : ~Implausible(m) =>
              m \in page' \/ (walk'.next # End /\ Pending(walk'.next, m))
        BY <1>1, <1>2, <1>4, RowNotLost
    <2>2. \A m \in initial' \ far' : m \in S /\ ~Implausible(m)
        BY <1>3
    <2> HIDE DEF S
    <2>3. \A m \in initial' \ far' :
              m \in page' \/ (walk'.next # End /\ Pending(walk'.next, m))
        BY <2>1, <2>2
    <2> QED BY <2>3 DEF ShownOrPending, Shown, Pending, After
<1>8. CursorBehindShown'
    <2> SUFFICES ASSUME far' \cap page' = {}, Link(box, day, First) # End
                 PROVE  /\ NearCursor(Link(box, day, First))
                        /\ \A n \in page' : Behind(Link(box, day, First), n)
        BY <1>1, <1>2 DEF CursorBehindShown, Shown, NearCursor, Behind, Plausible
    <2>1. PICK k \in Msgs(S) : IsLast(k, Msgs(S), S) /\ Link(box, day, First) = CursorAt(k)
        BY <1>1, LinkIsAhead DEF First
    <2>2. k \in Message /\ ~Implausible(k)
        BY <1>1, <1>2, <1>3, <1>4
    <2>3. \A n \in page' : n \in Message /\ (n = k \/ Before(n, k))
        BY <1>1, <1>2, <1>3, <1>4, <2>1 DEF IsLast
    <2> QED BY <1>1, <2>1, <2>2, <2>3, BehindCursorAt
<1> QED BY <1>2, <1>5, <1>6, <1>7, <1>8 DEF WalkInv
(* The next page of a walk is the one the link was for,                      *)
LEMMA OlderIs ==
    ASSUME WalkInv, Older
    PROVE  /\ Show(walk.box, walk.day, walk.next)
           /\ walk.next # End /\ walk.next.kind \in {"dated", "tail"}
           /\ seen' = Shown
           /\ UNCHANGED <<archive, horizon, initial, far>>
BY DEF Older, WalkInv, OnItsWay, Shown

(* with rows that the cursor lets through.                                   *)
LEMMA OlderShows ==
    ASSUME WalkInv, Older, NEW m \in page'
    PROVE  m \in Message /\ m \in archive /\ After(walk.next, m)
<1>1. page' \subseteq Matching(walk.box, walk.day, walk.next)
    BY OlderIs, WalkTypes, ShowTypes
<1> QED BY <1>1, WalkTypes DEF Matching

(* What was pending is on the page, or pending still.                        *)
LEMMA OlderLosesNothing ==
    ASSUME WalkInv, Older
    PROVE  ShownOrPending'
<1> DEFINE c == walk.next
           next == Link(walk.box, walk.day, c)
<1>1. /\ walk'.next = next
      /\ page' = Msgs(Matching(walk.box, walk.day, c))
      /\ seen' = Shown /\ initial' = initial /\ far' = far
      /\ archive \subseteq Message /\ horizon \in Nat
      /\ c # End /\ c.kind \in {"dated", "tail"}
    BY OlderIs, WalkTypes, ShowTypes, ShowIs
<1>2. SUFFICES ASSUME NEW m \in initial \ far, m \notin Shown
               PROVE  m \in page' \/ (next # End /\ Pending(next, m))
    BY <1>1 DEF ShownOrPending, Shown, Pending, After
<1>3. /\ m \in Message /\ m \in archive \cap walk.box /\ OnDay(walk.day, m)
      /\ ~Implausible(m) /\ Pending(c, m)
    BY <1>2, WalkTypes DEF WalkInv, InitialOK, ShownOrPending
<1>4. CASE After(c, m)
    <2>1. m \in Matching(walk.box, walk.day, c)
        BY <1>3, <1>4 DEF Matching
    <2> QED BY <1>1, <1>3, <2>1, RowNotLost
<1>5. CASE c.kind = "dated" /\ DateOf[m] = Undated
    <2>1. walk.day = EveryDay
        BY <1>3, <1>5 DEF OnDay
    <2> QED BY <1>1, <1>3, <1>5, <2>1, TailNotLost
<1> QED BY <1>3, <1>4, <1>5 DEF Pending

(* While no far date has come up, all that has been shown comes before the   *)
(* next page and stays behind its link.                                      *)
LEMMA OlderInOrder ==
    ASSUME WalkInv, Older, far \cap Shown = {}
    PROVE  /\ NearCursor(walk.next)
           /\ \A m \in page', n \in Shown : Before(n, m)
           /\ \A m \in page' : ~Implausible(m)
<1>1. walk.next # End /\ walk.next.kind \in {"dated", "tail"}
    BY OlderIs
<1>2. NearCursor(walk.next) /\ \A n \in Shown : Behind(walk.next, n)
    BY <1>1 DEF WalkInv, CursorBehindShown, NearCursor
<1>3. walk.next \in Cursor /\ horizon \in Nat /\ Shown \subseteq Message
    BY WalkTypes DEF Shown
<1>4. \A m \in page' : m \in Message /\ After(walk.next, m)
    BY OlderShows
<1> QED BY <1>1, <1>2, <1>3, <1>4, BehindBeforeAfter, AfterIsNear

(* So the cursor stays where it should.                                      *)
LEMMA OlderKeepsCursor ==
    ASSUME WalkInv, Older
    PROVE  CursorBehindShown'
<1> DEFINE c == walk.next
           S == Matching(walk.box, walk.day, c)
           next == Link(walk.box, walk.day, c)
<1>1. /\ walk'.next = next /\ page' = Msgs(S) /\ page' \subseteq S
      /\ seen' = Shown /\ far' = far /\ horizon' = horizon
      /\ horizon \in Nat /\ c # End /\ S \in SUBSET Message /\ Shown \subseteq Message
    BY OlderIs, WalkTypes, ShowTypes, ShowIs, MatchingIs DEF Shown
<1>2. SUFFICES ASSUME far \cap (Shown \cup page') = {}, next # End
               PROVE  NearCursor(next) /\ \A n \in Shown \cup page' : Behind(next, n)
    BY <1>1 DEF CursorBehindShown, NearCursor, Shown, Behind, Plausible
<1>3. /\ \A m \in page', n \in Shown : Before(n, m)
      /\ \A m \in page' : ~Implausible(m)
    BY <1>2, OlderInOrder
<1>4. CASE Cardinality(Rows(S)) > Limit
    <2>1. PICK k \in Msgs(S) : IsLast(k, Msgs(S), S) /\ next = CursorAt(k)
        BY <1>1, <1>4, LongPage DEF Link
    <2>2. k \in Message /\ ~Implausible(k)
        BY <1>1, <1>3
    <2>3. \A n \in Shown \cup page' : n \in Message /\ (n = k \/ Before(n, k))
        BY <1>1, <1>3, <2>1 DEF IsLast
    <2> HIDE DEF S, next
    <2> QED BY <1>1, <2>1, <2>2, <2>3, BehindCursorAt
<1>5. CASE ~(Cardinality(Rows(S)) > Limit)
    <2>1. next = NoDate(TopDigest) /\ c.kind = "dated"
        BY <1>1, <1>2, <1>5, ShortPage DEF Link
    <2>2. \A n \in page' : DateOf[n] # Undated
        BY <2>1, OlderShows DEF After
    <2>3. \A n \in Shown : DateOf[n] # Undated
        BY <1>1, <1>2, <2>1 DEF WalkInv, CursorBehindShown, Behind, Plausible
    <2> HIDE DEF S, next
    <2> QED BY <2>1, <2>2, <2>3 DEF Behind, NearCursor, NoDate
<1> QED BY <1>4, <1>5

(* Following the link goes on as it should.                                  *)
LEMMA OlderKeeps ==
    ASSUME WalkInv, Older
    PROVE  WalkInv'
<1>1. /\ UNCHANGED <<archive, horizon, initial, far>> /\ seen' = Shown
      /\ Show(walk.box, walk.day, walk.next)
    BY OlderIs
<1>2. /\ walk' \in [box : Mailbox, day : Nat \cup {EveryDay}, next : Cursor]
      /\ walk'.box = walk.box /\ walk'.day = walk.day /\ OnItsWay'
      /\ Cardinality(page') <= Limit
    BY <1>1, WalkTypes, ShowTypes
<1>3. page' \subseteq archive
    BY OlderShows
<1>4. TypeOK'
    BY <1>1, <1>2, <1>3 DEF TypeOK, WalkInv, Shown
<1>5. InitialOK'
    BY <1>1, <1>2 DEF WalkInv, InitialOK, OnDay, Implausible
<1> QED BY <1>2, <1>4, <1>5, OlderLosesNothing, OlderKeepsCursor DEF WalkInv

(* Meanwhile nothing changes for the walk: messages are added, and dates     *)
(* that were plausible stay so.                                              *)
LEMMA MeanwhileKeeps ==
    ASSUME WalkInv, (\E m \in Message : Arrive(m)) \/ Tick
    PROVE  WalkInv'
<1>1. /\ UNCHANGED <<walk, page, seen, initial, far>>
      /\ archive \subseteq archive' /\ archive' \subseteq Message
      /\ horizon' \in 0 .. Horizons /\ horizon <= horizon' /\ horizon \in Nat
    <2>1. Horizons \in Nat /\ archive \subseteq Message /\ horizon \in 0 .. Horizons
        BY WalkAssumption DEF WalkInv, TypeOK
    <2> QED BY <2>1 DEF Arrive, Tick
<1>2. TypeOK'
    BY <1>1 DEF TypeOK, WalkInv
<1>3. /\ \A m \in Message : Plausible(m) => Plausible(m)'
      /\ \A m \in Message : ~Implausible(m) => ~Implausible(m)'
    BY <1>1, <1>2, DatesAndDigests DEF Plausible, Implausible, TypeOK
<1>4. OnItsWay' /\ ShownOrPending'
    BY <1>1 DEF WalkInv, OnItsWay, ShownOrPending, Shown, Pending, After
<1>5. InitialOK'
    BY <1>1, <1>3, WalkTypes DEF WalkInv, InitialOK, OnDay
<1>6. CursorBehindShown'
    <2> SUFFICES ASSUME far \cap Shown = {}, walk.next # End
                 PROVE  /\ walk.next.kind = "dated" => walk.next.date <= horizon'
                        /\ \A n \in Shown : Behind(walk.next, n)'
        BY <1>1 DEF CursorBehindShown, Shown
    <2>1. /\ walk.next.kind = "dated" => walk.next.date <= horizon
          /\ \A n \in Shown : n \in Message /\ Behind(walk.next, n)
        BY WalkTypes DEF WalkInv, CursorBehindShown, Shown
    <2>2. walk.next.date \in Nat /\ horizon' \in Nat
        BY <1>1, WalkTypes DEF Cursor
    <2>3. \A n \in Shown : Behind(walk.next, n)'
        BY <1>1, <1>3, <2>1 DEF Behind
    <2> QED BY <1>1, <2>1, <2>2, <2>3
<1> QED BY <1>2, <1>4, <1>5, <1>6 DEF WalkInv
(***************************************************************************)
(* The throttle                                                            *)
(***************************************************************************)

(* Ages grow up to Old, and keep their order.                                *)
LEMMA AgedGrows ==
    /\ Lockout \in Nat \ {0} /\ Old \in Age /\ 0 \in Age /\ Age \subseteq Nat
    /\ Aged(Old) = Old
    /\ \A a \in Age : 0 <= a /\ Aged(a) \in Age
    /\ \A a, b \in Age : a <= b => Aged(a) <= Aged(b)
BY ThrottleAssumption DEF Aged, Age, Old

(* The history after a further guess: the new one first, and of the others   *)
(* what Threshold leaves.                                                    *)
LEMMA NewGuess ==
    ASSUME NEW g \in Seq(Age), Len(g) <= Threshold,
           NEW h, h = SubSeq(<< 0 >> \o g, 1, Capped(Len(g) + 1))
    PROVE  /\ h \in Seq(Age) /\ Len(h) = Capped(Len(g) + 1)
           /\ Len(h) \in 1 .. Threshold /\ Len(h) <= Len(g) + 1
           /\ h[1] = 0
           /\ \A i \in 2 .. Len(h) : i - 1 \in 1 .. Len(g) /\ h[i] = g[i - 1]
<1>1. Threshold \in Nat \ {0} /\ Len(g) \in Nat
    BY ThrottleAssumption
<1>2. Capped(Len(g) + 1) \in 1 .. Threshold /\ Capped(Len(g) + 1) <= Len(g) + 1
    BY <1>1 DEF Capped
<1>3. << 0 >> \o g \in Seq(Age) /\ Len(<< 0 >> \o g) = Len(g) + 1
    BY AgedGrows
<1>4. /\ (<< 0 >> \o g)[1] = 0
      /\ \A i \in 2 .. Len(g) + 1 : (<< 0 >> \o g)[i] = g[i - 1]
    BY <1>1
<1>5. /\ h \in Seq(Age) /\ Len(h) = Capped(Len(g) + 1)
      /\ \A i \in 1 .. Len(h) : h[i] = (<< 0 >> \o g)[i]
    <2> DEFINE s == << 0 >> \o g
               k == Capped(Len(g) + 1)
    <2>1. s \in Seq(Age) /\ Len(s) = Len(g) + 1 /\ k \in 1 .. Threshold /\ k <= Len(s)
          /\ h = SubSeq(s, 1, k)
        BY <1>2, <1>3
    <2> HIDE DEF s, k
    <2>2. \A i \in 1 .. k : s[i] \in Age /\ 1 + i - 1 = i
        BY <1>1, <2>1
    <2>3. h \in Seq(Age) /\ Len(h) = k /\ \A i \in 1 .. k : h[i] = s[i]
        <3>1. k \in Int /\ 1 \in Int /\ 1 <= k /\ k - 1 + 1 = k
            BY <1>1, <2>1
        <3>2. /\ SubSeq(s, 1, k) \in Seq(Age)
              /\ Len(SubSeq(s, 1, k)) = IF 1 <= k THEN k - 1 + 1 ELSE 0
              /\ \A i \in 1 .. k - 1 + 1 : SubSeq(s, 1, k)[i] = s[1 + i - 1]
            BY <2>2, <3>1, SubSeqProperties
        <3> QED BY <2>1, <2>2, <3>1, <3>2
    <2> QED BY <2>3 DEF s, k
<1> QED BY <1>1, <1>2, <1>4, <1>5

(* An entry and its history after a failure: the entry there was may have    *)
(* been stale, and dropped.                                                  *)
LEMMA FailureTells ==
    ASSUME NEW entry \in [count : 0 .. Threshold, age : Age], NEW g \in Seq(Age),
           Len(g) <= Threshold, EntryTells(entry, g),
           NEW h, h = SubSeq(<< 0 >> \o g, 1, Capped(Len(g) + 1))
    PROVE  EntryTells([count |-> Capped(entry.count + 1), age |-> 0], h)
<1>1. /\ Threshold \in Nat \ {0} /\ Len(g) \in Nat
      /\ entry.count \in Nat /\ entry.count <= Threshold
    BY ThrottleAssumption
<1>2. /\ h \in Seq(Age) /\ Len(h) = Capped(Len(g) + 1) /\ h[1] = 0
      /\ Len(h) \in 1 .. Threshold /\ Len(h) <= Len(g) + 1
      /\ \A i \in 2 .. Len(h) : i - 1 \in 1 .. Len(g) /\ h[i] = g[i - 1]
    BY NewGuess
<1>3. Capped(entry.count + 1) <= Len(h)
    BY <1>1, <1>2 DEF Capped, EntryTells
<1>4. ASSUME Capped(entry.count + 1) < Len(h) PROVE h[Capped(entry.count + 1) + 1] = Old
    <2>1. Capped(entry.count + 1) = entry.count + 1
        BY <1>1, <1>2, <1>4 DEF Capped
    <2>2. entry.count + 2 \in 2 .. Len(h) /\ entry.count < Len(g)
        BY <1>1, <1>2, <1>4, <2>1
    <2>3. h[entry.count + 2] = g[entry.count + 1]
        BY <1>1, <1>2, <2>2
    <2>4. g[entry.count + 1] = Old
        BY <2>2 DEF EntryTells
    <2>5. Capped(entry.count + 1) + 1 = entry.count + 2
        BY <1>1, <2>1
    <2> QED BY <2>3, <2>4, <2>5
<1>5. ASSUME NEW i \in 1 .. Len(h), NEW j \in 1 .. Len(h), i <= j PROVE h[i] <= h[j]
    <2>1. h[j] \in Age /\ 0 <= h[j]
        <3>1. h[j] \in Age
            BY <1>2
        <3> QED BY <3>1, AgedGrows, Zenon
    <2>2. CASE i = 1
        BY <1>2, <2>1, <2>2
    <2>3. CASE i # 1
        <3>1. i \in 2 .. Len(h) /\ j \in 2 .. Len(h)
            BY <1>2, <1>5, <2>3
        <3>2. h[i] = g[i - 1] /\ h[j] = g[j - 1] /\ i - 1 \in 1 .. Len(g) /\ j - 1 \in 1 .. Len(g)
            BY <1>2, <3>1
        <3>3. i - 1 <= j - 1
            BY <1>5
        <3> QED BY <3>2, <3>3 DEF EntryTells
    <2> QED BY <2>2, <2>3
<1> QED BY <1>1, <1>2, <1>3, <1>4, <1>5 DEF EntryTells

(* An entry that is dropped when stale was that of old guesses.              *)
LEMMA PruneTells ==
    ASSUME ThrottleInv, NEW c \in Client
    PROVE  /\ Pruned[c] \in [count : 0 .. Threshold, age : Age]
           /\ Pruned[c].count = 0 => Pruned[c] = NoEntry
           /\ EntryTells(Pruned[c], guesses[c])
<1>1. /\ failures[c] \in [count : 0 .. Threshold, age : Age]
      /\ failures[c].count = 0 => failures[c] = NoEntry
      /\ EntryTells(failures[c], guesses[c])
      /\ guesses[c] \in Seq(Age)
      /\ Threshold \in Nat
    BY ThrottleAssumption DEF ThrottleInv, ThrottleTypeOK
<1>2. CASE failures[c].age > Lockout
    <2>1. failures[c].age = Old /\ failures[c].count > 0
        <3>1. failures[c].age # 0
            BY <1>2, AgedGrows
        <3>2. failures[c].count # 0
            BY <1>1, <3>1 DEF NoEntry
        <3>3. failures[c].age \in 0 .. Lockout + 1 /\ failures[c].count \in Nat
            BY <1>1 DEF Age, Old
        <3> QED BY <1>2, <3>2, <3>3, AgedGrows DEF Old
    <2>2. Len(guesses[c]) > 0 /\ guesses[c][1] = Old
        BY <1>1, <2>1 DEF EntryTells
    <2>3. Pruned[c] = NoEntry
        BY <1>2 DEF Pruned
    <2>4. NoEntry \in [count : 0 .. Threshold, age : Age] /\ NoEntry.count = 0
        BY <1>1, AgedGrows DEF NoEntry
    <2> QED BY <1>1, <2>2, <2>3, <2>4 DEF EntryTells
<1>3. CASE ~(failures[c].age > Lockout)
    BY <1>1, <1>3 DEF Pruned
<1> QED BY <1>2, <1>3

(* A wrong password.                                                         *)
LEMMA WrongKeeps ==
    ASSUME ThrottleInv, NEW c \in Client, RecordFailure(c)
    PROVE  ThrottleInv'
<1> USE DEF ThrottleInv, ThrottleTypeOK
<1>1. Threshold \in Nat \ {0}
    BY ThrottleAssumption
<1> DEFINE new == [count |-> Capped(Pruned[c].count + 1), age |-> 0]
           h == SubSeq(<< 0 >> \o guesses[c], 1, Capped(Len(guesses[c]) + 1))
<1>2. /\ failures' = [d \in Client |-> IF d = c THEN new ELSE Pruned[d]]
      /\ guesses' = [d \in Client |-> IF d = c THEN h ELSE guesses[d]]
    <2>1. failures' = [Pruned EXCEPT ![c] = new] /\ guesses' = [guesses EXCEPT ![c] = h]
        BY DEF RecordFailure
    <2>2. DOMAIN Pruned = Client /\ guesses = [d \in Client |-> guesses[d]]
        BY <2>1 DEF Pruned
    <2> QED BY <2>1, <2>2
<1>3. /\ Pruned[c] \in [count : 0 .. Threshold, age : Age]
      /\ EntryTells(Pruned[c], guesses[c])
      /\ guesses[c] \in Seq(Age) /\ Len(guesses[c]) <= Threshold
    BY PruneTells
<1>4. EntryTells(new, h) /\ h \in Seq(Age) /\ Len(h) <= Threshold
    <2>1. h \in Seq(Age) /\ Len(h) \in 1 .. Threshold
        BY <1>3, NewGuess
    <2>2. EntryTells(new, h)
        BY <1>3, FailureTells
    <2> HIDE DEF new, h
    <2> QED BY <1>1, <2>1, <2>2
<1>5. new \in [count : 0 .. Threshold, age : Age] /\ new.count # 0
    <2>1. Pruned[c].count \in 0 .. Threshold
        BY <1>3
    <2>2. Capped(Pruned[c].count + 1) \in 1 .. Threshold
        BY <1>1, <2>1 DEF Capped
    <2> QED BY <1>1, <2>2, AgedGrows
<1> HIDE DEF new, h
<1>6. ASSUME NEW d \in Client
      PROVE  /\ failures'[d] \in [count : 0 .. Threshold, age : Age]
             /\ failures'[d].count = 0 => failures'[d] = NoEntry
             /\ guesses'[d] \in Seq(Age) /\ Len(guesses'[d]) <= Threshold
             /\ EntryTells(failures'[d], guesses'[d])
    <2>1. CASE d = c
        BY <1>2, <1>4, <1>5, <2>1
    <2>2. CASE d # c
        BY <1>2, <2>2, PruneTells
    <2> QED BY <2>1, <2>2
<1>7. /\ failures' \in [Client -> [count : 0 .. Threshold, age : Age]]
      /\ guesses' \in [Client -> Seq(Age)]
    BY <1>2, <1>6
<1> QED BY <1>6, <1>7 DEF EntryTells
(* A history whose ages have grown.                                          *)
AgedAll(g) == [i \in DOMAIN g |-> Aged(g[i])]

(* It has the guesses it had, in the order they had.                         *)
LEMMA AgedHistory ==
    ASSUME NEW g \in Seq(Age)
    PROVE  /\ AgedAll(g) \in Seq(Age) /\ Len(AgedAll(g)) = Len(g) /\ Len(g) \in Nat
           /\ \A i \in 1 .. Len(g) : g[i] \in Age /\ AgedAll(g)[i] = Aged(g[i])
           /\ (\A i, j \in 1 .. Len(g) : i <= j => g[i] <= g[j]) =>
                 \A i, j \in 1 .. Len(AgedAll(g)) : i <= j => AgedAll(g)[i] <= AgedAll(g)[j]
<1>1. Len(g) \in Nat /\ DOMAIN g = 1 .. Len(g)
    OBVIOUS
<1>2. \A i \in 1 .. Len(g) : g[i] \in Age
    BY <1>1
<1>3. \A i \in 1 .. Len(g) : Aged(g[i]) \in Age
    BY <1>2, AgedGrows, Zenon
<1>4. AgedAll(g) = [i \in 1 .. Len(g) |-> Aged(g[i])]
    BY <1>1 DEF AgedAll
<1>5. /\ AgedAll(g) \in Seq(Age) /\ Len(AgedAll(g)) = Len(g)
      /\ \A i \in 1 .. Len(g) : AgedAll(g)[i] = Aged(g[i])
    <2>1. AgedAll(g) \in [1 .. Len(g) -> Age]
        BY <1>3, <1>4, Zenon
    <2>2. \A i \in 1 .. Len(g) : AgedAll(g)[i] = Aged(g[i])
        BY <1>4, Zenon
    <2> QED BY <1>1, <2>1, <2>2
<1>6. ASSUME \A i, j \in 1 .. Len(g) : i <= j => g[i] <= g[j],
             NEW i \in 1 .. Len(g), NEW j \in 1 .. Len(g), i <= j
      PROVE  AgedAll(g)[i] <= AgedAll(g)[j]
    <2>1. g[i] <= g[j] /\ g[i] \in Age /\ g[j] \in Age
        BY <1>2, <1>6
    <2>2. Aged(g[i]) <= Aged(g[j])
        BY <2>1, AgedGrows, Zenon
    <2> QED BY <1>5, <2>2
<1> QED BY <1>1, <1>2, <1>5, <1>6

(* An hour passes: every age grows alike.                                    *)
LEMMA PassTells ==
    ASSUME NEW entry \in [count : 0 .. Threshold, age : Age], NEW g \in Seq(Age),
           entry.count # 0, EntryTells(entry, g)
    PROVE  EntryTells([entry EXCEPT !.age = Aged(@)], AgedAll(g))
<1> DEFINE h == AgedAll(g)
           older == [entry EXCEPT !.age = Aged(@)]
<1>1. /\ Len(g) \in Nat /\ entry.count \in Nat /\ Threshold \in Nat
      /\ entry.count > 0
    BY ThrottleAssumption
<1>2. /\ Len(h) = Len(g) /\ \A i \in 1 .. Len(g) : h[i] = Aged(g[i])
      /\ \A i, j \in 1 .. Len(h) : i <= j => h[i] <= h[j]
    BY AgedHistory DEF EntryTells
<1>3. older.count = entry.count /\ older.age = Aged(entry.age)
    OBVIOUS
<1> HIDE DEF h, older
<1>4. h[1] = older.age
    BY <1>1, <1>2, <1>3 DEF EntryTells
<1>5. older.count < Len(h) => h[older.count + 1] = Old
    BY <1>1, <1>2, <1>3, AgedGrows DEF EntryTells
<1>6. EntryTells(older, h)
    BY <1>1, <1>2, <1>3, <1>4, <1>5 DEF EntryTells
<1> QED BY <1>6 DEF h, older

(* Without an entry there are no guesses, or only old ones: they stay old.   *)
LEMMA PassTellsNothing ==
    ASSUME NEW g \in Seq(Age), EntryTells(NoEntry, g)
    PROVE  EntryTells(NoEntry, AgedAll(g))
<1> DEFINE h == AgedAll(g)
<1>1. /\ Len(h) = Len(g) /\ Len(g) \in Nat
      /\ \A i \in 1 .. Len(g) : h[i] = Aged(g[i])
      /\ \A i, j \in 1 .. Len(h) : i <= j => h[i] <= h[j]
    BY AgedHistory DEF EntryTells
<1>2. NoEntry.count = 0
    BY DEF NoEntry
<1> HIDE DEF h
<1>3. 0 < Len(h) => h[1] = Old
    BY <1>1, <1>2, AgedGrows DEF EntryTells
<1>4. EntryTells(NoEntry, h)
    BY <1>1, <1>2, <1>3 DEF EntryTells
<1> QED BY <1>4 DEF h

(* Time passes.                                                              *)
LEMMA PassKeeps ==
    ASSUME ThrottleInv, Pass
    PROVE  ThrottleInv'
<1> USE DEF ThrottleInv, ThrottleTypeOK
<1>1. ASSUME NEW c \in Client
      PROVE  /\ failures'[c] \in [count : 0 .. Threshold, age : Age]
             /\ failures'[c].count = 0 => failures'[c] = NoEntry
             /\ guesses'[c] \in Seq(Age) /\ Len(guesses'[c]) <= Threshold
             /\ EntryTells(failures'[c], guesses'[c])
    <2>1. guesses'[c] = AgedAll(guesses[c]) /\ guesses[c] \in Seq(Age)
        BY DEF Pass, AgedAll
    <2>2. guesses'[c] \in Seq(Age) /\ Len(guesses'[c]) <= Threshold
        BY <2>1, AgedHistory
    <2>3. CASE failures[c].count = 0
        <3>1. failures[c] = NoEntry /\ failures'[c] = NoEntry
            BY <2>3 DEF Pass
        <3>2. NoEntry \in [count : 0 .. Threshold, age : Age]
            BY ThrottleAssumption, AgedGrows DEF NoEntry
        <3>3. EntryTells(NoEntry, guesses'[c])
            BY <2>1, <3>1, PassTellsNothing
        <3> QED BY <2>2, <3>1, <3>2, <3>3
    <2>4. CASE failures[c].count # 0
        <3>1. failures'[c] = [failures[c] EXCEPT !.age = Aged(@)]
            BY <2>4 DEF Pass
        <3>2. failures[c] \in [count : 0 .. Threshold, age : Age] /\ EntryTells(failures[c], guesses[c])
            OBVIOUS
        <3>4. EntryTells([failures[c] EXCEPT !.age = Aged(@)], AgedAll(guesses[c]))
            BY <2>1, <2>4, <3>2, PassTells
        <3>3. failures'[c] \in [count : 0 .. Threshold, age : Age] /\ failures'[c].count # 0
            BY <2>4, <3>1, AgedGrows
        <3> QED BY <2>1, <2>2, <3>1, <3>3, <3>4
    <2> QED BY <2>3, <2>4
<1>2. /\ failures' \in [Client -> [count : 0 .. Threshold, age : Age]]
      /\ guesses' \in [Client -> Seq(Age)]
    BY <1>1 DEF Pass
<1> QED BY <1>1, <1>2 DEF EntryTells

(* A success, or a restart of the server, leaves no entry and no guesses.    *)
LEMMA ForgetKeeps ==
    ASSUME ThrottleInv, NEW c \in Client, Right(c) \/ Restart
    PROVE  ThrottleInv'
<1> USE DEF ThrottleInv, ThrottleTypeOK
<1>1. /\ NoEntry \in [count : 0 .. Threshold, age : Age] /\ <<>> \in Seq(Age)
      /\ Len(<<>>) <= Threshold /\ EntryTells(NoEntry, <<>>)
    BY ThrottleAssumption, AgedGrows DEF NoEntry, EntryTells
<1>2. /\ failures' \in [Client -> [count : 0 .. Threshold, age : Age]]
      /\ guesses' \in [Client -> Seq(Age)]
    BY <1>1 DEF Right, Restart
<1>3. ASSUME NEW d \in Client
      PROVE  \/ failures'[d] = NoEntry /\ guesses'[d] = <<>>
             \/ failures'[d] = failures[d] /\ guesses'[d] = guesses[d]
    BY DEF Right, Restart
<1>4. ASSUME NEW d \in Client
      PROVE  /\ failures'[d].count = 0 => failures'[d] = NoEntry
             /\ Len(guesses'[d]) <= Threshold
             /\ EntryTells(failures'[d], guesses'[d])
    BY <1>1, <1>3
<1> QED BY <1>2, <1>4 DEF EntryTells

(* And before the first guess.                                               *)
LEMMA ThrottleInitOK == ThrottleInit => ThrottleInv
<1>1. /\ NoEntry \in [count : 0 .. Threshold, age : Age] /\ <<>> \in Seq(Age)
      /\ Len(<<>>) <= Threshold /\ EntryTells(NoEntry, <<>>)
    BY ThrottleAssumption, AgedGrows DEF NoEntry, EntryTells
<1> QED BY <1>1 DEF ThrottleInit, ThrottleInv, ThrottleTypeOK

(* With the table full, the guesses of a client that may try again span the  *)
(* lockout: the latest is as old as its entry, or the entries do not count   *)
(* the oldest, which is old.                                                 *)
LEMMA GuessesSpanLockout ==
    ASSUME ThrottleInv, NEW c \in Client, ~Locked(c), Len(guesses[c]) = Threshold
    PROVE  guesses[c][Threshold] >= Lockout
<1> DEFINE entry == failures[c]
           g == guesses[c]
<1>1. /\ entry.count \in 0 .. Threshold /\ entry.age \in Age
      /\ EntryTells(entry, g) /\ Len(g) = Threshold
      /\ \A i \in 1 .. Threshold : g[i] \in Age
    BY DEF ThrottleInv, ThrottleTypeOK
<1>2. Threshold \in Nat \ {0} /\ Lockout \in Nat /\ Old = Lockout + 1 /\ Age \subseteq Nat
    BY ThrottleAssumption, AgedGrows DEF Old
<1>3. entry.count < Threshold \/ entry.age >= Lockout
    <2>1. entry.age \in Nat
        BY <1>1, <1>2, Zenon
    <2>2. entry.count \in Nat
        BY <1>1, <1>2
    <2> QED BY <1>2, <2>1, <2>2 DEF Locked
<1> HIDE DEF entry, g
<1>4. CASE entry.count < Threshold
    <2>1. entry.count + 1 \in 1 .. Threshold /\ g[entry.count + 1] = Old
        BY <1>1, <1>2, <1>4 DEF EntryTells
    <2>2. g[entry.count + 1] <= g[Threshold] /\ g[Threshold] \in Nat
        <3>1. Threshold \in 1 .. Threshold /\ entry.count + 1 <= Threshold
            BY <1>2, <2>1
        <3>2. g[Threshold] \in Age
            BY <1>1, <3>1
        <3> QED BY <1>1, <1>2, <2>1, <3>1, <3>2 DEF EntryTells
    <2>3. Lockout <= g[Threshold]
        BY <1>2, <2>1, <2>2
    <2> QED BY <1>2, <2>2, <2>3 DEF g
<1>5. CASE entry.count = Threshold
    <2>1. g[1] = entry.age /\ entry.age >= Lockout /\ 1 \in 1 .. Threshold
        BY <1>1, <1>2, <1>3, <1>5 DEF EntryTells
    <2>2. g[1] <= g[Threshold] /\ g[Threshold] \in Nat /\ entry.age \in Nat
        <3>1. Threshold \in 1 .. Threshold /\ 1 <= Threshold
            BY <1>2
        <3>2. g[Threshold] \in Age
            BY <1>1, <3>1
        <3> QED BY <1>1, <1>2, <2>1, <3>1, <3>2 DEF EntryTells
    <2>3. Lockout <= g[Threshold]
        BY <1>2, <2>1, <2>2
    <2> QED BY <1>2, <2>2, <2>3 DEF g
<1> QED BY <1>1, <1>2, <1>4, <1>5
(***************************************************************************)
(* All together                                                            *)
(***************************************************************************)

(* A request is of a mailbox, and of a day if of any.                        *)
LEMMA DaysAreNumbers == Days \subseteq Nat \cup {EveryDay}
<1>1. ASSUME NEW m \in Message, DateOf[m] # Undated PROVE DayOf[DateOf[m]] \in Nat
    BY <1>1, DatesAndDigests, WalkAssumption
<1> QED BY <1>1 DEF Days

(* What the reader may ask for has the types of a request.                   *)
LEMMA RequestsType ==
    ASSUME WalkInv, NEW request \in Requests
    PROVE  request \in Request
<1>1. First \in Cursor
    BY WalkAssumption DEF First, Cursor
<1>2. CASE walk.next = End
    BY <1>1, <1>2, DaysAreNumbers DEF Requests, Request
<1>3. CASE walk.next # End
    <2>1. request = [box |-> walk.box, day |-> walk.day, cursor |-> walk.next]
        BY <1>3 DEF Requests
    <2> QED BY <2>1, WalkTypes DEF Request
<1> QED BY <1>2, <1>3

(* A request that is answered is one the reader may make: the first page of  *)
(* a walk, or during a walk the next.                                        *)
LEMMA AnswerIs ==
    ASSUME WalkInv, NEW request \in Requests, Answer(request)
    PROVE  /\ walk.next # End => Older
           /\ \/ Older
              \/ \E box \in Mailbox, day \in Nat \cup {EveryDay} : FirstPage(box, day)
<1>1. CASE walk.next = End
    <2>1. request.box \in Mailbox /\ request.day \in Days
        BY <1>1 DEF Requests
    <2> QED BY <1>1, <2>1, DaysAreNumbers DEF Answer
<1>2. CASE walk.next # End
    <2>1. request.cursor = walk.next
        BY <1>2 DEF Requests
    <2>2. walk.next # First
        BY <1>2 DEF WalkInv, OnItsWay, First
    <2> QED BY <2>1, <2>2 DEF Answer
<1> QED BY <1>1, <1>2

(* So every answer keeps the invariant of the walk.                          *)
LEMMA AnswerKeeps ==
    ASSUME WalkInv, NEW request \in Requests, Answer(request)
    PROVE  WalkInv'
BY AnswerIs, FirstPageKeeps, OlderKeeps

(* What the steps of the session do to the walk, and to the throttle.        *)
LEMMA WhatStepsDo ==
    ASSUME WebInv, AllNext
    PROVE  /\ \/ UNCHANGED vars
              \/ \E request \in Requests : Answer(request)
              \/ (\E m \in Message : Arrive(m)) \/ Tick
           /\ \/ UNCHANGED throttleVars
              \/ RecordFailure(Reader) \/ Right(Reader) \/ Restart \/ Pass
           /\ signedIn' \in BOOLEAN
           /\ \/ target' = NoRequest
              \/ UNCHANGED walk /\ (UNCHANGED target \/ target' \in Requests)
<1>0. signedIn \in BOOLEAN /\ TargetIsNext
    BY DEF WebInv, AllTypeOK
<1> USE DEF sessionVars, vars
<1>1. CASE Serve
    BY <1>0, <1>1 DEF Serve
<1>2. CASE TurnAway
    BY <1>0, <1>2 DEF TurnAway, Target
<1>3. CASE Follow
    <2>1. target \in Requests
        BY <1>0, <1>3 DEF Follow, TargetIsNext
    <2>2. Answer(target) /\ target' = NoRequest /\ UNCHANGED throttleVars /\ signedIn' = signedIn
        BY <1>3 DEF Follow
    <2> QED BY <1>0, <2>1, <2>2
<1>4. CASE SubmitRefused \/ SubmitWrong \/ SubmitRight
    BY <1>0, <1>4 DEF SubmitRefused, SubmitWrong, SubmitRight, Refuse, Wrong
<1>5. CASE SignedOut \/ RestartServer \/ TimePasses
    BY <1>0, <1>5 DEF SignedOut, RestartServer, TimePasses
<1>6. CASE Meanwhile
    BY <1>0, <1>6 DEF Meanwhile, Arrive, Tick
<1> QED BY <1>1, <1>2, <1>3, <1>4, <1>5, <1>6 DEF AllNext

(* The invariant holds at the start,                                         *)
LEMMA WebInit == AllInit => WebInv
<1> SUFFICES ASSUME AllInit PROVE WebInv
    OBVIOUS
<1>1. TypeOK /\ walk.next = End
    <2>1. End \in Cursor
        BY WalkAssumption DEF End, Cursor
    <2>2. Cardinality({}) = 0 /\ Limit \in Nat
        BY WalkAssumption, FS_EmptySet
    <2> QED BY <2>1, <2>2 DEF AllInit, Init, TypeOK
<1>2. WalkInv
    BY <1>1 DEF AllInit, Init, WalkInv, OnItsWay, InitialOK, ShownOrPending, CursorBehindShown
<1>3. ThrottleInv
    BY ThrottleInitOK DEF AllInit
<1> QED BY <1>1, <1>2, <1>3 DEF AllInit, WebInv, AllTypeOK, ThrottleInv, TargetIsNext

(* and every step keeps it.                                                  *)
LEMMA WebStep == WebInv /\ [AllNext]_allVars => WebInv'
<1> SUFFICES ASSUME WebInv, [AllNext]_allVars PROVE WebInv'
    OBVIOUS
<1>0. WalkInv /\ ThrottleInv /\ TargetIsNext /\ AllTypeOK
    BY DEF WebInv
<1>1. CASE UNCHANGED allVars
    <2>1. UNCHANGED <<archive, horizon, walk, page, seen, initial, far, failures, guesses,
                      signedIn, target>>
        BY <1>1 DEF allVars, vars, throttleVars, sessionVars
    <2>2. WalkInv'
        BY <1>0, <2>1 DEF WalkInv, TypeOK, OnItsWay, InitialOK, ShownOrPending, Shown,
              CursorBehindShown, OnDay, Implausible, Plausible, Behind, Pending, After
    <2>3. ThrottleInv'
        BY <1>0, <2>1 DEF ThrottleInv, ThrottleTypeOK, EntryTells
    <2> QED BY <1>0, <2>1, <2>2, <2>3
            DEF WebInv, AllTypeOK, WalkInv, ThrottleInv, TargetIsNext, Requests
<1>2. CASE AllNext
    <2>1. WalkInv'
        <3>1. CASE UNCHANGED vars
            BY <1>0, <3>1 DEF vars, WalkInv, TypeOK, OnItsWay, InitialOK, ShownOrPending, Shown,
                  CursorBehindShown, OnDay, Implausible, Plausible, Behind, Pending, After
        <3> QED BY <1>0, <1>2, <3>1, WhatStepsDo, AnswerKeeps, MeanwhileKeeps
    <2>2. ThrottleInv'
        <3>1. CASE UNCHANGED throttleVars
            BY <1>0, <3>1 DEF throttleVars, ThrottleInv, ThrottleTypeOK, EntryTells
        <3> QED BY <1>0, <1>2, <3>1, WhatStepsDo, WrongKeeps, ForgetKeeps, PassKeeps,
                   SessionAssumption
    <2>3. TargetIsNext'
        <3>1. CASE target' = NoRequest
            BY <3>1 DEF TargetIsNext
        <3>2. CASE UNCHANGED walk /\ (UNCHANGED target \/ target' \in Requests)
            BY <1>0, <3>2 DEF TargetIsNext, Requests
        <3> QED BY <1>2, <3>1, <3>2, WhatStepsDo
    <2>4. target' \in Request \cup {NoRequest}
        <3>1. CASE target' \in Requests
            BY <1>0, <3>1, RequestsType
        <3> QED BY <1>0, <1>2, <3>1, WhatStepsDo DEF AllTypeOK
    <2>5. signedIn' \in BOOLEAN
        BY <1>2, WhatStepsDo
    <2> QED BY <2>1, <2>2, <2>3, <2>4, <2>5 DEF WebInv, AllTypeOK, WalkInv, ThrottleInv, Request
<1> QED BY <1>1, <1>2

(* So it always holds.                                                       *)
LEMMA WebInvariant == AllSpec => []WebInv
BY WebInit, WebStep, PTL DEF AllSpec

(***************************************************************************)
(* Theorems                                                                *)
(***************************************************************************)

\* index() and the login page keep to their types: a page never has more
\* messages than were asked for, and a table entry never counts beyond the
\* threshold.
THEOREM WebTypes == AllSpec => []AllTypeOK
<1>1. WebInv => AllTypeOK
    BY DEF WebInv
<1> QED BY <1>1, WebInvariant, PTL

\* list_messages_keyset and the cursors of index(): whatever is ingested
\* meanwhile, and however long the walk, at its end everything that was there
\* when it began and had no far date has been shown.
THEOREM NothingSkippedAlways == AllSpec => []NothingSkipped
<1>1. WebInv => NothingSkipped
    BY DEF WebInv, WalkInv, ShownOrPending, NothingSkipped, Shown
<1> QED BY <1>1, WebInvariant, PTL

\* The same: pages follow each other in the order of the listing, so nothing
\* is shown twice, until a message dated in the far future has come up.
THEOREM PagesInOrderAlways == AllSpec => PagesInOrder
<1>1. WebInv => [Older /\ far \cap seen' = {} => \A m \in page', n \in seen' : Before(n, m)]_vars
    <2> SUFFICES ASSUME WebInv, Older, far \cap seen' = {}
                 PROVE  \A m \in page', n \in seen' : Before(n, m)
        OBVIOUS
    <2>1. WalkInv
        BY DEF WebInv
    <2>2. seen' = Shown
        BY <2>1, OlderIs
    <2> QED BY <2>1, <2>2, OlderInOrder
<1> QED BY <1>1, WebInvariant, PTL DEF PagesInOrder

\* The middleware and the login page (web/app.py): the request that was turned
\* away is the one that is answered after the login, so a walk goes on.
THEOREM WalkSurvivesLoginAlways == AllSpec => WalkSurvivesLogin
<1>1. WebInv /\ [AllNext]_allVars =>
        [walk.next # End => seen \subseteq seen' /\ initial' = initial]_allVars
    <2> SUFFICES ASSUME WebInv, AllNext, walk.next # End
                 PROVE  seen \subseteq seen' /\ initial' = initial
        OBVIOUS
    <2>1. CASE UNCHANGED vars
        BY <2>1 DEF vars
    <2>2. CASE Older
        BY <2>2 DEF Older
    <2>3. CASE (\E m \in Message : Arrive(m)) \/ Tick
        BY <2>3 DEF Arrive, Tick
    <2>4. WalkInv
        BY DEF WebInv
    <2> QED BY <2>1, <2>2, <2>3, <2>4, WhatStepsDo, AnswerIs
<1> QED BY <1>1, WebInvariant, PTL DEF AllSpec, WalkSurvivesLogin

\* LoginThrottle: however guesses are spread over time, and whatever _prune has
\* dropped in between, Threshold + 1 wrong ones of a client span the lockout.
THEOREM FewGuessesAlways == AllSpec => FewGuesses
<1>1. WebInv => [\A c \in Client : Wrong(c) /\ Len(guesses[c]) = Threshold =>
                    guesses[c][Threshold] >= Lockout]_allVars
    <2> SUFFICES ASSUME WebInv, NEW c \in Client, Wrong(c), Len(guesses[c]) = Threshold
                 PROVE  guesses[c][Threshold] >= Lockout
        OBVIOUS
    <2> QED BY GuessesSpanLockout DEF WebInv, Wrong
<1> QED BY <1>1, WebInvariant, PTL DEF FewGuesses
=============================================================================
