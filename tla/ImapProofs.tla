------------------------------ MODULE ImapProofs ------------------------------
(***************************************************************************)
(* What holds of the UIDs of the IMAP view for any number of messages,     *)
(* labels, backfills and sessions.                                         *)
(***************************************************************************)
EXTENDS ImapProjection, FiniteSetTheorems, TLAPS

(***************************************************************************)
(* The inductive invariant, in named parts                                 *)
(***************************************************************************)

\* rows carry the numbers above base up to n, each of them once.
Numbers(rows, base, n) ==
  /\ \A r \in rows : r.uid \in (base + 1)..n
  /\ \A r, s \in rows : r.uid = s.uid => r = s
  /\ \A k \in (base + 1)..n : \E r \in rows : r.uid = k

\* The highest UID of each folder.
Tops == [f \in Folder |-> TopUid(f)]

\* The UIDs of a folder are numbered from 1 without a gap.
FoldersInv == Tops \in [Folder -> Nat] /\ \A f \in Folder : Numbers(Rows(f), 0, Tops[f])

\* What a job is about to insert goes on from a maximum that its folder has or
\* had; the unique keys decide whether it still may.
Continues(rows, tops) ==
  \E f \in Folder, n \in Nat :
    \E base \in 0..tops[f] :
      /\ base <= n
      /\ \A r \in rows : r.folder = f
      /\ Numbers(rows, base, n)

\* Rows are of messages that have arrived, and in INBOX the UID of a message is
\* its place in the order of arrival.
ByPlace(rows, seq) ==
  \A r \in rows :
    /\ \E i \in 1..Len(seq) : seq[i] = r.msg
    /\ r.folder = Inbox => r.uid \in 1..Len(seq) /\ seq[r.uid] = r.msg

JobsInv ==
  \A b \in Job :
    /\ job[b].todo \cup job[b].drafts \subseteq Archive
    /\ job[b].pc = "insert" => /\ Continues(job[b].rows, Tops)
                               /\ ByPlace(job[b].rows, arrived)

\* A session knows of no UID that its folder does not have.
SessionsInv ==
  \A c \in Client :
    /\ \A f \in Folder : client[c].top[f] <= Tops[f]
    /\ client[c].pc = "in" => client[c].next <= Tops[client[c].folder] + 1

UidInv == TypeOK /\ FoldersInv /\ ByPlace(uids, arrived) /\ JobsInv /\ SessionsInv

(***************************************************************************)
(* The order of arrival                                                    *)
(***************************************************************************)

\* The place of an element of a sequence without repetitions.
LEMMA ChosenPlace ==
  ASSUME NEW n \in Nat, NEW seq,
         \A i, j \in 1..n : seq[i] = seq[j] => i = j,
         NEW i \in 1..n
  PROVE  (CHOOSE j \in 1..n : seq[j] = seq[i]) = i
OBVIOUS

(* A message of the archive is found at its place, and only there.           *)
LEMMA PlaceOf ==
  ASSUME TypeOK
  PROVE  /\ Len(arrived) \in Nat
         /\ \A m \in Archive : Place(m) \in 1..Len(arrived) /\ arrived[Place(m)] = m
         /\ \A i \in 1..Len(arrived) : arrived[i] \in Archive /\ Place(arrived[i]) = i
<1>1. Len(arrived) \in Nat
  BY DEF TypeOK
<1>2. ASSUME NEW i \in 1..Len(arrived)
      PROVE  arrived[i] \in Archive /\ Place(arrived[i]) = i
  BY <1>1, <1>2, ChosenPlace DEF TypeOK, Archive, Place
<1>3. ASSUME NEW m \in Archive
      PROVE  Place(m) \in 1..Len(arrived) /\ arrived[Place(m)] = m
  BY <1>2 DEF Archive
<1> QED BY <1>1, <1>2, <1>3

(* A finite archive: arrived lists it.                                       *)
LEMMA ArchiveFinite ==
  ASSUME TypeOK
  PROVE  IsFiniteSet(Archive)
<1> DEFINE f == [i \in 1..Len(arrived) |-> arrived[i]]
<1>1. f \in Surjection(1..Len(arrived), Archive)
  BY DEF Surjection, Archive
<1>2. IsFiniteSet(1..Len(arrived))
  BY PlaceOf, FS_Interval
<1> QED BY <1>1, <1>2, FS_Surjection

(* row_number() over a set of messages numbers them from 1, each once.       *)
LEMMA RankNumbers ==
  ASSUME TypeOK, NEW S \in SUBSET Archive
  PROVE  /\ Cardinality(S) \in Nat
         /\ \A m \in S : Rank(m, S) \in 1..Cardinality(S)
         /\ \A m, x \in S : Rank(m, S) = Rank(x, S) => m = x
         /\ \A k \in 1..Cardinality(S) : \E m \in S : Rank(m, S) = k
<1> DEFINE Upto(m) == {x \in S : Place(x) <= Place(m)}
           c == Cardinality(S)
<1>1. IsFiniteSet(S) /\ c \in Nat
  BY ArchiveFinite, FS_Subset, FS_CardinalityType
<1>2. \A m \in S : Place(m) \in Nat
  BY PlaceOf
<1>3. ASSUME NEW m \in S
      PROVE  IsFiniteSet(Upto(m)) /\ Rank(m, S) = Cardinality(Upto(m)) /\ Rank(m, S) \in 1..c
  <2>1. IsFiniteSet(Upto(m)) /\ Cardinality(Upto(m)) \in Nat /\ Cardinality(Upto(m)) <= c
    BY <1>1, FS_Subset, FS_CardinalityType
  <2>2. m \in Upto(m)
    BY <1>2
  <2>3. Cardinality(Upto(m)) # 0
    BY <2>1, <2>2, FS_EmptySet
  <2>4. Rank(m, S) = Cardinality(Upto(m))
    BY DEF Rank
  <2> HIDE DEF Upto, c
  <2> QED BY <1>1, <2>1, <2>3, <2>4
<1>4. ASSUME NEW m \in S, NEW x \in S, Place(m) < Place(x)
      PROVE  Rank(m, S) < Rank(x, S)
  <2>1. Upto(m) \in SUBSET Upto(x)
    BY <1>2, <1>4
  <2>2. x \in Upto(x) /\ x \notin Upto(m)
    BY <1>2, <1>4
  <2>3. Cardinality(Upto(m)) <= Cardinality(Upto(x))
        /\ Cardinality(Upto(m)) # Cardinality(Upto(x))
    BY <1>3, <2>1, <2>2, FS_Subset
  <2> HIDE DEF Upto, c
  <2> QED BY <1>1, <1>3, <2>3
<1>5. ASSUME NEW m \in S, NEW x \in S, Rank(m, S) = Rank(x, S)
      PROVE  m = x
  <2>1. Place(m) = Place(x)
    <3> HIDE DEF Upto, c
    <3> QED BY <1>1, <1>2, <1>3, <1>4, <1>5
  <2> QED BY <2>1, PlaceOf
<1>6. ASSUME NEW k \in 1..c
      PROVE  \E m \in S : Rank(m, S) = k
  <2> DEFINE f == [m \in S |-> Rank(m, S)]
  <2>1. f \in Injection(S, 1..c)
    <3> HIDE DEF Upto, c
    <3> QED BY <1>3, <1>5 DEF Injection, IsInjective
  <2>2. IsFiniteSet(1..c) /\ Cardinality(1..c) = c
    <3> HIDE DEF c
    <3> QED BY <1>1, FS_Interval
  <2>3. f \in Surjection(S, 1..c)
    <3> HIDE DEF f
    <3> QED BY <2>1, <2>2, FS_Injection
  <2> QED BY <1>6, <2>3 DEF Surjection
<1> QED BY <1>1, <1>3, <1>5, <1>6

(* Over the messages behind the first k the numbers go on from k.            *)
LEMMA RankFrom ==
  ASSUME TypeOK, NEW k \in Nat,
         NEW S, S = {m \in Archive : Place(m) > k},
         NEW m \in S
  PROVE  k + Rank(m, S) = Place(m)
<1> DEFINE T == {x \in S : Place(x) <= Place(m)}
           I == (k + 1)..Place(m)
           f == [x \in T |-> Place(x)]
<1>1. Place(m) \in 1..Len(arrived) /\ Len(arrived) \in Nat /\ Place(m) > k
  BY PlaceOf
<1>2. \A x \in T : f[x] \in I
  BY PlaceOf
<1>3. \A x, y \in T : f[x] = f[y] => x = y
  BY PlaceOf
<1>4. \A i \in I : \E x \in T : f[x] = i
  <2> TAKE i \in I
  <2>1. i \in 1..Len(arrived) /\ i > k /\ i <= Place(m)
    BY <1>1
  <2>2. arrived[i] \in T /\ f[arrived[i]] = i
    BY <2>1, PlaceOf
  <2> QED BY <2>2
<1>5. f \in Bijection(T, I)
  <2> HIDE DEF T, I
  <2> QED BY <1>2, <1>3, <1>4 DEF Bijection, Injection, Surjection, IsInjective
<1>6. IsFiniteSet(T)
  BY ArchiveFinite, FS_Subset
<1>7. Cardinality(I) = Cardinality(T)
  BY <1>5, <1>6, FS_Bijection DEF ExistsBijection
<1>8. Cardinality(I) = Place(m) - k
  BY <1>1, FS_Interval
<1> QED BY <1>1, <1>7, <1>8 DEF Rank

(***************************************************************************)
(* Highest UIDs                                                            *)
(***************************************************************************)

(* The maximum of rows numbered from 1, as TopUid chooses it.                *)
LEMMA ChosenTop ==
  ASSUME NEW rows, NEW n \in Nat, Numbers(rows, 0, n)
  PROVE  (CHOOSE k \in {0} \cup {r.uid : r \in rows} : \A r \in rows : r.uid <= k) = n
<1> DEFINE S == {0} \cup {r.uid : r \in rows}
           Max(k) == \A r \in rows : r.uid <= k
<1>1. n \in S /\ Max(n)
  <2>1. \A r \in rows : r.uid \in 1..n
    BY DEF Numbers
  <2>2. CASE n = 0
    BY <2>1, <2>2
  <2>3. CASE n # 0
    <3>1. n \in 1..n
      BY <2>3
    <3>2. PICK r \in rows : r.uid = n
      BY <3>1 DEF Numbers
    <3> QED BY <2>1, <3>2
  <2> QED BY <2>2, <2>3
<1>2. ASSUME NEW k \in S, Max(k) PROVE k = n
  <2>1. \A r \in rows : r.uid \in 1..n
    BY DEF Numbers
  <2>2. k \in 0..n
    BY <2>1
  <2>3. CASE n = 0
    BY <2>2, <2>3
  <2>4. CASE n # 0
    <3>1. n \in 1..n
      BY <2>4
    <3>2. PICK r \in rows : r.uid = n
      BY <3>1 DEF Numbers
    <3> QED BY <1>2, <2>2, <3>2
  <2> QED BY <2>3, <2>4
<1> HIDE DEF S, Max
<1>3. (CHOOSE k \in S : Max(k)) = n
  BY <1>1, <1>2
<1> QED BY <1>3 DEF S, Max

(* Rows that do not clash with those there are continue their numbers.       *)
LEMMA InsertContinues ==
  ASSUME UidInv, NEW rows \in SUBSET UidRow, Continues(rows, Tops), ~Clash(rows),
         uids' = uids \cup rows
  PROVE  /\ FoldersInv'
         /\ \A g \in Folder : Tops[g] <= Tops'[g]
         /\ \A r \in rows : r.uid > Tops[r.folder]
<1>f. PICK f \in Folder, n \in Nat : \E base \in 0..Tops[f] :
             base <= n /\ (\A r \in rows : r.folder = f) /\ Numbers(rows, base, n)
  BY DEF Continues
<1>1. PICK base \in 0..Tops[f] :
             base <= n /\ (\A r \in rows : r.folder = f) /\ Numbers(rows, base, n)
  BY <1>f
<1>2. Tops \in [Folder -> Nat] /\ \A g \in Folder : Numbers(Rows(g), 0, Tops[g])
  BY DEF UidInv, FoldersInv
<1>3. CASE rows = {}
  <2>1. uids' = uids
    BY <1>3
  <2>2. Tops' = Tops
    BY <2>1 DEF Tops, TopUid, Rows
  <2>3. \A g \in Folder : Rows(g)' = Rows(g)
    BY <2>1 DEF Rows
  <2> QED BY <1>2, <1>3, <2>2, <2>3 DEF FoldersInv
<1>4. CASE rows # {}
  <2>1. n > base
    BY <1>1, <1>2, <1>4 DEF Numbers
  <2>2. base = Tops[f]
    <3> SUFFICES ASSUME base < Tops[f] PROVE FALSE
      BY <1>1, <1>2
    <3>1. base + 1 \in (base + 1)..n /\ base + 1 \in 1..Tops[f]
      BY <1>1, <1>2, <2>1
    <3>2. PICK r \in rows : r.uid = base + 1
      BY <1>1, <3>1 DEF Numbers
    <3>3. PICK s \in Rows(f) : s.uid = base + 1
      BY <1>2, <3>1 DEF Numbers
    <3> QED BY <1>1, <3>2, <3>3 DEF Clash, Rows
  <2>3. Rows(f)' = Rows(f) \cup rows
    BY <1>1 DEF Rows
  <2>4. \A g \in Folder \ {f} : Rows(g)' = Rows(g)
    BY <1>1 DEF Rows
  <2>5. Numbers(Rows(f) \cup rows, 0, n)
    <3>1. \A r \in Rows(f) : r.uid \in 1..base
      BY <1>2, <2>2 DEF Numbers
    <3>2. \A r \in rows : r.uid \in (base + 1)..n
      BY <1>1 DEF Numbers
    <3>3. ASSUME NEW k \in 1..n PROVE \E r \in Rows(f) \cup rows : r.uid = k
      <4>1. k \in 1..base \/ k \in (base + 1)..n
        BY <1>1, <1>2
      <4> QED BY <1>1, <1>2, <2>2, <4>1 DEF Numbers
    <3>4. ASSUME NEW r \in Rows(f) \cup rows, NEW s \in Rows(f) \cup rows, r.uid = s.uid
          PROVE  r = s
      BY <1>1, <1>2, <2>2, <3>1, <3>2, <3>4 DEF Numbers
    <3> QED BY <1>1, <2>1, <3>1, <3>2, <3>3, <3>4 DEF Numbers
  <2>6. TopUid(f)' = n
    BY <2>3, <2>5, ChosenTop DEF TopUid
  <2>7. \A g \in Folder \ {f} : TopUid(g)' = Tops[g]
    BY <2>4 DEF Tops, TopUid
  <2>8. Tops' = [g \in Folder |-> IF g = f THEN n ELSE Tops[g]]
    BY <2>6, <2>7 DEF Tops
  <2>9. FoldersInv'
    BY <1>2, <2>3, <2>4, <2>5, <2>8 DEF FoldersInv
  <2>10. \A r \in rows : r.uid > Tops[r.folder]
    BY <1>1, <1>2, <2>2 DEF Numbers
  <2> QED BY <1>1, <1>2, <2>1, <2>2, <2>8, <2>9, <2>10
<1> QED BY <1>3, <1>4

(* The statement that numbers a folder continues what the folder has.        *)
LEMMA NumberedContinues ==
  ASSUME UidInv, NEW f \in Folder
  PROVE  /\ Numbered(f) \in SUBSET UidRow
         /\ Continues(Numbered(f), Tops)
         /\ ByPlace(Numbered(f), arrived)
<1> DEFINE S == Unassigned(f)
           n == Tops[f] + Cardinality(S)
<1>1. TypeOK /\ Tops[f] = TopUid(f) /\ Tops[f] \in Nat /\ Numbers(Rows(f), 0, Tops[f])
  BY DEF UidInv, FoldersInv, Tops
<1>2. S \in SUBSET Archive
  BY DEF Unassigned
<1>3. /\ Cardinality(S) \in Nat
      /\ \A m \in S : Rank(m, S) \in 1..Cardinality(S)
      /\ \A m, x \in S : Rank(m, S) = Rank(x, S) => m = x
      /\ \A k \in 1..Cardinality(S) : \E m \in S : Rank(m, S) = k
  BY <1>1, <1>2, RankNumbers
<1>4. Archive \subseteq Message /\ \A m \in Archive : \E i \in 1..Len(arrived) : arrived[i] = m
  BY <1>1 DEF TypeOK, Archive
<1>5. \A r \in Numbered(f) : r.msg \in S /\ r.folder = f /\ r.uid = Tops[f] + Rank(r.msg, S)
                              /\ r = [folder |-> f, msg |-> r.msg, uid |-> r.uid]
  BY <1>1 DEF Numbered
<1>6. \A m \in S : \E r \in Numbered(f) : r.msg = m
  <2> TAKE m \in S
  <2> DEFINE r == [folder |-> f, msg |-> m, uid |-> TopUid(f) + Rank(m, S)]
  <2>1. r \in Numbered(f) /\ r.msg = m
    BY DEF Numbered
  <2> QED BY <2>1
<1>7. Numbered(f) \in SUBSET UidRow
  <2> HIDE DEF S
  <2> QED BY <1>1, <1>2, <1>3, <1>4, <1>5 DEF UidRow
<1>8. Numbers(Numbered(f), Tops[f], n) /\ n \in Nat /\ Tops[f] <= n
  <2> HIDE DEF S
  <2>1. \A r \in Numbered(f) : r.uid \in (Tops[f] + 1)..n
    BY <1>1, <1>3, <1>5
  <2>2. \A r, s \in Numbered(f) : r.uid = s.uid => r = s
    <3> TAKE r, s \in Numbered(f)
    <3> HAVE r.uid = s.uid
    <3>1. Rank(r.msg, S) = Rank(s.msg, S)
      BY <1>1, <1>3, <1>5
    <3>2. r.msg = s.msg
      BY <1>3, <1>5, <3>1
    <3> QED BY <1>5, <3>2
  <2>3. ASSUME NEW k \in (Tops[f] + 1)..n PROVE \E r \in Numbered(f) : r.uid = k
    <3>1. k - Tops[f] \in 1..Cardinality(S)
      BY <1>1, <1>3
    <3>2. PICK m \in S : Rank(m, S) = k - Tops[f]
      BY <1>3, <3>1
    <3>3. PICK r \in Numbered(f) : r.msg = m
      BY <1>6
    <3> QED BY <1>1, <1>5, <3>1, <3>2, <3>3
  <2> QED BY <1>1, <1>3, <2>1, <2>2, <2>3 DEF Numbers
<1>9. Continues(Numbered(f), Tops)
  BY <1>1, <1>5, <1>8 DEF Continues
<1>10. ASSUME NEW r \in Numbered(f), f = Inbox
       PROVE  r.uid \in 1..Len(arrived) /\ arrived[r.uid] = r.msg
  <2>1. ByPlace(uids, arrived)
    BY DEF UidInv
  <2>2. ASSUME NEW m \in Archive PROVE m \in S <=> Place(m) > Tops[f]
    <3>1. Place(m) \in 1..Len(arrived) /\ arrived[Place(m)] = m /\ Len(arrived) \in Nat
      BY <1>1, PlaceOf
    <3>2. CASE m \notin S
      <4>1. PICK s \in Rows(f) : s.msg = m
        BY <1>10, <3>2 DEF Unassigned
      <4>2. s.uid \in 1..Tops[f] /\ s.uid \in 1..Len(arrived) /\ arrived[s.uid] = m
        BY <1>1, <1>10, <2>1, <4>1 DEF Numbers, Rows, ByPlace
      <4>3. Place(m) = s.uid
        BY <1>1, <3>1, <4>2, PlaceOf
      <4> QED BY <1>1, <3>1, <3>2, <4>2, <4>3
    <3>3. CASE m \in S /\ Place(m) <= Tops[f]
      <4>1. PICK s \in Rows(f) : s.uid = Place(m)
        BY <1>1, <3>1, <3>3 DEF Numbers
      <4>2. s.msg = m
        BY <1>10, <2>1, <3>1, <4>1 DEF Rows, ByPlace
      <4> QED BY <3>3, <4>1, <4>2 DEF Unassigned
    <3> QED BY <1>1, <3>1, <3>2, <3>3
  <2>3. S = {m \in Archive : Place(m) > Tops[f]}
    BY <1>2, <2>2
  <2>4. r.msg \in S /\ r.uid = Tops[f] + Rank(r.msg, S)
    BY <1>5
  <2> HIDE DEF S
  <2>5. r.uid = Place(r.msg)
    BY <1>1, <2>3, <2>4, RankFrom
  <2> QED BY <1>1, <1>2, <2>4, <2>5, PlaceOf
<1>11. ByPlace(Numbered(f), arrived)
  BY <1>2, <1>4, <1>5, <1>10 DEF ByPlace
<1> QED BY <1>7, <1>9, <1>11

(***************************************************************************)
(* Every step keeps the invariant                                          *)
(***************************************************************************)

(* Before anything has arrived no folder has a UID.                          *)
LEMMA InitUidInv == Init => UidInv
<1> SUFFICES ASSUME Init PROVE UidInv
  OBVIOUS
<1>1. \A f \in Folder : Rows(f) = {}
  BY DEF Init, Rows
<1>2. \A f \in Folder : TopUid(f) = 0
  BY <1>1 DEF TopUid
<1>3. FoldersInv
  BY <1>1, <1>2 DEF FoldersInv, Tops, Numbers
<1>4. TypeOK
  <2>1. Inbox \in Folder
    BY DEF Folder
  <2>2. NoJob \in JobRec
    BY DEF NoJob, JobRec
  <2>3. NoClient \in ClientRec
    BY <2>1 DEF NoClient, ClientRec
  <2>4. kills \in 0..MaxKills
    BY ProjectionAssumption DEF Init
  <2> QED BY <2>2, <2>3, <2>4 DEF Init, TypeOK
<1>5. ByPlace(uids, arrived) /\ JobsInv
  BY DEF Init, ByPlace, JobsInv, NoJob
<1>6. SessionsInv
  BY <1>2 DEF Init, SessionsInv, Tops, NoClient
<1> QED BY <1>3, <1>4, <1>5, <1>6 DEF UidInv

(* The archive only grows, and in order.                                     *)
LEMMA ArchiveGrows ==
  ASSUME TypeOK, [Next]_vars
  PROVE  /\ Archive \subseteq Archive'
         /\ Len(arrived) <= Len(arrived') /\ Len(arrived) \in Nat /\ Len(arrived') \in Nat
         /\ \A i \in 1..Len(arrived) : arrived'[i] = arrived[i]
         /\ arrived' \in Seq(Message)
         /\ \A i, j \in 1..Len(arrived') : arrived'[i] = arrived'[j] => i = j
<1>1. ASSUME NEW a \in Account, NEW m \in Message, Arrive(a, m), m \notin Archive
      PROVE  /\ Len(arrived') = Len(arrived) + 1 /\ arrived' \in Seq(Message)
             /\ arrived'[Len(arrived')] = m
             /\ \A i \in 1..Len(arrived) : arrived'[i] = arrived[i]
  BY <1>1 DEF Arrive, TypeOK
<1>2. CASE \E a \in Account, m \in Message : Arrive(a, m) /\ m \notin Archive
  <2>1. PICK a \in Account, m \in Message : Arrive(a, m) /\ m \notin Archive
    BY <1>2
  <2>2. \A i \in 1..Len(arrived) : arrived[i] # m
    BY <2>1 DEF Archive
  <2>3. Len(arrived) \in Nat
    BY DEF TypeOK
  <2>4. \A i, j \in 1..Len(arrived') : arrived'[i] = arrived'[j] => i = j
    BY <1>1, <2>1, <2>2, <2>3 DEF TypeOK
  <2> QED BY <1>1, <2>1, <2>3, <2>4 DEF Archive
<1>3. CASE arrived' = arrived
  BY <1>3 DEF TypeOK, Archive
<1>4. arrived' = arrived \/ \E a \in Account, m \in Message : Arrive(a, m) /\ m \notin Archive
  BY DEF Next, JobStep, Arrive, Start, MakeFolders, Envelope, EndEnvelopes, ListFolders, Number,
         Insert, Finish, Kill, Sync, SyncRaises, Select, Snapshot, vars
<1> QED BY <1>2, <1>3, <1>4

(* Labels in use and INBOX: what may be missing are folders.                 *)
LEMMA MissingType ==
  ASSUME TypeOK
  PROVE  Missing \subseteq Folder
<1>1. \A x \in seenIn : x[2] \in Message
  BY DEF TypeOK, Archive
<1> QED BY <1>1, ProjectionAssumption DEF Missing, Folder

(* The types of a job, step by step.                                         *)
LEMMA JobTypes ==
  ASSUME UidInv, [Next]_vars
  PROVE  job' \in [Job -> JobRec]
<1>1. /\ TypeOK /\ job \in [Job -> JobRec]
      /\ Archive \subseteq Message /\ folders \subseteq Folder
  BY DEF UidInv, TypeOK, Archive
<1>2. NoJob \in JobRec
  BY DEF NoJob, JobRec
<1>3. ASSUME NEW b \in Job, Start(b) PROVE job' \in [Job -> JobRec]
  <2>1. [job[b] EXCEPT !.pc = "folders", !.wants = Missing] \in JobRec
    BY <1>1, MissingType DEF JobRec
  <2>2. job' = [job EXCEPT ![b] = [job[b] EXCEPT !.pc = "folders", !.wants = Missing]]
    BY <1>1, <1>3 DEF Start
  <2> QED BY <1>1, <2>1, <2>2
<1>4. ASSUME NEW b \in Job, MakeFolders(b) PROVE job' \in [Job -> JobRec]
  <2>1. Archive \ envelopes \subseteq Message
    BY <1>1
  <2>2. ASSUME NEW pc \in {"list", "envelopes"}, NEW todo \in SUBSET Message
        PROVE  [job[b] EXCEPT !.pc = pc, !.wants = {}, !.claimed = job[b].wants, !.todo = todo]
                 \in JobRec
    BY <1>1 DEF JobRec
  <2>3. \/ job' = [job EXCEPT ![b] = NoJob]
        \/ \E pc \in {"list", "envelopes"}, todo \in SUBSET Message :
             job' = [job EXCEPT ![b] = [job[b] EXCEPT !.pc = pc, !.wants = {},
                                         !.claimed = job[b].wants, !.todo = todo]]
    BY <1>1, <1>4, <2>1 DEF MakeFolders
  <2> QED BY <1>1, <1>2, <2>2, <2>3
<1>5. ASSUME NEW b \in Job, Envelope(b) PROVE job' \in [Job -> JobRec]
  <2>1. PICK m \in job[b].todo :
          \/ job' = [job EXCEPT ![b].todo = @ \ {m}]
          \/ job' = [job EXCEPT ![b].todo = @ \ {m}, ![b].drafts = job[b].drafts \cup {m}]
          \/ job' = [job EXCEPT ![b].todo = @ \ {m}, ![b].drafts = {}, ![b].claimed = {}]
    BY <1>5 DEF Envelope
  <2>2. m \in Message
    BY <1>1 DEF JobRec
  <2> QED BY <1>1, <2>1, <2>2 DEF JobRec
<1>6. ASSUME NEW b \in Job, EndEnvelopes(b) PROVE job' \in [Job -> JobRec]
  <2>1. [job[b] EXCEPT !.pc = "list", !.drafts = {}, !.claimed = {}] \in JobRec
    BY <1>1 DEF JobRec
  <2>2. job' = [job EXCEPT ![b] = [job[b] EXCEPT !.pc = "list", !.drafts = {}, !.claimed = {}]]
    BY <1>1, <1>6 DEF EndEnvelopes
  <2> QED BY <1>1, <2>1, <2>2
<1>7. ASSUME NEW b \in Job, ListFolders(b) PROVE job' \in [Job -> JobRec]
  <2>1. [job[b] EXCEPT !.pc = "number", !.left = folders \cup job[b].claimed] \in JobRec
    BY <1>1 DEF JobRec
  <2>2. job' = [job EXCEPT ![b] = [job[b] EXCEPT !.pc = "number",
                                                !.left = folders \cup job[b].claimed]]
    BY <1>1, <1>7 DEF ListFolders
  <2> QED BY <1>1, <2>1, <2>2
<1>8. ASSUME NEW b \in Job, Number(b) PROVE job' \in [Job -> JobRec]
  <2>1. PICK f \in job[b].left :
          job' = [job EXCEPT ![b].pc = "insert", ![b].left = @ \ {f},
                             ![b].rows = Numbered(f), ![b].doubled = Doubled(f)]
    BY <1>8 DEF Number
  <2>2. f \in Folder
    BY <1>1 DEF JobRec
  <2>3. Numbered(f) \in SUBSET UidRow
    BY <2>2, NumberedContinues
  <2>4. Doubled(f) \in BOOLEAN
    BY DEF Doubled
  <2> QED BY <1>1, <2>1, <2>3, <2>4 DEF JobRec
<1>9. ASSUME NEW b \in Job, Insert(b) PROVE job' \in [Job -> JobRec]
  BY <1>1, <1>2, <1>9 DEF Insert, JobRec
<1>10. ASSUME NEW b \in Job, Finish(b) \/ Kill(b) PROVE job' \in [Job -> JobRec]
  BY <1>1, <1>2, <1>10 DEF Finish, Kill
<1>11. CASE UNCHANGED job
  BY <1>1, <1>11
<1> QED BY <1>3, <1>4, <1>5, <1>6, <1>7, <1>8, <1>9, <1>10, <1>11
  DEF Next, JobStep, Arrive, Sync, SyncRaises, Select, Snapshot, vars

(* The types of a session.                                                   *)
LEMMA ClientTypes ==
  ASSUME UidInv, [Next]_vars
  PROVE  client' \in [Client -> ClientRec]
<1>1. TypeOK /\ client \in [Client -> ClientRec] /\ Tops \in [Folder -> Nat] /\ folders \subseteq Folder
  BY DEF UidInv, TypeOK, FoldersInv
<1>2. \A f \in Folder : TopUid(f) \in Nat
  BY <1>1 DEF Tops
<1>3. ASSUME NEW c \in Client, Sync(c) PROVE client' \in [Client -> ClientRec]
  <2>1. [client[c] EXCEPT !.pc = "sync", !.wants = Missing] \in ClientRec
    BY <1>1, MissingType DEF ClientRec
  <2>2. client' = [client EXCEPT ![c] = [client[c] EXCEPT !.pc = "sync", !.wants = Missing]]
    BY <1>1, <1>3 DEF Sync
  <2> QED BY <1>1, <2>1, <2>2
<1>4. ASSUME NEW c \in Client, SyncRaises(c) PROVE client' \in [Client -> ClientRec]
  <2>1. NoClient \in ClientRec
    BY DEF NoClient, ClientRec, Folder
  <2> QED BY <1>1, <1>4, <2>1 DEF SyncRaises
<1>5. ASSUME NEW c \in Client, Select(c) PROVE client' \in [Client -> ClientRec]
  <2>1. PICK g \in folders' :
          LET f == Resolve(g)  n == TopUid(f) IN
          client' = [client EXCEPT ![c].pc = "in", ![c].wants = {}, ![c].folder = f,
                       ![c].top[f] = IF n > @ THEN n ELSE @, ![c].next = 0]
    BY <1>5 DEF Select
  <2>2. Resolve(g) \in Folder
    BY <1>1, <1>5 DEF Select, Resolve, ClientRec, Folder
  <2>3. TopUid(Resolve(g)) \in Nat
    BY <1>2, <2>2
  <2> DEFINE n == TopUid(Resolve(g))
             t == client[c].top[Resolve(g)]
             top == [client[c].top EXCEPT ![Resolve(g)] = IF n > t THEN n ELSE t]
             new == [client[c] EXCEPT !.pc = "in", !.wants = {}, !.folder = Resolve(g),
                                      !.top = top, !.next = 0]
  <2>a. top \in [Folder -> Nat]
    BY <1>1, <2>2, <2>3 DEF ClientRec
  <2>4. new \in ClientRec
    <3> HIDE DEF top
    <3> QED BY <1>1, <2>2, <2>a DEF ClientRec
  <2>5. client' = [client EXCEPT ![c] = new]
    BY <1>1, <2>1, ZenonT(60)
  <2> QED BY <1>1, <2>4, <2>5
<1>6. ASSUME NEW c \in Client, Snapshot(c) PROVE client' \in [Client -> ClientRec]
  <2>1. TopUid(client[c].folder) \in Nat
    BY <1>1, <1>2 DEF ClientRec
  <2> DEFINE f == client[c].folder
             t == client[c].top[f]
             top == IF TopUid(f) > t THEN TopUid(f) ELSE t
             tops == [client[c].top EXCEPT ![f] = top]
             new == [client[c] EXCEPT !.top = tops, !.next = top + 1]
  <2>a. top \in Nat /\ tops \in [Folder -> Nat]
    BY <1>1, <2>1 DEF ClientRec
  <2>2. new \in ClientRec
    <3>1. \A k \in Nat, g \in [Folder -> Nat] :
            [client[c] EXCEPT !.top = g, !.next = k] \in ClientRec
      BY <1>1 DEF ClientRec
    <3>2. top + 1 \in Nat
      <4> HIDE DEF top
      <4> QED BY <2>a
    <3> HIDE DEF top, tops
    <3> QED BY <2>a, <3>1, <3>2
  <2>3. client' = [client EXCEPT ![c] = new]
    BY <1>1, <1>6 DEF Snapshot, ClientRec
  <2> QED BY <1>1, <2>2, <2>3
<1>7. CASE UNCHANGED client
  BY <1>1, <1>7
<1> QED BY <1>3, <1>4, <1>5, <1>6, <1>7
  DEF Next, JobStep, Arrive, Start, MakeFolders, Envelope, EndEnvelopes, ListFolders, Number,
      Insert, Finish, Kill, vars

(* The types survive every step.                                             *)
LEMMA TypeStep ==
  ASSUME UidInv, [Next]_vars
  PROVE  TypeOK'
<1>1. TypeOK /\ JobsInv /\ job' \in [Job -> JobRec] /\ client' \in [Client -> ClientRec]
  BY JobTypes, ClientTypes DEF UidInv
<1>2. /\ Archive \subseteq Archive' /\ arrived' \in Seq(Message)
      /\ \A i, j \in 1..Len(arrived') : arrived'[i] = arrived'[j] => i = j
  BY <1>1, ArchiveGrows
<1>3. seenIn' \subseteq Account \X Archive'
  <2>1. ASSUME NEW a \in Account, NEW m \in Message, Arrive(a, m)
        PROVE  m \in Archive' /\ seenIn' = seenIn \cup {<<a, m>>}
    <3>1. CASE m \in Archive
      BY <1>2, <2>1, <3>1 DEF Arrive
    <3>2. CASE m \notin Archive
      <4>1. arrived' = Append(arrived, m) /\ arrived \in Seq(Message)
        BY <1>1, <2>1, <3>2 DEF Arrive, TypeOK
      <4>2. Len(arrived') \in 1..Len(arrived') /\ arrived'[Len(arrived')] = m
        BY <4>1
      <4> QED BY <2>1, <4>2 DEF Archive, Arrive
    <3> QED BY <3>1, <3>2
  <2>2. seenIn' = seenIn \/ \E a \in Account, m \in Message : Arrive(a, m)
    BY DEF Next, JobStep, Start, MakeFolders, Envelope, EndEnvelopes, ListFolders, Number,
           Insert, Finish, Kill, Sync, SyncRaises, Select, Snapshot, vars
  <2> QED BY <1>1, <1>2, <2>1, <2>2 DEF TypeOK
<1>4. folders' \subseteq Folder
  <2>1. folders \subseteq Folder /\ (\A b \in Job : job[b].claimed \subseteq Folder)
        /\ (\A c \in Client : client[c].wants \subseteq Folder)
    BY <1>1 DEF TypeOK, JobRec, ClientRec
  <2>2. \/ folders' = folders
        \/ \E b \in Job : folders' = folders \cup job[b].claimed
        \/ \E c \in Client : folders' = folders \cup client[c].wants
    <3>1. ASSUME NEW b \in Job, JobStep(b) \/ Kill(b)
          PROVE  folders' = folders \/ folders' = folders \cup job[b].claimed
      <4>1. CASE Envelope(b)
        BY <4>1 DEF Envelope, Commit
      <4>2. CASE EndEnvelopes(b)
        BY <4>2 DEF EndEnvelopes, Commit
      <4>3. CASE Insert(b)
        BY <4>3 DEF Insert
      <4> QED BY <3>1, <4>1, <4>2, <4>3
        DEF JobStep, Start, MakeFolders, ListFolders, Number, Finish, Kill
    <3>2. ASSUME NEW c \in Client, Sync(c) \/ SyncRaises(c) \/ Select(c) \/ Snapshot(c)
          PROVE  folders' = folders \/ folders' = folders \cup client[c].wants
      BY <3>2 DEF Sync, SyncRaises, Select, Snapshot
    <3>3. (\E b \in Job : JobStep(b) \/ Kill(b)) \/ folders' = folders
            \/ \E c \in Client : Sync(c) \/ SyncRaises(c) \/ Select(c) \/ Snapshot(c)
      BY DEF Next, Arrive, vars
    <3> QED BY <3>1, <3>2, <3>3
  <2> QED BY <2>1, <2>2
<1>5. uids' \subseteq UidRow
  <2>1. uids \subseteq UidRow /\ \A b \in Job : job[b].rows \subseteq UidRow
    BY <1>1 DEF TypeOK, JobRec
  <2>2. uids' = uids \/ \E b \in Job : uids' = uids \cup job[b].rows
    BY DEF Next, JobStep, Arrive, Start, MakeFolders, Envelope, EndEnvelopes, ListFolders,
           Number, Insert, Finish, Kill, Sync, SyncRaises, Select, Snapshot, vars
  <2> QED BY <2>1, <2>2
<1>6. envelopes' \subseteq Archive'
  <2>1. envelopes \subseteq Archive /\ \A b \in Job : job[b].todo \cup job[b].drafts \subseteq Archive
    BY <1>1 DEF TypeOK, JobsInv
  <2>2. \/ envelopes' = envelopes
        \/ \E b \in Job, m \in Message :
             m \in job[b].todo /\ envelopes' = envelopes \cup (job[b].drafts \cup {m})
        \/ \E b \in Job : envelopes' = envelopes \cup job[b].drafts
    <3>1. ASSUME NEW b \in Job, Envelope(b)
          PROVE  \/ envelopes' = envelopes
                 \/ \E m \in Message :
                      m \in job[b].todo /\ envelopes' = envelopes \cup (job[b].drafts \cup {m})
      <4>1. job[b].todo \subseteq Message
        BY <1>1 DEF TypeOK, JobRec
      <4> QED BY <3>1, <4>1 DEF Envelope, Commit
    <3>2. ASSUME NEW b \in Job, EndEnvelopes(b) PROVE envelopes' = envelopes \cup job[b].drafts
      BY <3>2 DEF EndEnvelopes, Commit
    <3> QED BY <3>1, <3>2
      DEF Next, JobStep, Arrive, Start, MakeFolders, ListFolders, Number, Insert, Finish, Kill,
          Sync, SyncRaises, Select, Snapshot, vars
  <2> QED BY <1>2, <2>1, <2>2
<1>7. kills' \in 0..MaxKills
  <2>1. kills \in 0..MaxKills
    BY <1>1 DEF TypeOK
  <2>2. kills' = kills \/ \E b \in Job : Kill(b)
    BY DEF Next, JobStep, Arrive, Start, MakeFolders, Envelope, EndEnvelopes, ListFolders,
           Number, Insert, Finish, Sync, SyncRaises, Select, Snapshot, vars
  <2>3. ASSUME NEW b \in Job, Kill(b) PROVE kills < MaxKills /\ kills' = kills + 1
    BY <2>3 DEF Kill
  <2> QED BY <2>1, <2>2, <2>3, ProjectionAssumption
<1> QED BY <1>1, <1>2, <1>3, <1>4, <1>5, <1>6, <1>7 DEF TypeOK

(* What a step adds to the UIDs is what one job had numbered.                *)
LEMMA OnlyInsertAdds ==
  ASSUME [Next]_vars
  PROVE  \/ uids' = uids
         \/ \E b \in Job : /\ job[b].pc = "insert" /\ ~Clash(job[b].rows)
                           /\ uids' = uids \cup job[b].rows
BY DEF Next, JobStep, Arrive, Start, MakeFolders, Envelope, EndEnvelopes, ListFolders,
       Number, Insert, Finish, Kill, Sync, SyncRaises, Select, Snapshot, vars

(* Folders grow at their end.                                                *)
LEMMA FoldersStep ==
  ASSUME UidInv, [Next]_vars
  PROVE  /\ FoldersInv'
         /\ \A g \in Folder : Tops[g] <= Tops'[g]
         /\ \A r \in uids' \ uids : r.folder \in Folder /\ r.uid > Tops[r.folder]
<1>1. Tops \in [Folder -> Nat]
  BY DEF UidInv, FoldersInv
<1>2. CASE uids' = uids
  <2>1. Tops' = Tops /\ \A f \in Folder : Rows(f)' = Rows(f)
    BY <1>2 DEF Tops, TopUid, Rows
  <2> QED BY <1>1, <1>2, <2>1 DEF UidInv, FoldersInv
<1>3. ASSUME NEW b \in Job, job[b].pc = "insert", ~Clash(job[b].rows),
             uids' = uids \cup job[b].rows
      PROVE  /\ FoldersInv'
             /\ \A g \in Folder : Tops[g] <= Tops'[g]
             /\ \A r \in uids' \ uids : r.folder \in Folder /\ r.uid > Tops[r.folder]
  <2>1. job[b].rows \in SUBSET UidRow
    BY DEF UidInv, TypeOK, JobRec
  <2>2. Continues(job[b].rows, Tops)
    BY <1>3 DEF UidInv, JobsInv
  <2>3. \A r \in job[b].rows : r.folder \in Folder
    BY <2>1 DEF UidRow
  <2> QED BY <1>3, <2>1, <2>2, <2>3, InsertContinues
<1> QED BY <1>2, <1>3, OnlyInsertAdds

(* The order of arrival keeps what it has.                                   *)
LEMMA ByPlaceStays ==
  ASSUME TypeOK, [Next]_vars, NEW rows, ByPlace(rows, arrived)
  PROVE  ByPlace(rows, arrived')
<1>1. /\ Len(arrived) \in Nat /\ Len(arrived') \in Nat /\ Len(arrived) <= Len(arrived')
      /\ \A i \in 1..Len(arrived) : arrived'[i] = arrived[i]
  BY ArchiveGrows
<1>2. \A i \in 1..Len(arrived) : i \in 1..Len(arrived')
  BY <1>1
<1> QED BY <1>1, <1>2 DEF ByPlace

(* A job numbers rows in one step, and keeps them until it inserts them.     *)
LEMMA JobsMove ==
  ASSUME UidInv, [Next]_vars, NEW b \in Job
  PROVE  /\ job'[b].todo \cup job'[b].drafts \subseteq job[b].todo \cup job[b].drafts \cup Archive
         /\ job'[b].pc = "insert" =>
              \/ job[b].pc = "insert" /\ job'[b].rows = job[b].rows
              \/ /\ \E f \in Folder : job'[b].rows = Numbered(f)
                 /\ uids' = uids /\ arrived' = arrived
<1>1. job \in [Job -> JobRec] /\ \A d \in Job : job[d].left \subseteq Folder
  BY DEF UidInv, TypeOK, JobRec
<1>2. CASE job'[b] = job[b]
  BY <1>2
<1>3. CASE Start(b) \/ ListFolders(b)
  BY <1>1, <1>3 DEF Start, ListFolders, JobRec
<1>4. CASE EndEnvelopes(b)
  BY <1>1, <1>4 DEF EndEnvelopes, JobRec
<1>10. CASE Finish(b) \/ Kill(b)
  <2>1. job'[b] = NoJob
    BY <1>1, <1>10 DEF Finish, Kill
  <2> QED BY <2>1 DEF NoJob
<1>5. CASE MakeFolders(b)
  <2>1. \/ job'[b] = NoJob
        \/ \E pc \in {"list", "envelopes"} :
             job'[b] = [job[b] EXCEPT !.pc = pc, !.wants = {}, !.claimed = job[b].wants,
                                      !.todo = Archive \ envelopes]
    BY <1>1, <1>5 DEF MakeFolders
  <2>2. ASSUME NEW pc \in {"list", "envelopes"},
               job'[b] = [job[b] EXCEPT !.pc = pc, !.wants = {}, !.claimed = job[b].wants,
                                        !.todo = Archive \ envelopes]
        PROVE  job'[b].pc # "insert" /\ job'[b].drafts = job[b].drafts
               /\ job'[b].todo = Archive \ envelopes
    BY <1>1, <2>2 DEF JobRec
  <2>3. CASE job'[b] = NoJob
    BY <2>3 DEF NoJob
  <2> QED BY <2>1, <2>2, <2>3
<1>6. CASE Envelope(b)
  BY <1>1, <1>6 DEF Envelope, JobRec
<1>7. CASE Number(b)
  <2>1. PICK f \in job[b].left :
          job' = [job EXCEPT ![b].pc = "insert", ![b].left = @ \ {f},
                             ![b].rows = Numbered(f), ![b].doubled = Doubled(f)]
    BY <1>7 DEF Number
  <2>2. f \in Folder /\ job'[b].rows = Numbered(f)
        /\ job'[b].todo = job[b].todo /\ job'[b].drafts = job[b].drafts
    BY <1>1, <2>1 DEF JobRec
  <2> QED BY <1>7, <2>2 DEF Number
<1>8. CASE Insert(b)
  BY <1>1, <1>8 DEF Insert, NoJob, JobRec
<1>9. job'[b] = job[b] \/ JobStep(b) \/ Kill(b)
  <2>1. ASSUME NEW d \in Job, JobStep(d) \/ Kill(d), d # b PROVE job'[b] = job[b]
    BY <1>1, <2>1 DEF JobStep, Start, MakeFolders, Envelope, EndEnvelopes, ListFolders, Number,
         Insert, Finish, Kill
  <2>2. (\E d \in Job : JobStep(d) \/ Kill(d)) \/ job' = job
    BY DEF Next, Arrive, Sync, SyncRaises, Select, Snapshot, vars
  <2> QED BY <2>1, <2>2
<1> QED BY <1>2, <1>3, <1>4, <1>5, <1>6, <1>7, <1>8, <1>9, <1>10 DEF JobStep

(* What jobs hold, and what they add to the UIDs.                            *)
LEMMA JobsStep ==
  ASSUME UidInv, [Next]_vars
  PROVE  JobsInv' /\ ByPlace(uids', arrived')
<1>1. TypeOK /\ FoldersInv /\ JobsInv /\ ByPlace(uids, arrived)
  BY DEF UidInv
<1>2. Tops \in [Folder -> Nat] /\ Tops' \in [Folder -> Nat] /\ \A g \in Folder : Tops[g] <= Tops'[g]
  BY <1>1, FoldersStep DEF FoldersInv
<1>3. ASSUME NEW rows, Continues(rows, Tops)
      PROVE  Continues(rows, Tops')
  <2>1. PICK f \in Folder, n \in Nat : \E base \in 0..Tops[f] :
               base <= n /\ (\A r \in rows : r.folder = f) /\ Numbers(rows, base, n)
    BY <1>3 DEF Continues
  <2>2. PICK base \in 0..Tops[f] :
               base <= n /\ (\A r \in rows : r.folder = f) /\ Numbers(rows, base, n)
    BY <2>1
  <2>3. base \in 0..Tops'[f]
    BY <1>2, <2>2
  <2> QED BY <2>2, <2>3 DEF Continues
<1>4. ASSUME NEW b \in Job, job'[b].pc = "insert"
      PROVE  Continues(job'[b].rows, Tops') /\ ByPlace(job'[b].rows, arrived')
  <2>1. CASE job[b].pc = "insert" /\ job'[b].rows = job[b].rows
    BY <1>1, <1>3, <2>1, ByPlaceStays DEF JobsInv
  <2>2. ASSUME NEW f \in Folder, job'[b].rows = Numbered(f), uids' = uids, arrived' = arrived
        PROVE  Continues(job'[b].rows, Tops') /\ ByPlace(job'[b].rows, arrived')
    BY <1>3, <2>2, NumberedContinues
  <2> QED BY <1>4, <2>1, <2>2, JobsMove
<1>5. ASSUME NEW b \in Job
      PROVE  job'[b].todo \cup job'[b].drafts \subseteq Archive'
  BY <1>1, ArchiveGrows, JobsMove DEF JobsInv
<1>6. JobsInv'
  BY <1>4, <1>5 DEF JobsInv
<1>7. ByPlace(uids', arrived')
  <2>1. ByPlace(uids, arrived')
    BY <1>1, ByPlaceStays
  <2>2. ASSUME NEW b \in Job, job[b].pc = "insert", uids' = uids \cup job[b].rows
        PROVE  ByPlace(uids', arrived')
    <3>1. ByPlace(job[b].rows, arrived')
      BY <1>1, <2>2, ByPlaceStays DEF JobsInv
    <3> QED BY <2>1, <2>2, <3>1 DEF ByPlace
  <2> QED BY <2>1, <2>2, OnlyInsertAdds
<1> QED BY <1>6, <1>7

(* What sessions know.                                                       *)
LEMMA SessionsStep ==
  ASSUME UidInv, [Next]_vars
  PROVE  SessionsInv'
<1>1. client \in [Client -> ClientRec] /\ client' \in [Client -> ClientRec] /\ SessionsInv
  BY ClientTypes DEF UidInv, TypeOK
<1>2. Tops \in [Folder -> Nat] /\ Tops' \in [Folder -> Nat] /\ \A g \in Folder : Tops[g] <= Tops'[g]
  BY FoldersStep DEF UidInv, FoldersInv
<1>3. \A f \in Folder : TopUid(f) = Tops[f]
  BY DEF Tops
<1>4. ASSUME NEW c \in Client
      PROVE  \/ client'[c].top = client[c].top
                  /\ client'[c].folder = client[c].folder /\ client'[c].next = client[c].next
                  /\ (client'[c].pc = "in" => client[c].pc = "in")
             \/ client'[c] = NoClient
             \/ \E f \in Folder, n \in Nat :
                  /\ client'[c].top = [client[c].top EXCEPT ![f] = n]
                  /\ client'[c].folder = f /\ n <= Tops[f] /\ client'[c].next <= n + 1
  <2>1. CASE Sync(c)
    BY <1>1, <2>1 DEF Sync, ClientRec
  <2>2. CASE SyncRaises(c)
    BY <1>1, <2>2 DEF SyncRaises
  <2>3. CASE Select(c)
    <3>1. PICK g \in folders' :
            LET f == Resolve(g)  n == TopUid(f) IN
            client' = [client EXCEPT ![c].pc = "in", ![c].wants = {}, ![c].folder = f,
                         ![c].top[f] = IF n > @ THEN n ELSE @, ![c].next = 0]
      BY <2>3 DEF Select
    <3>2. Resolve(g) \in Folder
      <4>1. folders' \subseteq Folder
        BY TypeStep DEF TypeOK
      <4> QED BY <4>1 DEF Resolve, Folder
    <3> DEFINE f == Resolve(g)
               n == IF TopUid(f) > client[c].top[f] THEN TopUid(f) ELSE client[c].top[f]
    <3>3. client[c].top \in [Folder -> Nat] /\ client[c].top[f] <= Tops[f]
      BY <1>1, <3>2 DEF SessionsInv, ClientRec
    <3>4. n \in Nat /\ n <= Tops[f]
      BY <1>2, <1>3, <3>2, <3>3
    <3>5. client'[c].top = [client[c].top EXCEPT ![f] = n]
          /\ client'[c].folder = f /\ client'[c].next = 0
      BY <1>1, <3>1, <3>2 DEF ClientRec
    <3> HIDE DEF f, n
    <3>6. f \in Folder /\ 0 <= n + 1
      BY <3>2, <3>4 DEF f
    <3> QED BY <3>4, <3>5, <3>6
  <2>4. CASE Snapshot(c)
    <3> DEFINE f == client[c].folder
               n == IF TopUid(f) > client[c].top[f] THEN TopUid(f) ELSE client[c].top[f]
    <3>1. f \in Folder /\ client[c].top \in [Folder -> Nat]
      BY <1>1 DEF ClientRec
    <3>2. n \in Nat /\ n <= Tops[f]
      BY <1>1, <1>2, <1>3, <3>1 DEF SessionsInv
    <3>3. client'[c].top = [client[c].top EXCEPT ![f] = n]
          /\ client'[c].folder = f /\ client'[c].next = n + 1
      BY <1>1, <2>4, <3>1 DEF Snapshot, ClientRec
    <3> HIDE DEF f, n
    <3>4. n + 1 <= n + 1
      BY <3>2
    <3> QED BY <3>1, <3>2, <3>3, <3>4
  <2>5. CASE client'[c] = client[c]
    BY <2>5
  <2>6. client'[c] = client[c] \/ Sync(c) \/ SyncRaises(c) \/ Select(c) \/ Snapshot(c)
    <3>1. ASSUME NEW d \in Client, Sync(d) \/ SyncRaises(d) \/ Select(d) \/ Snapshot(d), d # c
          PROVE  client'[c] = client[c]
      BY <1>1, <3>1 DEF Sync, SyncRaises, Select, Snapshot
    <3>2. client' = client
            \/ \E d \in Client : Sync(d) \/ SyncRaises(d) \/ Select(d) \/ Snapshot(d)
      BY DEF Next, JobStep, Arrive, Start, MakeFolders, Envelope, EndEnvelopes, ListFolders,
             Number, Insert, Finish, Kill, vars
    <3> QED BY <3>1, <3>2
  <2> QED BY <2>1, <2>2, <2>3, <2>4, <2>5, <2>6
<1>5. ASSUME NEW c \in Client
      PROVE  /\ \A f \in Folder : client'[c].top[f] <= Tops'[f]
             /\ client'[c].pc = "in" => client'[c].next <= Tops'[client'[c].folder] + 1
  <2>0. /\ client[c].top \in [Folder -> Nat] /\ client[c].folder \in Folder
        /\ client[c].next \in Nat /\ client'[c].next \in Nat /\ client'[c].top \in [Folder -> Nat]
        /\ \A f \in Folder : client[c].top[f] <= Tops[f]
        /\ client[c].pc = "in" => client[c].next <= Tops[client[c].folder] + 1
    BY <1>1 DEF SessionsInv, ClientRec
  <2>1. CASE client'[c].top = client[c].top
             /\ client'[c].folder = client[c].folder /\ client'[c].next = client[c].next
             /\ (client'[c].pc = "in" => client[c].pc = "in")
    BY <1>2, <2>0, <2>1
  <2>2. CASE client'[c] = NoClient
    BY <1>2, <2>2 DEF NoClient
  <2>3. ASSUME NEW f \in Folder, NEW n \in Nat,
               client'[c].top = [client[c].top EXCEPT ![f] = n],
               client'[c].folder = f, n <= Tops[f], client'[c].next <= n + 1
        PROVE  /\ \A g \in Folder : client'[c].top[g] <= Tops'[g]
               /\ client'[c].next <= Tops'[client'[c].folder] + 1
    BY <1>2, <2>0, <2>3
  <2> QED BY <1>4, <2>1, <2>2, <2>3
<1> QED BY <1>5 DEF SessionsInv

(* All parts together.                                                       *)
LEMMA NextUidInv == UidInv /\ [Next]_vars => UidInv'
BY TypeStep, FoldersStep, JobsStep, SessionsStep DEF UidInv

(* So it always holds.                                                       *)
LEMMA UidInvAlways == Spec => []UidInv
BY InitUidInv, NextUidInv, PTL DEF Spec

(***************************************************************************)
(* The theorems                                                            *)
(***************************************************************************)

\* imap_folders, imap_uids and what jobs and sessions hold are well formed,
\* however many of them overlap, are killed or abort.
THEOREM ProjectionTypes == Spec => []TypeOK
<1>1. UidInv => TypeOK
  BY DEF UidInv
<1> QED BY <1>1, UidInvAlways, PTL

\* No UID of a folder is left out, whichever backfills ran at the same time and
\* wherever they were killed (cli.py: imap_backfill).
THEOREM UidsDenseAlways == Spec => []UidsDense
<1>1. ASSUME UidInv, NEW f \in Folder PROVE Cardinality(Rows(f)) = Tops[f]
  <2> DEFINE g == [r \in Rows(f) |-> r.uid]
  <2>1. Tops[f] \in Nat /\ Numbers(Rows(f), 0, Tops[f])
    BY <1>1 DEF UidInv, FoldersInv
  <2>2. g \in Bijection(Rows(f), 1..Tops[f])
    BY <2>1 DEF Numbers, Bijection, Injection, Surjection, IsInjective
  <2>3. IsFiniteSet(1..Tops[f]) /\ Cardinality(1..Tops[f]) = Tops[f]
    BY <2>1, FS_Interval
  <2>4. g \in Injection(Rows(f), 1..Tops[f]) /\ g \in Surjection(Rows(f), 1..Tops[f])
    BY <2>2 DEF Bijection
  <2> HIDE DEF g
  <2> QED BY <2>3, <2>4, FS_Injection
<1>2. ASSUME UidInv PROVE UidsDense
  <2>1. \A f \in Folder : Numbers(Rows(f), 0, Tops[f]) /\ Tops[f] \in Nat
    BY <1>2 DEF UidInv, FoldersInv
  <2> QED BY <1>1, <1>2, <2>1 DEF UidsDense, Numbers
<1> QED BY <1>2, UidInvAlways, PTL

\* A UID is never used again and new ones are higher: of two backfills that
\* number the same folder from the same maximum one aborts.
THEOREM UidsAscendAlways == Spec => UidsAscend
<1>1. UidInv /\ [Next]_vars
        => [\A r \in uids' \ uids, s \in uids : r.folder = s.folder => r.uid > s.uid]_vars
  <2> SUFFICES ASSUME UidInv, [Next]_vars, NEW r \in uids' \ uids, NEW s \in uids,
                      r.folder = s.folder
               PROVE  r.uid > s.uid
    OBVIOUS
  <2>1. r.folder \in Folder /\ r.uid > Tops[r.folder]
    BY FoldersStep
  <2>2. s.uid \in 1..Tops[r.folder] /\ Tops[r.folder] \in Nat
    BY <2>1 DEF UidInv, FoldersInv, Numbers, Rows
  <2>3. r.uid \in Nat
    BY TypeStep DEF TypeOK, UidRow
  <2> QED BY <2>1, <2>2, <2>3
<1> QED BY <1>1, UidInvAlways, PTL DEF Spec, UidsAscend

\* INBOX is numbered in the order of arrival, across runs, crashes and ingests.
THEOREM InboxByArrivalAlways == Spec => []InboxByArrival
<1>1. ASSUME UidInv, NEW r \in Rows(Inbox) PROVE r.uid = Place(r.msg)
  <2>1. r.uid \in 1..Len(arrived) /\ arrived[r.uid] = r.msg
    BY <1>1 DEF UidInv, ByPlace, Rows
  <2> QED BY <1>1, <2>1, PlaceOf DEF UidInv
<1>2. UidInv => InboxByArrival
  BY <1>1 DEF InboxByArrival
<1> QED BY <1>2, UidInvAlways, PTL

\* What a session was told as UIDNEXT is not above any UID given afterwards.
THEOREM UidNextIsSafeAlways == Spec => UidNextIsSafe
<1>1. UidInv /\ [Next]_vars
        => [\A c \in Client : \A r \in uids' \ uids :
              client[c].pc = "in" /\ r.folder = client[c].folder => r.uid >= client[c].next]_vars
  <2> SUFFICES ASSUME UidInv, [Next]_vars, NEW c \in Client, NEW r \in uids' \ uids,
                      client[c].pc = "in", r.folder = client[c].folder
               PROVE  r.uid >= client[c].next
    OBVIOUS
  <2>1. r.folder \in Folder /\ r.uid > Tops[r.folder]
    BY FoldersStep
  <2>2. client[c].next <= Tops[r.folder] + 1 /\ client[c].next \in Nat
    BY DEF UidInv, SessionsInv, TypeOK, ClientRec
  <2>3. r.uid \in Nat /\ Tops[r.folder] \in Nat
    BY <2>1, TypeStep DEF TypeOK, UidRow, UidInv, FoldersInv
  <2> QED BY <2>1, <2>2, <2>3
<1> QED BY <1>1, UidInvAlways, PTL DEF Spec, UidNextIsSafe
=============================================================================
