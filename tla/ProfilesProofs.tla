---------------------------- MODULE ProfilesProofs ----------------------------
(***************************************************************************)
(* What a rebuild of the sender profiles leaves of the owner's word and of *)
(* earlier verdicts, for any mail, owner and number of rebuilds.           *)
(***************************************************************************)
EXTENDS SenderProfiles, FiniteSetTheorems, TLAPS

(***************************************************************************)
(* The inductive invariant, in named parts                                 *)
(***************************************************************************)

\* The owner's word holds in a row, by what the row says of him.
Spoken(a, row) ==
    row # NoProfile =>
        IF row.override # None THEN row.kind = row.override
        ELSE row.sentTo > 0 /\ a \notin Unreplyable => row.kind = "human"

\* It holds in every row that a rebuild has written since.
RowsSpoken == \A a \in settled : Spoken(a, profiles[a])

\* Rows are of senders of mail that was there.
RowsOfSenders ==
    /\ IsFiniteSet(mail)
    /\ \A a \in Address : profiles[a] # NoProfile => a \in Senders(mail)
    /\ \A r \in Rebuild : /\ rebuild[r].read \subseteq mail
                          /\ rebuild[r].held \subseteq Senders(mail)

\* A rebuild holds the rows it has written, and they respect the owner's word.
DraftsSpoken ==
    \A r \in Rebuild :
        /\ \A a \in rebuild[r].held : Spoken(a, rebuild[r].draft[a])
        /\ rebuild[r].pc \in {"inherit", "commit"} => Senders(rebuild[r].read) \subseteq rebuild[r].held

\* A rebuild that is alone: what it sees is what it has made of the mail it has
\* read, and of the overrides; nobody can correct a row meanwhile.
AloneOK(r) ==
    LET read == rebuild[r].read IN
    /\ \A s \in Rebuild \ {r} : rebuild[s].pc = "idle"
    /\ \A a \in Address : profiles[a] # NoProfile => a \in Senders(read)
    /\ rebuild[r].pc = "inherit" =>
         /\ rebuild[r].held = Senders(read)
         /\ \A a \in Senders(read) :
              rebuild[r].draft[a] = Profile(read, a, Override(profiles[a]))
    /\ rebuild[r].pc = "commit" => View(r) = FromScratch(read, View(r))

AloneInv == \A r \in Rebuild : rebuild[r].pc # "idle" /\ rebuild[r].alone => AloneOK(r)

ProfilesInv ==
    TypeOK /\ RowsOfSenders /\ RowsSpoken /\ DraftsSpoken /\ AloneInv /\ VerdictsFromMail

(***************************************************************************)
(* What the two statements compute                                         *)
(***************************************************************************)

(* More mail, more senders.                                                  *)
LEMMA SendersGrow ==
    ASSUME NEW msgs, NEW more, msgs \subseteq more
    PROVE  Senders(msgs) \subseteq Senders(more)
BY DEF Senders

(* Senders are addresses.                                                    *)
LEMMA SendersType ==
    ASSUME NEW msgs \in SUBSET Message
    PROVE  Senders(msgs) \subseteq Address
BY ProfilesAssumption DEF Senders

(* What the first statement makes of an address is a row.                    *)
LEMMA ProfileType ==
    ASSUME NEW msgs, IsFiniteSet(msgs), NEW a, NEW o \in Kind \cup {None}
    PROVE  Profile(msgs, a, o) \in Row
<1> DEFINE received == Cardinality(Received(msgs, a))
<1>1. received \in Nat
  BY FS_Subset, FS_CardinalityType DEF Received
<1>2. SentTo(msgs, a) \in Nat
  BY FS_Subset, FS_CardinalityType DEF SentTo
<1>3. (Labelled(msgs, a, "Personal") > 0) \in BOOLEAN
  OBVIOUS
<1> QED BY <1>1, <1>2, <1>3 DEF Profile, Row, Kind

(* It heeds the owner: an override decides, and a reply makes a human.       *)
LEMMA ProfileSpoken ==
    ASSUME NEW msgs, IsFiniteSet(msgs), NEW a, NEW o \in Kind \cup {None}
    PROVE  Spoken(a, Profile(msgs, a, o))
<1>1. SentTo(msgs, a) \in Nat
  BY FS_Subset, FS_CardinalityType DEF SentTo
<1> QED BY <1>1 DEF Profile, Spoken, LooksBulk

(* The override in a row of a table.                                         *)
LEMMA OverrideType ==
    ASSUME NEW table \in Table, NEW a \in Address
    PROVE  Override(table[a]) \in Kind \cup {None}
BY DEF Table, Override, Row

(* The sweep changes verdicts only, and of rows only that the owner has      *)
(* neither spoken for nor written to.                                        *)
LEMMA SweepSpares ==
    ASSUME NEW table \in Table, NEW a \in Address
    PROVE  /\ Inherited(table) \in Table
           /\ a \notin Swept(table) => Inherited(table)[a] = table[a]
           /\ a \in Swept(table) =>
                /\ table[a] # NoProfile /\ Inherited(table)[a] # NoProfile
                /\ table[a].override = None /\ table[a].sentTo = 0
                /\ Inherited(table)[a].override = None /\ Inherited(table)[a].sentTo = 0
           /\ Override(Inherited(table)[a]) = Override(table[a])
<1>1. ASSUME NEW b \in Swept(table)
      PROVE  /\ b \in Address /\ table[b] \in Row /\ table[b].override = None /\ table[b].sentTo = 0
             /\ [table[b] EXCEPT !.kind = "bulk"] \in Row
             /\ [table[b] EXCEPT !.kind = "bulk"].override = None
             /\ [table[b] EXCEPT !.kind = "bulk"].sentTo = 0
  <2>1. b \in Address /\ table[b] \in Row /\ table[b].override = None /\ table[b].sentTo = 0
    BY DEF Swept, Table
  <2> QED BY <2>1 DEF Row, Kind
<1>2. Inherited(table) \in Table
  BY <1>1 DEF Inherited, Table
<1>3. a \in Swept(table) => Inherited(table)[a] = [table[a] EXCEPT !.kind = "bulk"]
  BY DEF Inherited
<1>4. a \notin Swept(table) => Inherited(table)[a] = table[a]
  BY DEF Inherited
<1>5. CASE a \in Swept(table)
  <2>1. table[a] # NoProfile /\ Inherited(table)[a] # NoProfile
    BY <1>1, <1>3, <1>5, NullAssumption
  <2>2. /\ table[a].override = None /\ table[a].sentTo = 0
        /\ Inherited(table)[a].override = None /\ Inherited(table)[a].sentTo = 0
    BY <1>1, <1>3, <1>5
  <2> QED BY <1>2, <1>5, <2>1, <2>2 DEF Override
<1>6. CASE a \notin Swept(table)
  BY <1>2, <1>4, <1>6
<1> QED BY <1>5, <1>6

(* Sweeping a table made from mail: made once more, it is the same.          *)
LEMMA SweepOnce ==
    ASSUME NEW msgs \in SUBSET Message, NEW table \in Table, NEW built \in Table,
           IsFiniteSet(msgs),
           \A a \in Address : built[a] = IF a \in Senders(msgs)
                                        THEN Profile(msgs, a, Override(table[a])) ELSE NoProfile,
           NEW seen, seen = Inherited(built)
    PROVE  seen = FromScratch(msgs, seen)
<1>1. \A a \in Address : Override(seen[a]) = Override(built[a])
  BY SweepSpares
<1>2. ASSUME NEW a \in Address, a \in Senders(msgs)
      PROVE  Override(built[a]) = Override(table[a])
  <2>1. Profile(msgs, a, Override(table[a])) \in Row
    BY ProfileType, OverrideType
  <2>2. built[a].override = Override(table[a]) /\ built[a] # NoProfile
    BY <1>2, <2>1, NullAssumption DEF Profile
  <2> QED BY <2>2 DEF Override
<1>3. built = [a \in Address |-> IF a \in Senders(msgs)
                                THEN Profile(msgs, a, Override(seen[a])) ELSE NoProfile]
  <2>1. \A a \in Address : built[a] = IF a \in Senders(msgs)
                                     THEN Profile(msgs, a, Override(seen[a])) ELSE NoProfile
    BY <1>1, <1>2
  <2> QED BY <2>1 DEF Table
<1> QED BY <1>3 DEF FromScratch

(* A rebuild sees a table.                                                   *)
LEMMA ViewType ==
    ASSUME TypeOK, NEW r \in Rebuild
    PROVE  /\ View(r) \in Table
           /\ \A a \in Address : View(r)[a] = IF a \in rebuild[r].held THEN rebuild[r].draft[a]
                                              ELSE profiles[a]
<1>1. rebuild[r].draft \in Table /\ profiles \in Table
  BY DEF TypeOK, RebuildRec
<1> QED BY <1>1 DEF View, Table

(***************************************************************************)
(* Every step keeps the invariant                                          *)
(***************************************************************************)

(* Nothing is known and nothing is being rebuilt.                            *)
LEMMA InitProfilesInv == Init => ProfilesInv
<1> SUFFICES ASSUME Init PROVE ProfilesInv
  OBVIOUS
<1>1. Empty \in Table
  BY DEF Empty, Table
<1>2. Idle \in RebuildRec /\ Idle.pc = "idle" /\ Idle.held = {} /\ Idle.read = {}
  BY <1>1 DEF Idle, RebuildRec
<1>3. TypeOK
  <2>1. \A r \in Rebuild : rebuild[r] = Idle
    BY DEF Init
  <2>2. failures \in 0 .. MaxFailures /\ corrections \in 0 .. MaxOverrides
    BY ProfilesAssumption DEF Init
  <2>3. rebuild \in [Rebuild -> RebuildRec]
    BY <1>2 DEF Init
  <2>4. \A r \in Rebuild : \A a \in rebuild[r].held : rebuild[r].draft[a] # NoProfile
    BY <1>2, <2>1
  <2>5. mail \subseteq Message /\ settled \subseteq Address
    BY DEF Init
  <2>6. profiles \in Table
    BY <1>1 DEF Init
  <2>7. made \in (SUBSET Message) \cup {Unknown}
    BY DEF Init
  <2>8. wrote \in [Address -> SUBSET Message]
    BY DEF Init
  <2> QED BY <2>2, <2>3, <2>4, <2>5, <2>6, <2>7, <2>8 DEF TypeOK
<1>4. RowsOfSenders
  BY <1>2, FS_EmptySet DEF Init, RowsOfSenders, Empty
<1>5. RowsSpoken /\ DraftsSpoken /\ AloneInv /\ VerdictsFromMail
  BY <1>2 DEF Init, RowsSpoken, Spoken, Empty, DraftsSpoken, AloneInv, VerdictsFromMail
<1> QED BY <1>3, <1>4, <1>5 DEF ProfilesInv

(* A rebuild begins: it is alone if all others are idle, and then they are   *)
(* alone no more.                                                            *)
LEMMA BeginStep ==
    ASSUME ProfilesInv, NEW r \in Rebuild, Begin(r)
    PROVE  ProfilesInv'
<1>1. TypeOK /\ RowsOfSenders /\ RowsSpoken /\ DraftsSpoken /\ AloneInv /\ VerdictsFromMail
  BY DEF ProfilesInv
<1>2. /\ UNCHANGED <<mail, profiles, failures, corrections, settled, wrote, made>>
      /\ rebuild'[r] = [Idle EXCEPT !.pc = "upsert", !.read = mail,
                                    !.alone = \A s \in Rebuild : rebuild[s].pc = "idle"]
      /\ \A s \in Rebuild \ {r} : rebuild'[s] = [rebuild[s] EXCEPT !.alone = FALSE]
      /\ DOMAIN rebuild' = Rebuild /\ rebuild' = [s \in Rebuild |-> rebuild'[s]]
  BY DEF Begin
<1>3. Empty \in Table
  BY DEF Empty, Table
<1>4. /\ rebuild'[r] \in RebuildRec /\ rebuild'[r].read = mail /\ rebuild'[r].held = {}
      /\ rebuild'[r].pc = "upsert"
      /\ rebuild'[r].alone = (\A s \in Rebuild : rebuild[s].pc = "idle")
  BY <1>1, <1>2, <1>3 DEF Idle, RebuildRec, TypeOK
<1>5. ASSUME NEW s \in Rebuild \ {r}
      PROVE  /\ rebuild'[s] \in RebuildRec /\ rebuild'[s].alone = FALSE
             /\ rebuild'[s].pc = rebuild[s].pc /\ rebuild'[s].read = rebuild[s].read
             /\ rebuild'[s].held = rebuild[s].held /\ rebuild'[s].draft = rebuild[s].draft
  <2>1. rebuild[s] \in RebuildRec
    BY <1>1 DEF TypeOK
  <2>2. \A x \in RebuildRec : LET y == [x EXCEPT !.alone = FALSE] IN
          /\ y \in RebuildRec /\ y.alone = FALSE
          /\ y.pc = x.pc /\ y.read = x.read /\ y.held = x.held /\ y.draft = x.draft
    BY DEF RebuildRec
  <2> QED BY <1>2, <2>1, <2>2
<1>a. rebuild' \in [Rebuild -> RebuildRec]
  <2>1. \A s \in Rebuild : rebuild'[s] \in RebuildRec
    BY <1>4, <1>5
  <2> QED BY <1>2, <2>1
<1>6. TypeOK'
  <2>1. ASSUME NEW s \in Rebuild, NEW a \in rebuild'[s].held
        PROVE  rebuild'[s].draft[a] # NoProfile
    <3>1. CASE s = r
      BY <1>4, <2>1, <3>1
    <3>2. CASE s # r
      BY <1>1, <1>5, <2>1, <3>2 DEF TypeOK
    <3> QED BY <3>1, <3>2
  <2> QED BY <1>1, <1>2, <1>a, <2>1 DEF TypeOK
<1>7. RowsOfSenders'
  BY <1>1, <1>2, <1>4, <1>5 DEF RowsOfSenders
<1>8. DraftsSpoken'
  <2>1. ASSUME NEW s \in Rebuild
        PROVE  /\ \A a \in rebuild'[s].held : Spoken(a, rebuild'[s].draft[a])
               /\ rebuild'[s].pc \in {"inherit", "commit"}
                    => Senders(rebuild'[s].read) \subseteq rebuild'[s].held
    <3>1. CASE s = r
      BY <1>4, <2>1, <3>1
    <3>2. CASE s # r
      BY <1>1, <1>5, <2>1, <3>2 DEF DraftsSpoken
    <3> QED BY <3>1, <3>2
  <2> QED BY <2>1 DEF DraftsSpoken
<1>9. AloneInv'
  <2>1. ASSUME rebuild'[r].alone PROVE AloneOK(r)'
    <3>1. \A s \in Rebuild \ {r} : rebuild'[s].pc = "idle"
      BY <1>4, <1>5, <2>1
    <3>2. \A a \in Address : profiles'[a] # NoProfile => a \in Senders(rebuild'[r].read)
      BY <1>1, <1>2, <1>4 DEF RowsOfSenders
    <3> QED BY <1>4, <3>1, <3>2 DEF AloneOK
  <2> QED BY <1>5, <2>1 DEF AloneInv
<1>10. RowsSpoken' /\ VerdictsFromMail'
  BY <1>1, <1>2 DEF RowsSpoken, VerdictsFromMail
<1> QED BY <1>6, <1>7, <1>8, <1>9, <1>10 DEF ProfilesInv

(* The first statement writes a row for every sender it has read of.         *)
LEMMA UpsertStep ==
    ASSUME ProfilesInv, NEW r \in Rebuild, Upsert(r)
    PROVE  ProfilesInv'
<1> DEFINE msgs == rebuild[r].read
           table == Upserted(msgs, profiles)
<1>1. TypeOK /\ RowsOfSenders /\ RowsSpoken /\ DraftsSpoken /\ AloneInv /\ VerdictsFromMail
  BY DEF ProfilesInv
<1>2. /\ UNCHANGED <<mail, profiles, failures, corrections, settled, wrote, made>>
      /\ rebuild[r].pc = "upsert"
      /\ rebuild' = [rebuild EXCEPT ![r] = [rebuild[r] EXCEPT !.pc = "inherit", !.held = Senders(msgs),
                                                             !.draft = table]]
  BY DEF Upsert
<1>3. /\ msgs \in SUBSET Message /\ IsFiniteSet(msgs) /\ msgs \subseteq mail
      /\ profiles \in Table /\ Senders(msgs) \subseteq Address
      /\ rebuild[r] \in RebuildRec /\ rebuild \in [Rebuild -> RebuildRec]
  BY <1>1, FS_Subset, SendersType DEF TypeOK, RowsOfSenders, RebuildRec
<1>4. ASSUME NEW a \in Address
      PROVE  IF a \in Senders(msgs)
             THEN /\ table[a] = Profile(msgs, a, Override(profiles[a])) /\ table[a] \in Row
                  /\ Spoken(a, table[a])
             ELSE table[a] = profiles[a]
  BY <1>3, OverrideType, ProfileType, ProfileSpoken DEF Upserted
<1>5. table \in Table
  <2>1. \A a \in Address : table[a] \in Row \cup {NoProfile}
    BY <1>3, <1>4 DEF Table
  <2> QED BY <2>1 DEF Table, Upserted
<1> HIDE DEF table
<1>6. /\ rebuild'[r] \in RebuildRec /\ rebuild'[r].pc = "inherit" /\ rebuild'[r].read = msgs
      /\ rebuild'[r].held = Senders(msgs) /\ rebuild'[r].draft = table
      /\ rebuild'[r].alone = rebuild[r].alone
      /\ \A s \in Rebuild \ {r} : rebuild'[s] = rebuild[s]
      /\ rebuild' \in [Rebuild -> RebuildRec]
  <2>1. Senders(msgs) \in SUBSET Address
    BY <1>3
  <2>2. [rebuild[r] EXCEPT !.pc = "inherit", !.held = Senders(msgs), !.draft = table] \in RebuildRec
    BY <1>3, <1>5, <2>1 DEF RebuildRec
  <2> QED BY <1>2, <1>3, <2>2 DEF RebuildRec
<1>7. TypeOK'
  BY <1>1, <1>2, <1>3, <1>4, <1>6, NullAssumption DEF TypeOK
<1>8. RowsOfSenders'
  BY <1>1, <1>2, <1>3, <1>6, SendersGrow DEF RowsOfSenders
<1>9. DraftsSpoken'
  BY <1>1, <1>3, <1>4, <1>6 DEF DraftsSpoken
<1>10. AloneInv'
  <2>1. ASSUME NEW s \in Rebuild \ {r}, rebuild'[s].pc # "idle", rebuild'[s].alone PROVE FALSE
    BY <1>1, <1>2, <1>6, <2>1 DEF AloneInv, AloneOK
  <2>2. ASSUME rebuild'[r].alone PROVE AloneOK(r)'
    <3>1. AloneOK(r)
      BY <1>1, <1>2, <1>6, <2>2 DEF AloneInv
    <3> QED BY <1>2, <1>3, <1>4, <1>6, <3>1 DEF AloneOK
  <2> QED BY <2>1, <2>2 DEF AloneInv
<1>11. RowsSpoken' /\ VerdictsFromMail'
  BY <1>1, <1>2 DEF RowsSpoken, VerdictsFromMail
<1> QED BY <1>7, <1>8, <1>9, <1>10, <1>11 DEF ProfilesInv

(* The second statement sweeps the domains.                                  *)
LEMMA InheritStep ==
    ASSUME ProfilesInv, NEW r \in Rebuild, Inherit(r)
    PROVE  ProfilesInv'
<1> DEFINE msgs == rebuild[r].read
           view == View(r)
           swept == Swept(view)
           table == Inherited(view)
<1>1. TypeOK /\ RowsOfSenders /\ RowsSpoken /\ DraftsSpoken /\ AloneInv /\ VerdictsFromMail
  BY DEF ProfilesInv
<1>2. /\ UNCHANGED <<mail, profiles, failures, corrections, settled, wrote, made>>
      /\ rebuild[r].pc = "inherit"
      /\ rebuild' = [rebuild EXCEPT ![r] = [rebuild[r] EXCEPT !.pc = "commit", !.held = @ \cup swept,
                                                             !.draft = table]]
  BY DEF Inherit
<1>3. /\ msgs \in SUBSET Message /\ IsFiniteSet(msgs) /\ msgs \subseteq mail
      /\ profiles \in Table /\ Senders(msgs) \subseteq Address /\ Senders(msgs) \subseteq Senders(mail)
      /\ rebuild[r] \in RebuildRec /\ rebuild \in [Rebuild -> RebuildRec]
      /\ rebuild[r].held \subseteq Address
      /\ \A a \in rebuild[r].held : rebuild[r].draft[a] # NoProfile
  BY <1>1, FS_Subset, SendersType, SendersGrow DEF TypeOK, RowsOfSenders, RebuildRec
<1>4. /\ view \in Table
      /\ \A a \in Address : view[a] = IF a \in rebuild[r].held THEN rebuild[r].draft[a] ELSE profiles[a]
  BY <1>1, ViewType
<1> HIDE DEF view
<1>5. /\ table \in Table /\ swept \subseteq Address
      /\ \A a \in Address : a \notin swept => table[a] = view[a]
      /\ \A a \in swept : /\ view[a] # NoProfile /\ table[a] # NoProfile
                          /\ table[a].override = None /\ table[a].sentTo = 0
  <2>1. swept \subseteq Address
    BY DEF Swept
  <2>2. table \in Table
    <3>1. Address = {} => table \in Table
      BY DEF Inherited, Table
    <3> QED BY <1>4, <3>1, SweepSpares
  <2>3. \A a \in Address : a \notin swept => table[a] = view[a]
    BY <1>4, SweepSpares
  <2>4. ASSUME NEW a \in swept
        PROVE  /\ view[a] # NoProfile /\ table[a] # NoProfile
               /\ table[a].override = None /\ table[a].sentTo = 0
    BY <1>4, <2>1, SweepSpares
  <2> QED BY <2>1, <2>2, <2>3, <2>4
<1> HIDE DEF swept, table
<1>6. /\ rebuild'[r] \in RebuildRec /\ rebuild'[r].pc = "commit" /\ rebuild'[r].read = msgs
      /\ rebuild'[r].held = rebuild[r].held \cup swept /\ rebuild'[r].draft = table
      /\ rebuild'[r].alone = rebuild[r].alone
      /\ \A s \in Rebuild \ {r} : rebuild'[s] = rebuild[s]
      /\ rebuild' \in [Rebuild -> RebuildRec]
  <2>1. rebuild[r].held \cup swept \in SUBSET Address
    BY <1>3, <1>5
  <2>2. [rebuild[r] EXCEPT !.pc = "commit", !.held = rebuild[r].held \cup swept, !.draft = table]
          \in RebuildRec
    BY <1>3, <1>5, <2>1 DEF RebuildRec
  <2> QED BY <1>2, <1>3, <2>2 DEF RebuildRec
<1>7. ASSUME NEW a \in rebuild'[r].held
      PROVE  table[a] # NoProfile /\ Spoken(a, table[a]) /\ a \in Senders(mail)
  <2>1. CASE a \in swept
    <3>1. a \in rebuild[r].held \/ profiles[a] # NoProfile
      BY <1>4, <1>5, <2>1
    <3>2. a \in Senders(mail)
      BY <1>1, <1>5, <2>1, <3>1 DEF RowsOfSenders
    <3>3. table[a] # NoProfile /\ table[a].override = None /\ ~(table[a].sentTo > 0)
      BY <1>5, <2>1
    <3> QED BY <3>2, <3>3 DEF Spoken
  <2>2. CASE a \notin swept
    <3>1. a \in rebuild[r].held /\ a \in Address /\ table[a] = rebuild[r].draft[a]
      BY <1>3, <1>4, <1>5, <1>6, <1>7, <2>2
    <3> QED BY <1>1, <1>3, <3>1 DEF DraftsSpoken, RowsOfSenders
  <2> QED BY <2>1, <2>2
<1>8. TypeOK'
  <2>1. ASSUME NEW s \in Rebuild, NEW a \in rebuild'[s].held
        PROVE  rebuild'[s].draft[a] # NoProfile
    <3>1. CASE s = r
      BY <1>6, <1>7, <2>1, <3>1
    <3>2. CASE s # r
      BY <1>1, <1>6, <2>1, <3>2 DEF TypeOK
    <3> QED BY <3>1, <3>2
  <2> QED BY <1>1, <1>2, <1>6, <2>1 DEF TypeOK
<1>9. RowsOfSenders'
  BY <1>1, <1>2, <1>3, <1>6, <1>7 DEF RowsOfSenders
<1>10. DraftsSpoken'
  <2>1. Senders(msgs) \subseteq rebuild'[r].held
    BY <1>1, <1>2, <1>6 DEF DraftsSpoken
  <2> QED BY <1>1, <1>6, <1>7, <2>1 DEF DraftsSpoken
<1>11. AloneInv'
  <2>1. ASSUME NEW s \in Rebuild \ {r}, rebuild'[s].pc # "idle", rebuild'[s].alone PROVE FALSE
    BY <1>1, <1>2, <1>6, <2>1 DEF AloneInv, AloneOK
  <2>2. ASSUME rebuild'[r].alone PROVE AloneOK(r)'
    <3>1. AloneOK(r)
      BY <1>1, <1>2, <1>6, <2>2 DEF AloneInv
    <3>2. \A a \in Address : view[a] = IF a \in Senders(msgs)
                                       THEN Profile(msgs, a, Override(profiles[a])) ELSE NoProfile
      BY <1>2, <1>4, <3>1 DEF AloneOK
    <3>3. View(r)' = table
      <4>1. View(r)' \in Table
            /\ \A a \in Address : View(r)'[a] = IF a \in rebuild'[r].held THEN rebuild'[r].draft[a]
                                                ELSE profiles'[a]
        BY <1>2, <1>3, <1>6 DEF View, Table, RebuildRec
      <4>2. \A a \in Address : View(r)'[a] = table[a]
        BY <1>2, <1>4, <1>5, <1>6, <4>1
      <4> QED BY <1>5, <4>1, <4>2 DEF Table
    <3>4. table = FromScratch(msgs, table)
      BY <1>3, <1>4, <3>2, SweepOnce DEF table
    <3>5. \A s \in Rebuild \ {r} : rebuild'[s].pc = "idle"
      BY <1>6, <3>1 DEF AloneOK
    <3>6. \A a \in Address : profiles'[a] # NoProfile => a \in Senders(rebuild'[r].read)
      BY <1>2, <1>6, <3>1 DEF AloneOK
    <3> QED BY <1>6, <3>3, <3>4, <3>5, <3>6 DEF AloneOK
  <2> QED BY <2>1, <2>2 DEF AloneInv
<1>12. RowsSpoken' /\ VerdictsFromMail'
  BY <1>1, <1>2 DEF RowsSpoken, VerdictsFromMail
<1> QED BY <1>8, <1>9, <1>10, <1>11, <1>12 DEF ProfilesInv

(* The transaction commits: the table is what the rebuild saw.               *)
LEMMA CommitStep ==
    ASSUME ProfilesInv, NEW r \in Rebuild, Commit(r)
    PROVE  ProfilesInv'
<1> DEFINE msgs == rebuild[r].read
           view == View(r)
<1>1. TypeOK /\ RowsOfSenders /\ RowsSpoken /\ DraftsSpoken /\ AloneInv /\ VerdictsFromMail
  BY DEF ProfilesInv
<1>2. /\ UNCHANGED <<mail, failures, corrections>>
      /\ rebuild[r].pc = "commit" /\ profiles' = view
      /\ settled' = settled \cup Senders(msgs)
      /\ wrote' = [a \in Address |-> IF a \in Senders(msgs) THEN msgs ELSE wrote[a]]
      /\ made' = IF rebuild[r].alone THEN msgs ELSE Unknown
      /\ rebuild' = [rebuild EXCEPT ![r] = Idle]
  BY DEF Commit
<1>3. /\ msgs \in SUBSET Message /\ Senders(msgs) \subseteq Address
      /\ rebuild \in [Rebuild -> RebuildRec]
      /\ rebuild[r].held \subseteq Senders(mail) /\ Senders(msgs) \subseteq rebuild[r].held
  BY <1>1, <1>2, SendersType DEF TypeOK, RowsOfSenders, RebuildRec, DraftsSpoken
<1>4. /\ view \in Table
      /\ \A a \in Address : view[a] = IF a \in rebuild[r].held THEN rebuild[r].draft[a] ELSE profiles[a]
  BY <1>1, ViewType
<1>5. Idle \in RebuildRec /\ Idle.pc = "idle" /\ Idle.held = {} /\ Idle.read = {}
  <2>1. Empty \in Table
    BY DEF Empty, Table
  <2> QED BY <2>1 DEF Idle, RebuildRec
<1>6. /\ rebuild'[r] = Idle /\ \A s \in Rebuild \ {r} : rebuild'[s] = rebuild[s]
      /\ rebuild' \in [Rebuild -> RebuildRec]
  BY <1>2, <1>3, <1>5
<1> HIDE DEF view
<1>7. TypeOK'
  <2>1. \A s \in Rebuild : \A a \in rebuild'[s].held : rebuild'[s].draft[a] # NoProfile
    BY <1>1, <1>5, <1>6 DEF TypeOK
  <2>2. settled' \subseteq Address
    BY <1>1, <1>2, <1>3 DEF TypeOK
  <2>3. made' \in (SUBSET Message) \cup {Unknown}
    BY <1>2, <1>3
  <2>4. wrote' \in [Address -> SUBSET Message]
    BY <1>1, <1>2, <1>3 DEF TypeOK
  <2> QED BY <1>1, <1>2, <1>4, <1>6, <2>1, <2>2, <2>3, <2>4 DEF TypeOK
<1>8. RowsOfSenders'
  BY <1>1, <1>2, <1>3, <1>4, <1>5, <1>6 DEF RowsOfSenders
<1>9. RowsSpoken'
  <2> SUFFICES ASSUME NEW a \in settled' PROVE Spoken(a, view[a])
    BY <1>2 DEF RowsSpoken
  <2>1. a \in Address
    BY <1>1, <1>2, <1>3 DEF TypeOK
  <2>2. CASE a \in rebuild[r].held
    BY <1>1, <1>4, <2>1, <2>2 DEF DraftsSpoken
  <2>3. CASE a \notin rebuild[r].held
    BY <1>1, <1>2, <1>3, <1>4, <2>1, <2>3 DEF RowsSpoken, Spoken
  <2> QED BY <2>2, <2>3
<1>10. DraftsSpoken'
  BY <1>1, <1>5, <1>6 DEF DraftsSpoken
<1>11. AloneInv'
  <2>1. ASSUME NEW s \in Rebuild \ {r}, rebuild'[s].pc # "idle", rebuild'[s].alone PROVE FALSE
    BY <1>1, <1>2, <1>6, <2>1 DEF AloneInv, AloneOK
  <2> QED BY <1>5, <1>6, <2>1 DEF AloneInv
<1>12. VerdictsFromMail'
  <2>1. ASSUME rebuild[r].alone PROVE view = FromScratch(msgs, view)
    BY <1>1, <1>2, <2>1 DEF AloneInv, AloneOK, view
  <2> QED BY <1>2, <2>1 DEF VerdictsFromMail
<1> QED BY <1>7, <1>8, <1>9, <1>10, <1>11, <1>12 DEF ProfilesInv

(* A rebuild ends without a trace.                                           *)
LEMMA FailStep ==
    ASSUME ProfilesInv, NEW r \in Rebuild, Fail(r)
    PROVE  ProfilesInv'
<1>1. TypeOK /\ RowsOfSenders /\ RowsSpoken /\ DraftsSpoken /\ AloneInv /\ VerdictsFromMail
  BY DEF ProfilesInv
<1>2. /\ UNCHANGED <<mail, profiles, corrections, settled, wrote, made>>
      /\ failures < MaxFailures /\ failures' = failures + 1
      /\ rebuild' = [rebuild EXCEPT ![r] = Idle]
  BY DEF Fail
<1>5. Idle \in RebuildRec /\ Idle.pc = "idle" /\ Idle.held = {} /\ Idle.read = {}
  <2>1. Empty \in Table
    BY DEF Empty, Table
  <2> QED BY <2>1 DEF Idle, RebuildRec
<1>6. /\ rebuild'[r] = Idle /\ \A s \in Rebuild \ {r} : rebuild'[s] = rebuild[s]
      /\ rebuild' \in [Rebuild -> RebuildRec]
  BY <1>1, <1>2, <1>5 DEF TypeOK
<1>7. TypeOK'
  <2>1. \A s \in Rebuild : \A a \in rebuild'[s].held : rebuild'[s].draft[a] # NoProfile
    BY <1>1, <1>5, <1>6 DEF TypeOK
  <2>2. failures' \in 0 .. MaxFailures
    BY <1>1, <1>2, ProfilesAssumption DEF TypeOK
  <2> QED BY <1>1, <1>2, <1>6, <2>1, <2>2 DEF TypeOK
<1>8. RowsOfSenders' /\ DraftsSpoken'
  BY <1>1, <1>2, <1>5, <1>6 DEF RowsOfSenders, DraftsSpoken
<1>9. RowsSpoken' /\ VerdictsFromMail'
  BY <1>1, <1>2 DEF RowsSpoken, VerdictsFromMail
<1>10. AloneInv'
  <2>1. ASSUME NEW s \in Rebuild \ {r}, rebuild'[s].pc # "idle", rebuild'[s].alone
        PROVE  AloneOK(s)'
    <3>1. AloneOK(s)
      BY <1>1, <1>6, <2>1 DEF AloneInv
    <3>2. View(s)' = View(s)
      BY <1>2, <1>6 DEF View
    <3>3. \A q \in Rebuild \ {s} : rebuild'[q].pc = "idle"
      BY <1>5, <1>6, <3>1 DEF AloneOK
    <3> QED BY <1>2, <1>6, <3>1, <3>2, <3>3 DEF AloneOK
  <2> QED BY <1>5, <1>6, <2>1 DEF AloneInv
<1> QED BY <1>7, <1>8, <1>9, <1>10 DEF ProfilesInv

(* Mail arrives.                                                             *)
LEMMA ArriveStep ==
    ASSUME ProfilesInv, NEW m \in Message, Arrive(m)
    PROVE  ProfilesInv'
<1>1. TypeOK /\ RowsOfSenders /\ RowsSpoken /\ DraftsSpoken /\ AloneInv /\ VerdictsFromMail
  BY DEF ProfilesInv
<1>2. mail' = mail \cup {m} /\ UNCHANGED <<profiles, rebuild, failures, corrections, settled, wrote, made>>
  BY DEF Arrive
<1>3. Senders(mail) \subseteq Senders(mail')
  BY <1>2, SendersGrow
<1>4. IsFiniteSet(mail')
  BY <1>1, <1>2, FS_AddElement DEF RowsOfSenders
<1>5. TypeOK'
  BY <1>1, <1>2 DEF TypeOK
<1>6. RowsOfSenders'
  BY <1>1, <1>2, <1>3, <1>4 DEF RowsOfSenders
<1>7. RowsSpoken' /\ DraftsSpoken' /\ VerdictsFromMail'
  BY <1>1, <1>2 DEF RowsSpoken, DraftsSpoken, VerdictsFromMail
<1>8. AloneInv'
  <2>1. \A r \in Rebuild : View(r)' = View(r)
    BY <1>2 DEF View
  <2> QED BY <1>1, <1>2, <2>1 DEF AloneInv, AloneOK
<1> QED BY <1>5, <1>6, <1>7, <1>8 DEF ProfilesInv

(* The owner corrects a row that nobody holds: there is none while a rebuild *)
(* that is alone has written its own.                                        *)
LEMMA CorrectStep ==
    ASSUME ProfilesInv, NEW a \in Address, NEW o \in Kind \cup {None}, Correct(a, o)
    PROVE  ProfilesInv'
<1>1. TypeOK /\ RowsOfSenders /\ RowsSpoken /\ DraftsSpoken /\ AloneInv /\ VerdictsFromMail
  BY DEF ProfilesInv
<1>2. /\ UNCHANGED <<mail, rebuild, failures, wrote>>
      /\ profiles[a] # NoProfile /\ \A r \in Rebuild : a \notin rebuild[r].held
      /\ profiles' = [profiles EXCEPT ![a] = [profiles[a] EXCEPT !.override = o]]
      /\ corrections < MaxOverrides /\ corrections' = corrections + 1
      /\ settled' = settled \ {a} /\ made' = Unknown
  BY DEF Correct
<1>3. profiles \in Table /\ profiles[a] \in Row /\ [profiles[a] EXCEPT !.override = o] \in Row
  <2>1. profiles \in Table /\ profiles[a] \in Row
    BY <1>1, <1>2 DEF TypeOK, Table
  <2> QED BY <2>1 DEF Row
<1>4. /\ profiles' \in Table /\ profiles'[a] # NoProfile
      /\ \A b \in Address \ {a} : profiles'[b] = profiles[b]
  BY <1>2, <1>3, NullAssumption DEF Table
<1>5. TypeOK'
  <2>1. corrections' \in 0 .. MaxOverrides
    BY <1>1, <1>2, ProfilesAssumption DEF TypeOK
  <2> QED BY <1>1, <1>2, <1>4, <2>1 DEF TypeOK
<1>6. RowsOfSenders'
  BY <1>1, <1>2, <1>4 DEF RowsOfSenders
<1>7. RowsSpoken' /\ DraftsSpoken' /\ VerdictsFromMail'
  <2>1. \A b \in settled' : b \in settled /\ profiles'[b] = profiles[b]
    BY <1>1, <1>2, <1>4 DEF TypeOK
  <2> QED BY <1>1, <1>2, <2>1 DEF RowsSpoken, DraftsSpoken, VerdictsFromMail
<1>8. AloneInv'
  <2>1. ASSUME NEW r \in Rebuild, rebuild[r].pc # "idle", rebuild[r].alone PROVE AloneOK(r)'
    <3>1. AloneOK(r)
      BY <1>1, <2>1 DEF AloneInv
    <3>2. rebuild[r].pc = "upsert"
      <4>1. a \in Senders(rebuild[r].read)
        BY <1>2, <3>1 DEF AloneOK
      <4>2. rebuild[r].pc \notin {"inherit", "commit"}
        BY <1>1, <1>2, <4>1 DEF DraftsSpoken
      <4> QED BY <1>1, <2>1, <4>2 DEF TypeOK, RebuildRec
    <3>3. \A b \in Address : profiles'[b] # NoProfile => profiles[b] # NoProfile
      BY <1>2, <1>4
    <3> QED BY <1>2, <3>1, <3>2, <3>3 DEF AloneOK
  <2> QED BY <1>2, <2>1 DEF AloneInv
<1> QED BY <1>5, <1>6, <1>7, <1>8 DEF ProfilesInv

(* All steps.                                                                *)
LEMMA NextProfilesInv == ProfilesInv /\ [Next]_vars => ProfilesInv'
<1> SUFFICES ASSUME ProfilesInv, [Next]_vars PROVE ProfilesInv'
  OBVIOUS
<1>1. CASE UNCHANGED vars
  <2>1. \A r \in Rebuild : View(r)' = View(r)
    BY <1>1 DEF View, vars
  <2> QED BY <1>1, <2>1
    DEF vars, ProfilesInv, TypeOK, RowsOfSenders, RowsSpoken, DraftsSpoken, AloneInv, AloneOK,
        VerdictsFromMail
<1> QED BY <1>1, BeginStep, UpsertStep, InheritStep, CommitStep, FailStep, ArriveStep, CorrectStep
  DEF Next

(* So it always holds.                                                       *)
LEMMA ProfilesInvAlways == Spec => []ProfilesInv
BY InitProfilesInv, NextProfilesInv, PTL DEF Spec

(***************************************************************************)
(* What a row says of the owner is what was in the mail                    *)
(***************************************************************************)

\* No row is held twice.
HeldApart ==
    \A r, s \in Rebuild : r # s => rebuild[r].held \cap rebuild[s].held = {}

\* The mail from which a rebuild has the count in a row that it holds.
CountedIn(r, a) == IF a \in Senders(rebuild[r].read) THEN rebuild[r].read ELSE wrote[a]

\* Every count is that of the mail it was made from.
Counted ==
    /\ \A a \in Address : profiles[a] # NoProfile => profiles[a].sentTo = SentTo(wrote[a], a)
    /\ \A r \in Rebuild : \A a \in rebuild[r].held :
         rebuild[r].draft[a].sentTo = SentTo(CountedIn(r, a), a)

(* The first statement counts anew.                                          *)
LEMMA UpsertCounts ==
    ASSUME ProfilesInv, HeldApart, Counted, NEW r \in Rebuild, Upsert(r)
    PROVE  HeldApart' /\ Counted'
<1> DEFINE msgs == rebuild[r].read
           table == Upserted(msgs, profiles)
<1>1. TypeOK /\ rebuild \in [Rebuild -> RebuildRec] /\ rebuild[r] \in RebuildRec
  BY DEF ProfilesInv, TypeOK
<1>2. /\ UNCHANGED <<profiles, wrote>>
      /\ \A s \in Rebuild \ {r} : rebuild'[s] = rebuild[s]
      /\ rebuild'[r].read = msgs /\ rebuild'[r].held = Senders(msgs) /\ rebuild'[r].draft = table
  BY <1>1 DEF Upsert, RebuildRec
<1>3. Senders(msgs) \subseteq Address
  BY <1>1, SendersType DEF RebuildRec
<1>4. \A a \in Senders(msgs) : table[a].sentTo = SentTo(msgs, a)
  BY <1>3 DEF Upserted, Profile
<1>5. HeldApart'
  <2>1. \A s \in Rebuild \ {r} : rebuild[s].held \cap Senders(msgs) = {}
    BY DEF Upsert, Free
  <2>2. \A s \in Rebuild \ {r} : rebuild'[s].held \cap rebuild'[r].held = {}
    BY <1>2, <2>1 DEF HeldApart
  <2> QED BY <1>2, <2>2 DEF HeldApart
<1>6. ASSUME NEW s \in Rebuild, NEW a \in rebuild'[s].held
      PROVE  rebuild'[s].draft[a].sentTo = SentTo(CountedIn(s, a), a)'
  <2>1. CASE s = r
    BY <1>2, <1>4, <1>6, <2>1 DEF CountedIn, SentTo
  <2>2. CASE s # r
    BY <1>2, <1>6, <2>2 DEF Counted, CountedIn, SentTo
  <2> QED BY <2>1, <2>2
<1>7. Counted'
  BY <1>2, <1>6 DEF Counted, SentTo
<1> QED BY <1>5, <1>7

(* The second one copies what it finds.                                      *)
LEMMA InheritCounts ==
    ASSUME ProfilesInv, HeldApart, Counted, NEW r \in Rebuild, Inherit(r)
    PROVE  HeldApart' /\ Counted'
<1> DEFINE view == View(r)
           swept == Swept(view)
           table == Inherited(view)
<1>1. TypeOK /\ rebuild \in [Rebuild -> RebuildRec] /\ rebuild[r] \in RebuildRec
  BY DEF ProfilesInv, TypeOK
<1>2. /\ UNCHANGED <<profiles, wrote>>
      /\ \A s \in Rebuild \ {r} : rebuild'[s] = rebuild[s]
      /\ rebuild'[r].read = rebuild[r].read /\ rebuild'[r].draft = table
      /\ rebuild'[r].held = rebuild[r].held \cup swept
  BY <1>1 DEF Inherit, RebuildRec
<1>3. /\ view \in Table
      /\ \A a \in Address : view[a] = IF a \in rebuild[r].held THEN rebuild[r].draft[a] ELSE profiles[a]
  BY <1>1, ViewType
<1>4. rebuild[r].held \subseteq Address /\ swept \subseteq Address
  BY <1>1 DEF RebuildRec, Swept
<1>5. HeldApart'
  <2>1. \A s \in Rebuild \ {r} : rebuild[s].held \cap swept = {}
    BY DEF Inherit, Free
  <2>2. \A s \in Rebuild \ {r} : rebuild'[s].held \cap rebuild'[r].held = {}
    BY <1>2, <2>1 DEF HeldApart
  <2> QED BY <1>2, <2>2 DEF HeldApart
<1> HIDE DEF view
<1>6. \A a \in rebuild'[r].held : table[a].sentTo = view[a].sentTo
  BY <1>2, <1>3, <1>4, SweepSpares
<1>7. \A a \in Address \ rebuild[r].held : a \in swept => view[a] # NoProfile
  BY <1>3, SweepSpares
<1>8. ASSUME NEW a \in rebuild[r].held
      PROVE  table[a].sentTo = SentTo(CountedIn(r, a), a)
  BY <1>2, <1>3, <1>4, <1>6 DEF Counted
<1>9. ASSUME NEW a \in swept, a \notin rebuild[r].held
      PROVE  table[a].sentTo = SentTo(CountedIn(r, a), a)
  <2>1. a \notin Senders(rebuild[r].read)
    BY <1>9 DEF ProfilesInv, DraftsSpoken, Inherit
  <2>2. table[a].sentTo = profiles[a].sentTo /\ profiles[a] # NoProfile
    BY <1>2, <1>3, <1>4, <1>6, <1>7, <1>9
  <2> QED BY <1>4, <2>1, <2>2 DEF Counted, CountedIn
<1>10. ASSUME NEW s \in Rebuild, NEW a \in rebuild'[s].held
       PROVE  rebuild'[s].draft[a].sentTo = SentTo(CountedIn(s, a), a)'
  <2>1. SentTo(CountedIn(s, a), a)' = SentTo(CountedIn(s, a), a)
    BY <1>2 DEF CountedIn, SentTo
  <2>2. CASE s = r
    BY <1>2, <1>8, <1>9, <1>10, <2>1, <2>2
  <2>3. CASE s # r
    BY <1>2, <1>10, <2>1, <2>3 DEF Counted
  <2> QED BY <2>2, <2>3
<1>11. Counted'
  BY <1>2, <1>10 DEF Counted, SentTo
<1> QED BY <1>5, <1>11

(* A commit publishes its counts, and disturbs none that another holds.      *)
LEMMA CommitCounts ==
    ASSUME ProfilesInv, HeldApart, Counted, NEW r \in Rebuild, Commit(r)
    PROVE  HeldApart' /\ Counted'
<1> DEFINE msgs == rebuild[r].read
           view == View(r)
<1>1. TypeOK /\ rebuild \in [Rebuild -> RebuildRec]
  BY DEF ProfilesInv, TypeOK
<1>2. /\ profiles' = view
      /\ wrote' = [a \in Address |-> IF a \in Senders(msgs) THEN msgs ELSE wrote[a]]
      /\ \A s \in Rebuild \ {r} : rebuild'[s] = rebuild[s]
      /\ rebuild'[r].held = {}
  BY <1>1 DEF Commit, Idle
<1>3. \A a \in Address : view[a] = IF a \in rebuild[r].held THEN rebuild[r].draft[a] ELSE profiles[a]
  BY <1>1, ViewType
<1>4. Senders(msgs) \subseteq rebuild[r].held
  BY DEF Commit, ProfilesInv, DraftsSpoken
<1> HIDE DEF view
<1>5. HeldApart'
  BY <1>2 DEF HeldApart
<1>6. \A a \in Address : wrote'[a] = CountedIn(r, a)
  BY <1>2 DEF CountedIn
<1>7. ASSUME NEW a \in Address, profiles'[a] # NoProfile
      PROVE  profiles'[a].sentTo = SentTo(wrote'[a], a)
  <2>1. CASE a \in rebuild[r].held
    BY <1>2, <1>3, <1>6, <2>1 DEF Counted
  <2>2. CASE a \notin rebuild[r].held
    BY <1>2, <1>3, <1>4, <1>7, <2>2 DEF Counted
  <2> QED BY <2>1, <2>2
<1>8. ASSUME NEW s \in Rebuild, NEW a \in rebuild'[s].held
      PROVE  rebuild'[s].draft[a].sentTo = SentTo(CountedIn(s, a)', a)
  <2>1. s # r /\ rebuild'[s] = rebuild[s]
    BY <1>2, <1>8
  <2>2. a \in Address /\ a \notin rebuild[r].held
    BY <1>1, <1>8, <2>1 DEF HeldApart, RebuildRec
  <2>3. CountedIn(s, a)' = CountedIn(s, a)
    BY <1>2, <1>4, <2>1, <2>2 DEF CountedIn, Senders
  <2> QED BY <1>8, <2>1, <2>3 DEF Counted
<1>9. Counted'
  BY <1>7, <1>8 DEF Counted, SentTo
<1> QED BY <1>5, <1>9

(* No other step changes a count, or who holds what, but for giving it up.   *)
LEMMA OthersCount ==
    ASSUME ProfilesInv, HeldApart, Counted,
           \/ \E r \in Rebuild : Begin(r) \/ Fail(r)
           \/ \E m \in Message : Arrive(m)
           \/ \E a \in Address, k \in Kind \cup {None} : Correct(a, k)
           \/ UNCHANGED vars
    PROVE  HeldApart' /\ Counted'
<1>1. TypeOK /\ rebuild \in [Rebuild -> RebuildRec]
  BY DEF ProfilesInv, TypeOK
<1>2. wrote' = wrote
  BY DEF Begin, Fail, Arrive, Correct, vars
<1>3. ASSUME NEW s \in Rebuild
      PROVE  \/ rebuild'[s].held = {}
             \/ /\ rebuild'[s].held = rebuild[s].held /\ rebuild'[s].read = rebuild[s].read
                /\ rebuild'[s].draft = rebuild[s].draft
  <2>1. CASE \E r \in Rebuild : Begin(r)
    <3>1. PICK r \in Rebuild : Begin(r)
      BY <2>1
    <3>2. rebuild[s] \in RebuildRec
      BY <1>1
    <3>3. rebuild'[s] = IF s = r
            THEN [Idle EXCEPT !.pc = "upsert", !.read = mail,
                              !.alone = \A q \in Rebuild : rebuild[q].pc = "idle"]
            ELSE [rebuild[s] EXCEPT !.alone = FALSE]
      BY <3>1 DEF Begin
    <3> QED BY <3>2, <3>3 DEF Idle, RebuildRec
  <2>2. CASE \E r \in Rebuild : Fail(r)
    BY <1>1, <2>2 DEF Fail, Idle
  <2>3. CASE rebuild' = rebuild
    BY <2>3
  <2> QED BY <2>1, <2>2, <2>3 DEF Arrive, Correct, vars
<1>4. HeldApart'
  BY <1>3 DEF HeldApart
<1>5. ASSUME NEW a \in Address
      PROVE  profiles'[a] # NoProfile
               => profiles[a] # NoProfile /\ profiles'[a].sentTo = profiles[a].sentTo
  <2>1. CASE profiles' = profiles
    BY <2>1
  <2>2. CASE \E b \in Address, k \in Kind \cup {None} : Correct(b, k)
    <3>1. PICK b \in Address, k \in Kind \cup {None} : Correct(b, k)
      BY <2>2
    <3>2. profiles \in [Address -> Row \cup {NoProfile}]
      BY <1>1 DEF TypeOK, Table
    <3>3. profiles[b] \in Row /\ profiles' = [profiles EXCEPT ![b] = [profiles[b] EXCEPT !.override = k]]
      BY <3>1, <3>2 DEF Correct
    <3>4. [profiles[b] EXCEPT !.override = k].sentTo = profiles[b].sentTo
      BY <3>3 DEF Row
    <3> QED BY <3>2, <3>3, <3>4, NullAssumption
  <2> QED BY <2>1, <2>2 DEF Begin, Fail, Arrive, vars
<1>6. Counted'
  <2>1. ASSUME NEW s \in Rebuild, NEW a \in rebuild'[s].held
        PROVE  rebuild'[s].draft[a].sentTo = SentTo(CountedIn(s, a)', a)
    <3>1. CountedIn(s, a)' = CountedIn(s, a)
      BY <1>2, <1>3, <2>1 DEF CountedIn, Senders
    <3> QED BY <1>3, <2>1, <3>1 DEF Counted
  <2> QED BY <1>2, <1>5, <2>1 DEF Counted, SentTo
<1> QED BY <1>4, <1>6

(* So all that is counted is counted right.                                  *)
LEMMA CountedAlways == Spec => [](ProfilesInv /\ HeldApart /\ Counted)
<1>1. Init => HeldApart /\ Counted
  BY DEF Init, HeldApart, Counted, Idle, Empty
<1>2. ProfilesInv /\ HeldApart /\ Counted /\ [Next]_vars => HeldApart' /\ Counted'
  BY UpsertCounts, InheritCounts, CommitCounts, OthersCount DEF Next
<1> QED BY <1>1, <1>2, ProfilesInvAlways, PTL DEF Spec

(***************************************************************************)
(* The theorems                                                            *)
(***************************************************************************)

\* sender_profiles and what rebuilds hold of it are well formed.
THEOREM ProfileTypes == Spec => []TypeOK
<1>1. ProfilesInv => TypeOK
  BY DEF ProfilesInv
<1> QED BY <1>1, ProfilesInvAlways, PTL

\* What the owner says of an address stands in every row a rebuild has written
\* since, and nobody is hidden whom the owner had written to in the mail that the
\* last rebuild to write the row had read; whatever mail arrives, however many
\* rebuilds overlap and wherever they fail (analytics.py: rebuild_sender_profiles).
THEOREM OwnersWordStandsAlways == Spec => []OwnersWordStands
<1>1. ProfilesInv /\ Counted => OwnersWordStands
  BY DEF ProfilesInv, TypeOK, RowsSpoken, Spoken, Counted, OwnersWordStands
<1> QED BY <1>1, CountedAlways, PTL

\* After a rebuild that overlapped no other the table is a function of the mail
\* and the overrides alone: earlier verdicts, swept ones included, are forgotten.
THEOREM VerdictsFromMailAlways == Spec => []VerdictsFromMail
<1>1. ProfilesInv => VerdictsFromMail
  BY DEF ProfilesInv
<1> QED BY <1>1, ProfilesInvAlways, PTL
=============================================================================
