----------------------------- MODULE SenderProfiles -----------------------------
(***************************************************************************)
(* Which senders are people: rebuild_sender_profiles of analytics.py, two  *)
(* statements in one transaction, while mail is ingested, the owner of the *)
(* archive corrects verdicts by hand, and another rebuild may run.         *)
(*                                                                         *)
(* A statement reads what was committed when it began (read committed),    *)
(* and writes each row over its latest committed version, once no other    *)
(* transaction holds it.                                                   *)
(***************************************************************************)
EXTENDS Naturals, FiniteSets, FiniteSetsExt

CONSTANTS
    Address,
    DomainOf,       \* the domain of an address
    Message,
    From,           \* the sender of a message, or None
    To,             \* its recipients
    LabelsOf,       \* its labels, among Bulk (any of them), Personal and Sent
    Unreplyable,    \* addresses that look like no-reply
    RoleShaped,     \* addresses that look like a role
    HighVolume,     \* so many messages make a machine
    HighPersonal,   \* so many make one although Gmail says Personal
    DomainVolume,   \* so many say something of a domain
    RatioNum,       \* and this share of them in bulk
    RatioDen,
    None,           \* no sender, no override
    NoProfile,      \* no row
    Unknown,        \* the table is not the work of one rebuild
    Rebuild,        \* invocations of the command
    MaxFailures,    \* bound on rebuilds that fail or are killed
    MaxOverrides    \* bound on the owner's corrections

ASSUME ProfilesAssumption ==
    /\ From \in [Message -> Address \cup {None}]
    /\ To \in [Message -> SUBSET Address]
    /\ LabelsOf \in [Message -> SUBSET {"Bulk", "Personal", "Sent"}]
    /\ Unreplyable \cup RoleShaped \subseteq Address
    /\ {HighVolume, HighPersonal, DomainVolume, RatioNum, RatioDen} \subseteq Nat \ {0}
    /\ {MaxFailures, MaxOverrides} \subseteq Nat

VARIABLES
    mail,       \* tables messages and labels
    profiles,   \* table sender_profiles, as committed
    rebuild,    \* per rebuild: its place, what it has read, the rows it holds
    failures, corrections,  \* how many there have been
    settled,    \* history: rows rewritten since their override was set
    wrote,      \* history: the mail read by the rebuild that wrote a row last
    made        \* history: the messages of the last rebuild, if nothing disturbed it

vars == <<mail, profiles, rebuild, failures, corrections, settled, wrote, made>>

Kind == {"human", "bulk"}

Row == [kind : Kind, received : Nat, sentTo : Nat, personal : BOOLEAN,
        override : Kind \cup {None}]

\* NULL is neither an address nor a verdict, the absence of a row no row, and an
\* unknown origin no set of messages.
ASSUME NullAssumption ==
    /\ None \notin Address \cup Kind
    /\ NoProfile \notin Row
    /\ \A msgs \in SUBSET Message : Unknown # msgs

Table == [Address -> Row \cup {NoProfile}]

RebuildRec == [pc : {"idle", "upsert", "inherit", "commit"}, read : SUBSET Message,
               held : SUBSET Address, draft : Table, alone : BOOLEAN]

Empty == [a \in Address |-> NoProfile]

Idle == [pc |-> "idle", read |-> {}, held |-> {}, draft |-> Empty, alone |-> FALSE]

TypeOK ==
    /\ mail \subseteq Message
    /\ profiles \in Table
    /\ rebuild \in [Rebuild -> RebuildRec]
    /\ \A r \in Rebuild : \A a \in rebuild[r].held : rebuild[r].draft[a] # NoProfile
    /\ failures \in 0 .. MaxFailures
    /\ corrections \in 0 .. MaxOverrides
    /\ settled \subseteq Address
    /\ wrote \in [Address -> SUBSET Message]
    /\ made \in (SUBSET Message) \cup {Unknown}

Init ==
    /\ mail = {}
    /\ profiles = Empty
    /\ rebuild = [r \in Rebuild |-> Idle]
    /\ failures = 0 /\ corrections = 0
    /\ settled = Address
    /\ wrote = [a \in Address |-> {}]
    /\ made = Unknown

-----------------------------------------------------------------------------
(* The two statements.                                                     *)

Received(msgs, a) == {m \in msgs : From[m] = a}
Labelled(msgs, a, label) == Cardinality({m \in Received(msgs, a) : label \in LabelsOf[m]})
SentTo(msgs, a) == Cardinality({m \in msgs : "Sent" \in LabelsOf[m] /\ a \in To[m]})

Senders(msgs) == {From[m] : m \in msgs} \ {None}

\* The case expression: from the signal trusted most to the one trusted least.
LooksBulk(msgs, a) ==
    LET received == Cardinality(Received(msgs, a))
        bulk     == Labelled(msgs, a, "Bulk")
        personal == Labelled(msgs, a, "Personal")
    IN  \/ a \in Unreplyable
        \/ /\ SentTo(msgs, a) = 0
           /\ \/ a \in RoleShaped
              \/ bulk > personal
              \/ received >= HighVolume /\ personal = 0
              \/ received >= HighPersonal

Override(row) == IF row = NoProfile THEN None ELSE row.override

Profile(msgs, a, override) ==
    [kind     |-> IF override # None THEN override
                  ELSE IF LooksBulk(msgs, a) THEN "bulk" ELSE "human",
     received |-> Cardinality(Received(msgs, a)),
     sentTo   |-> SentTo(msgs, a),
     personal |-> Labelled(msgs, a, "Personal") > 0,
     override |-> override]

\* Mutated form of Upserted: the verdict is made once and kept.
UpsertedOnce(msgs, table) ==
    [a \in Address |->
        IF a \notin Senders(msgs) THEN table[a]
        ELSE IF table[a] = NoProfile THEN Profile(msgs, a, None)
        ELSE [Profile(msgs, a, Override(table[a])) EXCEPT !.kind = table[a].kind]]

\* insert ... on conflict (address) do update
Upserted(msgs, table) ==
    [a \in Address |-> IF a \in Senders(msgs)
                       THEN Profile(msgs, a, Override(table[a])) ELSE table[a]]

BulkDomain(table, d) ==
    LET rows  == {a \in Address : DomainOf[a] = d /\ table[a] # NoProfile}
        total == MapThenSumSet(LAMBDA a : table[a].received, rows)
        bulk  == MapThenSumSet(LAMBDA a : table[a].received,
                               {a \in rows : table[a].kind = "bulk"})
    IN  total >= DomainVolume /\ bulk * RatioDen >= total * RatioNum

\* Mutated form of Swept: those the owner has written to are swept as well.
SweptAll(table) ==
    {a \in Address : /\ table[a] # NoProfile
                     /\ table[a].kind = "human"
                     /\ table[a].override = None
                     /\ ~table[a].personal
                     /\ BulkDomain(table, DomainOf[a])}

\* Addresses that inherit the verdict of their domain.
Swept(table) ==
    {a \in Address : /\ table[a] # NoProfile
                     /\ table[a].kind = "human"
                     /\ table[a].override = None
                     /\ table[a].sentTo = 0
                     /\ ~table[a].personal
                     /\ BulkDomain(table, DomainOf[a])}

Inherited(table) ==
    [a \in Address |-> IF a \in Swept(table) THEN [table[a] EXCEPT !.kind = "bulk"]
                       ELSE table[a]]

-----------------------------------------------------------------------------
(* A rebuild.                                                              *)

\* What a rebuild sees in its transaction.
View(r) == [a \in Address |-> IF a \in rebuild[r].held THEN rebuild[r].draft[a]
                              ELSE profiles[a]]

\* No other rebuild holds one of these rows.
Free(r, rows) == \A s \in Rebuild \ {r} : rebuild[s].held \cap rows = {}

\* The first statement begins.
Begin(r) ==
    /\ rebuild[r].pc = "idle"
    /\ LET alone == \A s \in Rebuild : rebuild[s].pc = "idle"
       IN  rebuild' = [s \in Rebuild |->
               IF s = r THEN [Idle EXCEPT !.pc = "upsert", !.read = mail, !.alone = alone]
               ELSE [rebuild[s] EXCEPT !.alone = FALSE]]
    /\ UNCHANGED <<mail, profiles, failures, corrections, settled, wrote, made>>

\* It writes.
Upsert(r) ==
    LET msgs == rebuild[r].read
    IN  /\ rebuild[r].pc = "upsert"
        /\ Free(r, Senders(msgs))
        /\ rebuild' = [rebuild EXCEPT ![r].pc = "inherit", ![r].held = Senders(msgs),
                                      ![r].draft = Upserted(msgs, profiles)]
        /\ UNCHANGED <<mail, profiles, failures, corrections, settled, wrote, made>>

\* The second statement. (If it has to wait, it decides when it need no longer.)
Inherit(r) ==
    LET swept == Swept(View(r))
    IN  /\ rebuild[r].pc = "inherit"
        /\ Free(r, swept)
        /\ rebuild' = [rebuild EXCEPT ![r].pc = "commit", ![r].held = @ \cup swept,
                                      ![r].draft = Inherited(View(r))]
        /\ UNCHANGED <<mail, profiles, failures, corrections, settled, wrote, made>>

Commit(r) ==
    /\ rebuild[r].pc = "commit"
    /\ profiles' = View(r)
    /\ settled' = settled \cup Senders(rebuild[r].read)
    /\ wrote' = [a \in Address |-> IF a \in Senders(rebuild[r].read) THEN rebuild[r].read
                                   ELSE wrote[a]]
    /\ made' = IF rebuild[r].alone THEN rebuild[r].read ELSE Unknown
    /\ rebuild' = [rebuild EXCEPT ![r] = Idle]
    /\ UNCHANGED <<mail, failures, corrections>>

\* The command is killed, or the database gives up on it.
Fail(r) ==
    /\ rebuild[r].pc # "idle"
    /\ failures < MaxFailures
    /\ failures' = failures + 1
    /\ rebuild' = [rebuild EXCEPT ![r] = Idle]
    /\ UNCHANGED <<mail, profiles, corrections, settled, wrote, made>>

\* An ingest commits a message.
Arrive(m) ==
    /\ m \notin mail
    /\ mail' = mail \cup {m}
    /\ UNCHANGED <<profiles, rebuild, failures, corrections, settled, wrote, made>>

\* The owner sets or clears an override; the verdict follows with the next
\* rebuild.
Correct(a, override) ==
    /\ corrections < MaxOverrides
    /\ profiles[a] # NoProfile
    /\ profiles[a].override # override
    /\ \A r \in Rebuild : a \notin rebuild[r].held
    /\ profiles' = [profiles EXCEPT ![a].override = override]
    /\ corrections' = corrections + 1
    /\ settled' = settled \ {a}
    /\ made' = Unknown
    /\ UNCHANGED <<mail, rebuild, failures, wrote>>

Next ==
    \/ \E r \in Rebuild : Begin(r) \/ Upsert(r) \/ Inherit(r) \/ Commit(r) \/ Fail(r)
    \/ \E m \in Message : Arrive(m)
    \/ \E a \in Address, k \in Kind \cup {None} : Correct(a, k)

Spec == Init /\ [][Next]_vars

-----------------------------------------------------------------------------
\* The owner has the last word: a rebuild keeps an override to the letter, and
\* nobody is hidden whom the owner had written to in the mail that the rebuild
\* read which wrote the row last, unless a reply could not have reached a person;
\* also when another rebuild sweeps the domain of that row, and when one fails
\* (analytics.py:140-152). A rebuild that has read less mail may commit last.
OwnersWordStands ==
    \A a \in settled :
        profiles[a] # NoProfile =>
            IF profiles[a].override # None THEN profiles[a].kind = profiles[a].override
            ELSE SentTo(wrote[a], a) > 0 /\ a \notin Unreplyable => profiles[a].kind = "human"

\* The table as if it had never been built before, overrides apart.
FromScratch(msgs, table) ==
    Inherited([a \in Address |-> IF a \in Senders(msgs)
                                 THEN Profile(msgs, a, Override(table[a])) ELSE NoProfile])

\* What earlier rebuilds have concluded leaves no trace: after a rebuild that
\* overlapped no other the table is a function of the mail and the overrides.
\* A domain that was swept once can recover.
VerdictsFromMail == made # Unknown => profiles = FromScratch(made, profiles)
=============================================================================
