----------------------------- MODULE LoginThrottle -----------------------------
(***************************************************************************)
(* Who may try a password, and when: LoginThrottle of web/auth.py.         *)
(*                                                                         *)
(* Time is told by ages. An age beyond the lockout is like any other, and  *)
(* a count beyond the threshold too, so both stop growing there.           *)
(***************************************************************************)
EXTENDS Naturals, Sequences

CONSTANTS
    Client,     \* addresses that log in
    Threshold,  \* failures before a lockout
    Lockout     \* its length

ASSUME ThrottleAssumption == Threshold \in Nat \ {0} /\ Lockout \in Nat \ {0}

Old == Lockout + 1

Age == 0 .. Old

Aged(age) == IF age = Old THEN Old ELSE age + 1

VARIABLES
    failures,   \* _failures: count and age of the last failure; no entry is 0
    guesses     \* history: ages of the last wrong guesses, the newest first,
                \* since the last success or restart

throttleVars == <<failures, guesses>>

NoEntry == [count |-> 0, age |-> 0]

ThrottleTypeOK ==
    /\ failures \in [Client -> [count : 0 .. Threshold, age : Age]]
    /\ \A c \in Client : failures[c].count = 0 => failures[c] = NoEntry
    /\ guesses \in [Client -> Seq(Age)]
    /\ \A c \in Client : Len(guesses[c]) <= Threshold

ThrottleInit ==
    /\ failures = [c \in Client |-> NoEntry]
    /\ guesses = [c \in Client |-> <<>>]

-----------------------------------------------------------------------------
\* locked_for(client) > 0
Locked(c) == failures[c].count >= Threshold /\ failures[c].age < Lockout

\* Mutated form of Pruned: an entry is stale a moment too early.
PrunedEarly ==
    [c \in Client |-> IF failures[c].age >= Lockout - 1 THEN NoEntry ELSE failures[c]]

\* What _prune leaves: entries whose last failure is not before the cutoff.
Pruned == [c \in Client |-> IF failures[c].age > Lockout THEN NoEntry ELSE failures[c]]

Capped(n) == IF n > Threshold THEN Threshold ELSE n

\* record_failure
RecordFailure(c) ==
    /\ failures' = [Pruned EXCEPT ![c] = [count |-> Capped(Pruned[c].count + 1), age |-> 0]]
    /\ guesses' = [guesses EXCEPT ![c] =
                      SubSeq(<<0>> \o @, 1, Capped(Len(@) + 1))]

\* A password is submitted during a lockout: it is not looked at.
Refuse(c) ==
    /\ Locked(c)
    /\ UNCHANGED throttleVars

Wrong(c) ==
    /\ ~Locked(c)
    /\ RecordFailure(c)

\* record_success
Right(c) ==
    /\ ~Locked(c)
    /\ failures' = [failures EXCEPT ![c] = NoEntry]
    /\ guesses' = [guesses EXCEPT ![c] = <<>>]

\* The table is in memory.
Restart ==
    /\ failures' = [c \in Client |-> NoEntry]
    /\ guesses' = [c \in Client |-> <<>>]

Pass ==
    /\ failures' = [c \in Client |->
           IF failures[c].count = 0 THEN NoEntry
           ELSE [failures[c] EXCEPT !.age = Aged(@)]]
    /\ guesses' = [c \in Client |-> [i \in DOMAIN guesses[c] |-> Aged(guesses[c][i])]]
    /\ throttleVars' # throttleVars
=============================================================================
