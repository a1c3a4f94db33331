------------------------------- MODULE WebSession -------------------------------
(***************************************************************************)
(* A reader walks through a mailbox and has to be logged in for it: the    *)
(* middleware of web/app.py, the login page and its throttle, around the   *)
(* walk. Sessions expire, the server restarts, others guess passwords.     *)
(***************************************************************************)
EXTENDS MailboxWalk, LoginThrottle

CONSTANTS
    Reader,     \* the reader's address
    NoRequest   \* the reader is not at the login page

ASSUME SessionAssumption == Reader \in Client

VARIABLES
    signedIn,   \* the reader's browser has a cookie that verifies
    target      \* next: the request that was turned away

sessionVars == <<signedIn, target>>

allVars == <<vars, throttleVars, sessionVars>>

Request == [box : Mailbox, day : Nat \cup {EveryDay}, cursor : Cursor]

AllTypeOK ==
    /\ TypeOK
    /\ ThrottleTypeOK
    /\ signedIn \in BOOLEAN
    /\ target \in Request \cup {NoRequest}

AllInit ==
    /\ Init
    /\ ThrottleInit
    /\ signedIn = FALSE
    /\ target = NoRequest

\* What the reader may ask for: a mailbox, or during a walk its next page.
Requests ==
    IF walk.next = End
    THEN [box : Mailbox, day : Days, cursor : {First}]
    ELSE {[box |-> walk.box, day |-> walk.day, cursor |-> walk.next]}

\* Mutated form of Target: the path alone, which is the first page.
TargetPath(request) == [request EXCEPT !.cursor = First]

\* Path and query of a request, for after the login.
Target(request) == request

\* The page a request is for.
Answer(request) ==
    IF request.cursor = First THEN FirstPage(request.box, request.day) ELSE Older

\* The middleware lets a request through,
Serve ==
    /\ signedIn
    /\ target = NoRequest
    /\ \E request \in Requests : Answer(request)
    /\ UNCHANGED <<throttleVars, sessionVars>>

\* or sends the browser to the login page.
TurnAway ==
    /\ ~signedIn
    /\ target = NoRequest
    /\ \E request \in Requests : target' = Target(request)
    /\ UNCHANGED <<vars, throttleVars, signedIn>>

\* login_submit: the lockout comes first, then the password.
SubmitRefused ==
    /\ target # NoRequest
    /\ Refuse(Reader)
    /\ UNCHANGED <<vars, sessionVars>>

SubmitWrong ==
    /\ target # NoRequest
    /\ ~signedIn
    /\ Wrong(Reader)
    /\ UNCHANGED <<vars, sessionVars>>

\* A cookie, and a redirect to where the reader wanted to go.
SubmitRight ==
    /\ target # NoRequest
    /\ ~signedIn
    /\ Right(Reader)
    /\ signedIn' = TRUE
    /\ UNCHANGED <<vars, target>>

\* The redirect is followed, unless the session has ended again.
Follow ==
    /\ target # NoRequest
    /\ signedIn
    /\ Answer(target)
    /\ target' = NoRequest
    /\ UNCHANGED <<throttleVars, signedIn>>

\* The cookie expires, or the reader logs out, or the password is changed.
SignedOut ==
    /\ signedIn
    /\ signedIn' = FALSE
    /\ UNCHANGED <<vars, throttleVars, target>>

\* The server restarts; cookies stay good.
RestartServer ==
    /\ Restart
    /\ UNCHANGED <<vars, sessionVars>>

TimePasses ==
    /\ Pass
    /\ UNCHANGED <<vars, sessionVars>>

\* An ingest, or the day when a date is no longer far.
Meanwhile ==
    /\ (\E m \in Message : Arrive(m)) \/ Tick
    /\ UNCHANGED <<throttleVars, sessionVars>>

AllNext ==
    \/ Serve \/ TurnAway \/ Follow
    \/ SubmitRefused \/ SubmitWrong \/ SubmitRight
    \/ SignedOut \/ RestartServer \/ TimePasses \/ Meanwhile

AllSpec == AllInit /\ [][AllNext]_allVars

\* The reader goes on: follows the link, and in the end types the password
\* right and uses the session while it lasts.
FairSession ==
    /\ AllSpec
    /\ WF_allVars(TurnAway) /\ WF_allVars(TimePasses)
    /\ SF_allVars(walk.next # End /\ Serve)
    /\ SF_allVars(SubmitRight) /\ SF_allVars(Follow)

-----------------------------------------------------------------------------
\* A walk that has begun goes on where it was, past any number of logins: the
\* reader is not led back to the beginning (web/app.py:248).
WalkSurvivesLogin ==
    [][walk.next # End => seen \subseteq seen' /\ initial' = initial]_allVars

\* However guesses are spread over time, Threshold + 1 wrong ones from one client
\* span the lockout at least (auth.py:155).
FewGuesses ==
    [][\A c \in Client : Wrong(c) /\ Len(guesses[c]) = Threshold =>
          guesses[c][Threshold] >= Lockout]_allVars
=============================================================================
