------------------------------ MODULE MboxFraming ------------------------------
(***************************************************************************)
(* How messages lie in an mbox file: where one begins, what of it is      *)
(* framing, and how lines that look like an envelope are quoted (mboxrd). *)
(*                                                                         *)
(* Bytes are cut at newlines: "a\nb" is the lines a, b, and "a\nb\n" the    *)
(* lines a, b, Blank.  Bytes are never without lines; no bytes at all are *)
(* <<Blank>>.  Of a line only its quoting counts: carets, then "From ", or *)
(* anything else; text is the rest.  A CRLF line is one whose text ends in *)
(* CR.                                                                     *)
(***************************************************************************)
EXTENDS Naturals, Sequences

CONSTANTS
    Text,       \* what lines hold besides carets and "From "
    NoText      \* nothing

ASSUME NoTextAssumption == NoText \in Text

Line == [from : {TRUE}, carets : Nat, text : Text]
            \cup [from : {FALSE}, carets : {0}, text : Text]

FromLine(carets, text) == [from |-> TRUE, carets |-> carets, text |-> text]

OtherLine(text) == [from |-> FALSE, carets |-> 0, text |-> text]

Blank == OtherLine(NoText)

\* The envelope line the exporter writes.
Envelope == FromLine(0, NoText)

Bytes == Seq(Line) \ {<<>>}

NoBytes == <<Blank>>

-----------------------------------------------------------------------------
(* Quoting of one message.                                                 *)

Quoted(line) == line.from /\ line.carets > 0

\* Mutated form of Unquote: every caret goes.
UnquoteAll(bytes) ==
    [i \in DOMAIN bytes |->
        IF Quoted(bytes[i]) THEN FromLine(0, bytes[i].text) ELSE bytes[i]]

Unquote(bytes) ==
    [i \in DOMAIN bytes |->
        IF Quoted(bytes[i]) THEN FromLine(bytes[i].carets - 1, bytes[i].text)
                            ELSE bytes[i]]

\* Mutated form of Requote: only a line that is not quoted yet (mboxo).
RequoteBare(bytes) ==
    [i \in DOMAIN bytes |->
        IF bytes[i].from /\ bytes[i].carets = 0
        THEN FromLine(1, bytes[i].text) ELSE bytes[i]]

\* Mutated form of Requote: no quoting.
RequoteNothing(bytes) == bytes

Requote(bytes) ==
    [i \in DOMAIN bytes |->
        IF bytes[i].from THEN FromLine(bytes[i].carets + 1, bytes[i].text)
                         ELSE bytes[i]]

-----------------------------------------------------------------------------
(* A file and the messages in it.  A message is named by the line it       *)
(* starts at.                                                              *)

\* The bytes "\nFrom " end at such a line, unless it is the first.
Separator(line) == line.from /\ line.carets = 0

Starts(file) ==
    IF file = NoBytes THEN {}
    ELSE {1} \cup {i \in 2 .. Len(file) : Separator(file[i])}

\* The last line of the message at start.
LastLine(file, start) ==
    CHOOSE e \in start .. Len(file) :
        /\ \A i \in start + 1 .. e : ~Separator(file[i])
        /\ e = Len(file) \/ Separator(file[e + 1])

\* Up to the next separator, whose line begins after a newline.
ReadMessage(file, start) ==
    LET e == LastLine(file, start)
    IN  IF e = Len(file) THEN SubSeq(file, start, e)
                         ELSE SubSeq(file, start, e) \o NoBytes

\* Mutated form of StripEnvelope: the separator's newline stays, as it did
\* before issue 53.
StripFirstLine(raw) == IF Len(raw) = 1 THEN NoBytes ELSE Tail(raw)

\* Mutated form of StripEnvelope: a range of one line is not told apart.
StripAnyway(raw) ==
    IF Len(raw) > 2 /\ raw[Len(raw)] = Blank
    THEN SubSeq(raw, 2, Len(raw) - 1) ELSE Tail(raw)

StripEnvelope(raw) ==
    IF Len(raw) = 1 THEN NoBytes
    ELSE IF Len(raw) > 2 /\ raw[Len(raw)] = Blank
         THEN SubSeq(raw, 2, Len(raw) - 1)
         ELSE Tail(raw)

Message(file, start) == Unquote(StripEnvelope(ReadMessage(file, start)))

Messages(file) == {Message(file, start) : start \in Starts(file)}

\* What the exporter writes for a message, and what the file is then.  The
\* bytes before it are empty or end with a newline.
Record(bytes) == <<Envelope>> \o Requote(bytes) \o NoBytes

Extended(file, bytes) == SubSeq(file, 1, Len(file) - 1) \o Record(bytes)
=============================================================================
