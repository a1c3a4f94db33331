--------------------------------- MODULE Export ---------------------------------
(***************************************************************************)
(* An mbox file is ingested, messages of the archive are exported to an    *)
(* mbox file, and that file is read again: export_mbox, and export_eml,    *)
(* next to the loss of blobs and the death of the exporter.  How an ingest *)
(* gets all messages of a file into the archive is the module Ingest; here *)
(* it is complete.                                                         *)
(***************************************************************************)
EXTENDS MboxFraming, FiniteSets

CONSTANTS
    Sources,    \* mbox files that may be ingested
    Leftovers,  \* what may be in the output file before
    Stump,      \* what a text cut short is like
    MaxLost     \* bound on the blobs lost

ASSUME ExportAssumption ==
    /\ Sources \subseteq Bytes
    /\ Leftovers \subseteq Bytes
    /\ Stump \in Text
    /\ MaxLost \in Nat

VARIABLES
    source,     \* the file that was ingested
    archive,    \* table messages: raw_sha256, which stands for the bytes
    blobs,      \* those of them whose blob is on disk
    pc,         \* where export_mbox ("writing") or export_eml ("filing") is
    chosen,     \* the rows the query returned
    todo,       \* those not yet written
    file,       \* the output file
    emls,       \* messages with a whole .eml file in the output directory
    count,      \* messages written
    written     \* history: the same as a set of bytes

vars == <<source, archive, blobs, pc, chosen, todo, file, emls, count, written>>

Distinct(seq) == \A i, j \in DOMAIN seq : seq[i] = seq[j] => i = j

\* What label, query and limit select is data, and so is the order by date
\* and digest.
Choices(S) ==
    {seq \in UNION {[1 .. n -> S] : n \in 0 .. Cardinality(S)} : Distinct(seq)}

TypeOK ==
    /\ source \in Bytes
    /\ archive \subseteq Bytes
    /\ blobs \subseteq archive
    /\ pc \in {"idle", "writing", "returned", "nothing", "dead",
            "filing", "filed", "torn"}
    /\ chosen \in Seq(archive)
    /\ todo \in Seq(archive)
    /\ file \in Bytes
    /\ emls \subseteq archive
    /\ count \in Nat
    /\ written \subseteq archive

-----------------------------------------------------------------------------
Init ==
    /\ source \in Sources
    /\ archive = Messages(source)
    /\ blobs = archive
    /\ pc = "idle"
    /\ chosen = <<>>
    /\ todo = <<>>
    /\ file \in Leftovers
    /\ emls \in {{}, archive}
    /\ count = 0
    /\ written = {}

\* Nothing matches: the output file is not touched.
SelectNothing ==
    /\ pc = "idle"
    /\ pc' = "nothing"
    /\ UNCHANGED <<source, archive, blobs, chosen, todo, file, emls, count, written>>

Select ==
    /\ pc = "idle"
    /\ \E seq \in Choices(archive) \ {<<>>} : chosen' = seq /\ todo' = seq
    /\ pc' = "writing"
    /\ file' = NoBytes
    /\ UNCHANGED <<source, archive, blobs, emls, count, written>>

WriteOne ==
    /\ pc = "writing"
    /\ todo # <<>>
    /\ Head(todo) \in blobs
    /\ file' = Extended(file, Head(todo))
    /\ count' = count + 1
    /\ written' = written \cup {Head(todo)}
    /\ todo' = Tail(todo)
    /\ UNCHANGED <<source, archive, blobs, pc, chosen, emls>>

\* The blob is missing: a warning, and on to the next.
SkipOne ==
    /\ pc \in {"writing", "filing"}
    /\ todo # <<>>
    /\ Head(todo) \notin blobs
    /\ todo' = Tail(todo)
    /\ UNCHANGED <<source, archive, blobs, pc, chosen, file, emls, count, written>>

Return ==
    /\ pc = "writing"
    /\ todo = <<>>
    /\ pc' = "returned"
    /\ UNCHANGED <<source, archive, blobs, chosen, todo, file, emls, count, written>>

\* The beginnings of a line, and of a file.
Stumps(line) ==
    IF line = Blank THEN {Blank}
    ELSE {line, Blank, [line EXCEPT !.text = Stump], OtherLine(Stump)}

Beginnings(bytes) ==
    UNION {{Append(SubSeq(bytes, 1, k - 1), line) : line \in Stumps(bytes[k])}
              : k \in DOMAIN bytes}

\* The exporter is killed, or the disk is full: some beginning of what it
\* wrote is in the file.
Die ==
    /\ pc = "writing"
    /\ pc' = "dead"
    /\ file' \in Beginnings(file)
    /\ UNCHANGED <<source, archive, blobs, chosen, todo, emls, count, written>>

\* export_eml: the directory is made, whatever the query returns.
SelectEml ==
    /\ pc = "idle"
    /\ \E seq \in Choices(archive) : chosen' = seq /\ todo' = seq
    /\ pc' = "filing"
    /\ UNCHANGED <<source, archive, blobs, file, emls, count, written>>

\* One file per message, named by its digest.
WriteEml ==
    /\ pc = "filing"
    /\ todo # <<>>
    /\ Head(todo) \in blobs
    /\ emls' = emls \cup {Head(todo)}
    /\ count' = count + 1
    /\ written' = written \cup {Head(todo)}
    /\ todo' = Tail(todo)
    /\ UNCHANGED <<source, archive, blobs, pc, chosen, file>>

ReturnEml ==
    /\ pc = "filing"
    /\ todo = <<>>
    /\ pc' = "filed"
    /\ UNCHANGED <<source, archive, blobs, chosen, todo, file, emls, count, written>>

\* export_eml dies, perhaps in a file, of which an earlier export may have left
\* a whole one.
DieEml ==
    /\ pc = "filing"
    /\ pc' = "torn"
    /\ \/ emls' = emls
       \/ todo # <<>> /\ Head(todo) \in blobs /\ emls' = emls \ {Head(todo)}
    /\ UNCHANGED <<source, archive, blobs, chosen, todo, file, count, written>>

LoseBlob ==
    /\ Cardinality(archive \ blobs) < MaxLost
    /\ \E bytes \in blobs : blobs' = blobs \ {bytes}
    /\ UNCHANGED <<source, archive, pc, chosen, todo, file, emls, count, written>>

Next ==
    \/ SelectNothing \/ Select \/ WriteOne \/ SkipOne \/ Return \/ Die
    \/ SelectEml \/ WriteEml \/ ReturnEml \/ DieEml
    \/ LoseBlob

Spec == Init /\ [][Next]_vars

-----------------------------------------------------------------------------
(* What the export promises.                                               *)

\* Ingesting an export yields exactly the messages that were written to it,
\* byte for byte and hence with the same digests, whatever lines they are
\* made of and in whatever order they come (docs/runbook.md:226).
RoundTrip == pc = "returned" => Messages(file) = written

\* The number export_mbox returns is the number of messages a reader of the
\* file finds: no body is taken for two messages and none runs into the next.
\* The number export_eml returns is that of the files it has made, each whole:
\* none is written over another, whatever blobs are lost meanwhile.
CountIsMessages ==
    /\ pc = "returned" => Cardinality(Starts(file)) = count
    /\ pc = "filed" => Cardinality(written) = count /\ written \subseteq emls

\* A file as an mboxrd writer makes it: for each message an envelope, the
\* message and a newline.
WellFramed(bytes) ==
    /\ Separator(bytes[1])
    /\ bytes[Len(bytes)] = Blank
    /\ \A start \in Starts(bytes) : Len(ReadMessage(bytes, start)) > 2

\* Everything is exported, and the order of dates is that of the file.
WholeInOrder ==
    /\ count = Cardinality(Starts(source))
    /\ \A start \in Starts(source) :
         chosen[Cardinality({s \in Starts(source) : s <= start})]
            = Message(source, start)

\* A file written by an mboxrd writer comes back byte for byte, but for its
\* envelope lines, when its messages are exported in its order (parser.py:164:
\* re-quoting is the inverse of unquoting on everything a file can hold).
ByteIdentical ==
    pc = "returned" /\ WellFramed(source) /\ WholeInOrder =>
        file = [i \in DOMAIN source |->
                    IF i \in Starts(source) THEN Envelope ELSE source[i]]

\* An export cut short damages at most the last message in the file: every
\* message before it is one of the archive.
CutDamagesLast ==
    pc = "dead" =>
        \A start, later \in Starts(file) :
            start < later => Message(file, start) \in archive
=============================================================================
