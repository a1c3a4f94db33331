---------------------------- MODULE MessageParse ----------------------------
(***************************************************************************)
(* What parser.py makes of a raw message. Ingest parses it once and stores *)
(* the outcome; the web pages parse the blob again, with loops of their    *)
(* own that have to agree with the first one for ever.                     *)
(*                                                                         *)
(* A header field is absent, plain, holds a NUL, holds a base64 word that  *)
(* is malformed, or decodes to characters outside Latin-1 ("wide"). Dates  *)
(* are days; a part's content is one value.                                *)
(***************************************************************************)
EXTENDS Integers, Sequences, FiniteSets

CONSTANTS
  Content,  \* bytes or text of a part
  Blank,    \* the empty one
  Undated,  \* no date
  Horizon   \* how far a plausible date may lie in the future: 90 days

ASSUME ParseAssumption ==
  /\ Blank \in Content
  /\ Undated \notin Int
  /\ Horizon \in Nat

Field == {"absent", "plain", "nul", "malformed", "wide"}

Part == [kind : {"multipart", "text/plain", "text/html", "other"},
         disposed : BOOLEAN,  \* Content-Disposition: attachment
         name : Field,        \* filename
         decodes : BOOLEAN,   \* get_payload(decode=True) returns bytes
         strict : BOOLEAN,    \* its charset's codec raises in spite of errors="replace"
         content : Content]

Raw == [decoded : Field,   \* Subject, X-Gmail-Labels: read through _decode_header
        verbatim : Field,  \* Message-ID, addresses, ...: stored as they are
        date : Int \cup {Undated},       \* Undated if missing or unparseable
        hops : Seq(Int \cup {Undated}),  \* Received, the latest first
        parts : Seq(Part)]               \* msg.walk()

\* make_header raises HeaderParseError, which _decode_header does not expect.
DecodeRaises(field) == field = "malformed"

\* A part's text: none without a payload.
TextRaises(part) == part.decodes /\ part.strict
TextIsBlank(part) == ~part.decodes \/ part.content = Blank

IsAttachment(part) == part.kind # "multipart" /\ (part.disposed \/ part.name # "absent")

\* Some of the parts, numbered from 0 in their order.
Number(K, k) == Cardinality({j \in K : j < k})

Texts(raw, K) == {[index |-> Number(K, k), content |-> raw.parts[k].content] : k \in K}

(***************************************************************************)
(* parse                                                                   *)
(***************************************************************************)

\* The parts its walk appends to attachments, and those whose text it takes.
Attached(raw) == {k \in DOMAIN raw.parts : IsAttachment(raw.parts[k]) /\ raw.parts[k].decodes}
Bodies(raw, kind) == {k \in DOMAIN raw.parts : raw.parts[k].kind = kind /\ ~IsAttachment(raw.parts[k])}

\* The docstring says that it does not raise.
ParseRaises(raw) ==
  \/ DecodeRaises(raw.decoded)
  \/ \E k \in Attached(raw) : DecodeRaises(raw.parts[k].name)
  \/ \E k \in Bodies(raw, "text/plain") \cup Bodies(raw, "text/html") : TextRaises(raw.parts[k])

\* The rows of table attachments, and body_html.
Attachments(raw) ==
  {[index |-> Number(Attached(raw), k), name |-> raw.parts[k].name,
    content |-> raw.parts[k].content] : k \in Attached(raw)}
BodyHtml(raw) == Texts(raw, {k \in Bodies(raw, "text/html") : ~TextIsBlank(raw.parts[k])})

\* A NUL is stripped from what is decoded, not from what is stored as it is.
Storable(raw) == raw.verbatim # "nul"

\* Date, unless it is missing or implausible and a hop is better.
Plausible(day, now) == day \in Int /\ 0 <= day /\ day <= now + Horizon

Arrived(raw, now) == {i \in DOMAIN raw.hops : Plausible(raw.hops[i], now)}

InternalDate(raw, now) ==
  IF Plausible(raw.date, now) \/ Arrived(raw, now) = {}
  THEN raw.date
  ELSE raw.hops[CHOOSE i \in Arrived(raw, now) : \A j \in Arrived(raw, now) : i <= j]

(***************************************************************************)
(* extract_html_body and iter_attachment_payloads                          *)
(***************************************************************************)

\* (Mutant: what is said to be attached is shown as well.)
HtmlPartsAndAttached(raw) == {k \in DOMAIN raw.parts : raw.parts[k].kind = "text/html"}

HtmlParts(raw) ==
  {k \in DOMAIN raw.parts :
     /\ raw.parts[k].kind # "multipart" /\ ~IsAttachment(raw.parts[k])
     /\ raw.parts[k].kind = "text/html"}

HtmlRaises(raw) == \E k \in HtmlParts(raw) : TextRaises(raw.parts[k])
ExtractHtml(raw) == Texts(raw, {k \in HtmlParts(raw) : ~TextIsBlank(raw.parts[k])})

\* (Mutant: a part that does not decode is counted nevertheless.)
PayloadsAndGaps(raw) == {k \in DOMAIN raw.parts : IsAttachment(raw.parts[k])}

\* The parts it yields, and whether it raises on the way to one of them: a name
\* is read once the payload has decoded.
Payloads(raw) == {k \in DOMAIN raw.parts : IsAttachment(raw.parts[k]) /\ raw.parts[k].decodes}

\* (Mutant: the name is read first.)
NameReadFirst(raw, k) ==
  \E j \in DOMAIN raw.parts :
    j <= k /\ IsAttachment(raw.parts[j]) /\ DecodeRaises(raw.parts[j].name)

RaisesBy(raw, k) == \E j \in Payloads(raw) : j <= k /\ DecodeRaises(raw.parts[j].name)

\* The part that has number i, and whether a name raises before it is
\* found, or found missing.
At(raw, i) == {k \in Payloads(raw) : Number(Payloads(raw), k) = i}

Stumbles(raw, i) ==
  \E k \in (IF At(raw, i) = {} THEN Payloads(raw) ELSE At(raw, i)) : RaisesBy(raw, k)
=============================================================================
