------------------------------ MODULE MCReading ------------------------------
(***************************************************************************)
(* Two kinds of mailbox for TLC: one message of up to two parts of any     *)
(* sort or three attachments, some without a payload, and two that the     *)
(* database refuses; or three plain messages that a search finds, whose    *)
(* dates tie, lie in the future until a day passes, or are missing.        *)
(***************************************************************************)
EXTENDS Reading, TLC

CONSTANTS m1, m2, m3, empty, c1, c2

P(kind, disposed, name, decodes, strict, content) ==
  [kind |-> kind, disposed |-> disposed, name |-> name, decodes |-> decodes,
   strict |-> strict, content |-> content]

SomeParts ==
  {P("multipart", FALSE, "plain", FALSE, FALSE, empty),
   P("text/plain", FALSE, "absent", TRUE, TRUE, c1),
   P("text/html", FALSE, "absent", TRUE, FALSE, c1),
   P("text/html", FALSE, "absent", TRUE, FALSE, c2),
   P("text/html", FALSE, "absent", FALSE, TRUE, c1),
   P("text/html", TRUE, "absent", TRUE, TRUE, c1),
   P("other", FALSE, "plain", TRUE, FALSE, c2),
   P("other", FALSE, "wide", TRUE, FALSE, c1),
   P("other", TRUE, "malformed", TRUE, FALSE, c1),
   P("other", TRUE, "malformed", FALSE, FALSE, c1)}

Mail(decoded, verbatim, date, hops, parts) ==
  [decoded |-> decoded, verbatim |-> verbatim, date |-> date, hops |-> hops, parts |-> parts]

Dated(day) == Mail("nul", "plain", day, <<>>, <<>>)
Broken     == Mail("malformed", "plain", 0, <<>>, <<>>)
Worn       == Mail("plain", "plain", 0, <<>>,
                   <<P("other", TRUE, "malformed", TRUE, FALSE, c1),
                     P("text/html", FALSE, "absent", TRUE, TRUE, c1)>>)

Attachable ==
  {P("other", FALSE, "plain", TRUE, FALSE, c2), P("other", TRUE, "malformed", FALSE, FALSE, c1)}

Shapes == UNION {[1..n -> SomeParts] : n \in 0..2} \cup [1..3 -> Attachable]

OneMessage(raw) == [m \in Message |-> IF m = m1 THEN raw ELSE Broken]
Hit3(a, b, c)   == (m1 :> Dated(a)) @@ (m2 :> b) @@ (m3 :> Dated(c))

Boxes ==
  {OneMessage(Mail("plain", "plain", 0, <<>>, parts)) : parts \in Shapes}
    \cup {OneMessage(Mail("plain", "nul", 0, <<>>, parts)) : parts \in [1..1 -> Attachable]}
    \cup {Hit3(0, Dated(0), Undated),
          Hit3(2, Mail("plain", "plain", 2, <<Undated, 2, 1, 0>>, <<>>), Undated)}

Hits3    == {m1, m2, m3}
Scores   == [m \in Message |-> IF m = m3 THEN 1 ELSE 0]
Digests  == (m1 :> 2) @@ (m2 :> 1) @@ (m3 :> 3)
Garbage  == {Worn}
Sizes    == {0, 9}
Numbers  == -1..2
=============================================================================
