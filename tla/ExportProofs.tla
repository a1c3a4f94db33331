---------------------------- MODULE ExportProofs ----------------------------
(***************************************************************************)
(* The framing of mbox files, and what an export holds, for files of any   *)
(* length and messages of any lines.                                       *)
(***************************************************************************)
EXTENDS Export, SequenceTheorems, FiniteSetTheorems, WellFoundedInduction, TLAPS

(***************************************************************************)
(* The framing of mbox files: quoting is undone, and a record appended to  *)
(* a file adds its message to what a reader finds and changes no other.    *)
(***************************************************************************)

(* A line's quoting comes off as it went on. *)

(* A line with "From " after its carets is made of these.                    *)
LEMMA LineQuoting ==
    ASSUME NEW l \in Line
    PROVE  /\ l.from \in BOOLEAN /\ l.carets \in Nat /\ l.text \in Text
           /\ l.from => l = FromLine(l.carets, l.text)
           /\ \A n \in Nat : FromLine(n, l.text) \in Line
<1>1. CASE l \in [from : {TRUE}, carets : Nat, text : Text]
  <2>1. l = [from |-> TRUE, carets |-> l.carets, text |-> l.text]
    BY <1>1
  <2>2. l.carets \in Nat /\ l.text \in Text /\ l.from \in BOOLEAN
    BY <1>1
  <2> QED BY <2>1, <2>2 DEF Line, FromLine
<1>2. CASE l \in [from : {FALSE}, carets : {0}, text : Text]
  <2>1. l.carets = 0 /\ l.text \in Text /\ l.from \in BOOLEAN /\ ~l.from
    BY <1>2
  <2>2. \A n \in Nat : FromLine(n, l.text) \in Line
    BY <2>1 DEF Line, FromLine
  <2> QED BY <2>1, <2>2
<1> QED BY <1>1, <1>2 DEF Line

(* The blank line, the envelope line, and the file without bytes.            *)
LEMMA SpecialLines ==
    /\ Blank \in Line /\ ~Separator(Blank) /\ ~Blank.from
    /\ Envelope \in Line /\ Separator(Envelope)
    /\ NoBytes \in Bytes /\ Len(NoBytes) = 1 /\ NoBytes[1] = Blank
BY NoTextAssumption DEF Blank, Envelope, FromLine, OtherLine, Line, Separator, Bytes, NoBytes

(* Bytes are at least one line.                                              *)
LEMMA BytesLength ==
    ASSUME NEW b \in Bytes
    PROVE  /\ b \in Seq(Line)
           /\ Len(b) \in Nat \ {0}
           /\ DOMAIN b = 1 .. Len(b)
           /\ \A i \in 1 .. Len(b) : b[i] \in Line
BY EmptySeq, LenProperties DEF Bytes

(* Requoting works line by line and leaves no separator.                     *)
LEMMA RequoteType ==
    ASSUME NEW b \in Bytes
    PROVE  /\ Requote(b) \in Bytes
           /\ Len(Requote(b)) = Len(b)
           /\ \A i \in 1 .. Len(b) :
                /\ Requote(b)[i] = IF b[i].from THEN FromLine(b[i].carets + 1, b[i].text)
                                                ELSE b[i]
                /\ ~Separator(Requote(b)[i])
<1>1. ASSUME NEW i \in 1 .. Len(b) PROVE Requote(b)[i] \in Line
  <2>1. b[i] \in Line /\ b[i].carets \in Nat
    BY BytesLength, LineQuoting
  <2>2. CASE b[i].from
    <3>1. b[i].carets + 1 \in Nat
      BY <2>1, <2>2 DEF Quoted
    <3> QED BY <2>1, <2>2, <3>1, BytesLength, LineQuoting DEF Requote
  <2>3. CASE ~b[i].from
    BY <2>1, <2>3, BytesLength DEF Requote
  <2> QED BY <2>2, <2>3
<1>2. Requote(b) \in [1 .. Len(b) -> Line]
  BY <1>1, BytesLength DEF Requote
<1>3. Requote(b) \in Seq(Line) /\ Len(Requote(b)) = Len(b)
  BY <1>2, BytesLength
<1>4. Requote(b) \in Bytes
  BY <1>3, BytesLength, EmptySeq DEF Bytes
<1>5. ASSUME NEW i \in 1 .. Len(b)
      PROVE  /\ Requote(b)[i] = IF b[i].from THEN FromLine(b[i].carets + 1, b[i].text)
                                             ELSE b[i]
             /\ ~Separator(Requote(b)[i])
  BY BytesLength, LineQuoting DEF Requote, Separator, FromLine
<1> QED BY <1>3, <1>4, <1>5

(* Unquoting works line by line.                                             *)
LEMMA UnquoteType ==
    ASSUME NEW b \in Bytes
    PROVE  /\ Unquote(b) \in Bytes
           /\ Len(Unquote(b)) = Len(b)
           /\ \A i \in 1 .. Len(b) :
                Unquote(b)[i] = IF Quoted(b[i]) THEN FromLine(b[i].carets - 1, b[i].text)
                                                ELSE b[i]
<1>1. ASSUME NEW i \in 1 .. Len(b) PROVE Unquote(b)[i] \in Line
  <2>1. b[i] \in Line /\ b[i].carets \in Nat
    BY BytesLength, LineQuoting
  <2>2. CASE Quoted(b[i])
    <3>1. b[i].carets - 1 \in Nat
      BY <2>1, <2>2 DEF Quoted
    <3> QED BY <2>1, <2>2, <3>1, BytesLength, LineQuoting DEF Unquote
  <2>3. CASE ~Quoted(b[i])
    BY <2>1, <2>3, BytesLength DEF Unquote
  <2> QED BY <2>2, <2>3
<1>2. Unquote(b) \in [1 .. Len(b) -> Line]
  BY <1>1, BytesLength DEF Unquote
<1>3. Unquote(b) \in Seq(Line) /\ Len(Unquote(b)) = Len(b)
  BY <1>2, BytesLength
<1>4. Unquote(b) \in Bytes
  BY <1>3, BytesLength, EmptySeq DEF Bytes
<1> QED BY <1>3, <1>4, BytesLength DEF Unquote

(* unquote_mbox is the inverse of requote_mbox on all bytes: a message of   *)
(* any lines is read from an export as it was stored.                       *)
THEOREM UnquoteOfRequote ==
    ASSUME NEW b \in Bytes
    PROVE  Unquote(Requote(b)) = b
<1>1. /\ Unquote(Requote(b)) \in Seq(Line)
      /\ Len(Unquote(Requote(b))) = Len(b)
  BY RequoteType, UnquoteType, BytesLength
<1>2. ASSUME NEW i \in 1 .. Len(b)
      PROVE  Unquote(Requote(b))[i] = b[i]
  <2>1. Unquote(Requote(b))[i] =
            IF Quoted(Requote(b)[i]) THEN FromLine(Requote(b)[i].carets - 1, Requote(b)[i].text)
                                     ELSE Requote(b)[i]
    BY RequoteType, UnquoteType
  <2>2. b[i] \in Line
    BY BytesLength
  <2>3. CASE b[i].from
    <3>1. Requote(b)[i] = FromLine(b[i].carets + 1, b[i].text)
      BY <2>3, RequoteType
    <3>2. Quoted(FromLine(b[i].carets + 1, b[i].text))
      BY <2>2, <2>3, LineQuoting DEF Quoted, FromLine
    <3> QED BY <2>1, <2>2, <2>3, <3>1, <3>2, LineQuoting DEF FromLine
  <2>4. CASE ~b[i].from
    BY <2>1, <2>4, RequoteType DEF Quoted
  <2> QED BY <2>3, <2>4
<1> QED BY <1>1, <1>2, BytesLength, SeqEqual

(* The other way round where no line is a separator, as in every message a  *)
(* file holds: what the exporter writes is what was in the file.            *)
THEOREM RequoteOfUnquote ==
    ASSUME NEW b \in Bytes, \A i \in 1 .. Len(b) : ~Separator(b[i])
    PROVE  Requote(Unquote(b)) = b
<1>1. /\ Requote(Unquote(b)) \in Seq(Line)
      /\ Len(Requote(Unquote(b))) = Len(b)
  BY RequoteType, UnquoteType, BytesLength
<1>2. ASSUME NEW i \in 1 .. Len(b)
      PROVE  Requote(Unquote(b))[i] = b[i]
  <2>1. Requote(Unquote(b))[i] =
            IF Unquote(b)[i].from THEN FromLine(Unquote(b)[i].carets + 1, Unquote(b)[i].text)
                                  ELSE Unquote(b)[i]
    BY RequoteType, UnquoteType
  <2>2. b[i] \in Line
    BY BytesLength
  <2>3. CASE Quoted(b[i])
    <3>1. Unquote(b)[i] = FromLine(b[i].carets - 1, b[i].text)
      BY <2>3, UnquoteType
    <3>2. FromLine(b[i].carets - 1, b[i].text).from
      BY DEF FromLine
    <3> QED BY <2>1, <2>2, <2>3, <3>1, <3>2, LineQuoting DEF FromLine, Quoted
  <2>4. CASE ~Quoted(b[i])
    <3>1. Unquote(b)[i] = b[i]
      BY <2>4, UnquoteType
    <3>2. ~b[i].from
      <4>1. ~Separator(b[i]) /\ b[i].carets \in Nat
        BY <2>2, LineQuoting
      <4> QED BY <2>4, <4>1 DEF Quoted, Separator
    <3> QED BY <2>1, <3>1, <3>2
  <2> QED BY <2>3, <2>4
<1> QED BY <1>1, <1>2, BytesLength, SeqEqual

-----------------------------------------------------------------------------
(* Where a message ends.                                                    *)

(* A set of numbers has a least one.                                         *)
LEMMA Least ==
    ASSUME NEW S \in SUBSET Nat, S # {}
    PROVE  \E x \in S : \A y \in S : x <= y
<1>1. PICK x \in S : \A y \in S : <<y, x>> \notin OpToRel(<, Nat)
  BY WFMin, NatLessThanWellFounded, Zenon
<1>2. ASSUME NEW y \in S PROVE ~(y < x)
  <2>1. <<y, x>> \notin OpToRel(<, Nat)
    BY <1>1, Zenon
  <2> QED BY <2>1 DEF OpToRel
<1> QED BY <1>2

EndsAt(bytes, start, e) ==
    /\ e \in start .. Len(bytes)
    /\ \A i \in start + 1 .. e : ~Separator(bytes[i])
    /\ e = Len(bytes) \/ Separator(bytes[e + 1])

(* A message ends at one line only.                                          *)
LEMMA LastLineIs ==
    ASSUME NEW bytes \in Bytes, NEW start \in 1 .. Len(bytes), NEW e,
           EndsAt(bytes, start, e)
    PROVE  LastLine(bytes, start) = e
<1>1. ASSUME NEW d, EndsAt(bytes, start, d) PROVE d = e
  <2>1. Len(bytes) \in Nat /\ d \in Nat /\ e \in Nat
    BY <1>1, BytesLength DEF EndsAt
  <2>2. ~(d < e)
    BY <1>1, <2>1 DEF EndsAt
  <2>3. ~(e < d)
    BY <1>1, <2>1 DEF EndsAt
  <2> QED BY <2>1, <2>2, <2>3
<1>2. LastLine(bytes, start) = CHOOSE d \in start .. Len(bytes) : EndsAt(bytes, start, d)
  BY DEF LastLine, EndsAt
<1> QED BY <1>1, <1>2 DEF EndsAt

(* And it does end: before the next separator, or with the file.             *)
LEMMA LastLineEnds ==
    ASSUME NEW bytes \in Bytes, NEW start \in 1 .. Len(bytes)
    PROVE  EndsAt(bytes, start, LastLine(bytes, start))
<1> DEFINE S == {e \in start .. Len(bytes) :
                    e = Len(bytes) \/ Separator(bytes[e + 1])}
<1>1. Len(bytes) \in Nat \ {0}
  BY BytesLength
<1>2. S \in SUBSET Nat /\ Len(bytes) \in S
  BY <1>1
<1>3. PICK e \in S : \A y \in S : e <= y
  BY <1>2, Least
<1>4. EndsAt(bytes, start, e)
  <2>1. ASSUME NEW i \in start + 1 .. e, Separator(bytes[i]) PROVE FALSE
    <3>1. i \in Int /\ e \in Int /\ i <= e
      BY <1>1, <1>3, <2>1
    <3>2. i - 1 \in S
      BY <1>1, <1>3, <2>1
    <3>3. e <= i - 1
      BY <1>3, <3>2
    <3> HIDE DEF S
    <3> QED BY <3>1, <3>3
  <2> QED BY <1>3, <2>1 DEF EndsAt
<1> QED BY <1>4, LastLineIs

-----------------------------------------------------------------------------
(* What is read of a file.                                                  *)

NoSeparatorIn(b, m, n) == \A i \in m .. n : ~Separator(b[i])

(* A message as scanned has no separator but its first line.                 *)
LEMMA ReadMessageType ==
    ASSUME NEW bytes \in Bytes, NEW start \in 1 .. Len(bytes)
    PROVE  /\ ReadMessage(bytes, start) \in Bytes
           /\ NoSeparatorIn(ReadMessage(bytes, start), 2,
                            Len(ReadMessage(bytes, start)))
<1> DEFINE e == LastLine(bytes, start)
           part == SubSeq(bytes, start, e)
<1>1. Len(bytes) \in Nat /\ EndsAt(bytes, start, e)
  BY BytesLength, LastLineEnds
<1>2. e \in start .. Len(bytes) /\ e \in Int /\ start \in Int
  BY <1>1 DEF EndsAt
<1>3. \A i \in start .. e : bytes[i] \in Line
  BY <1>1, <1>2, BytesLength
<1> HIDE DEF e
<1>4. /\ part \in Seq(Line)
      /\ Len(part) = e - start + 1
      /\ \A i \in 1 .. e - start + 1 : part[i] = bytes[start + i - 1]
  BY <1>2, <1>3, SubSeqProperties
<1>5. ASSUME NEW i \in 2 .. Len(part) PROVE ~Separator(part[i])
  <2>1. start + i - 1 \in start + 1 .. e /\ i \in 1 .. e - start + 1
    BY <1>2, <1>4
  <2> QED BY <1>1, <1>4, <2>1 DEF EndsAt
<1>6. ReadMessage(bytes, start) = IF e = Len(bytes) THEN part ELSE part \o NoBytes
  BY DEF ReadMessage, e
<1> HIDE DEF part
<1>7. CASE e = Len(bytes)
  <2>1. part \in Bytes
    BY <1>2, <1>4, EmptySeq DEF Bytes
  <2> QED BY <1>5, <1>6, <1>7, <2>1 DEF NoSeparatorIn
<1>8. CASE e # Len(bytes)
  <2> DEFINE raw == part \o NoBytes
  <2>1. NoBytes \in Seq(Line) /\ Len(NoBytes) = 1 /\ ~Separator(NoBytes[1])
    BY SpecialLines DEF Bytes
  <2>a. part \in Seq(Line)
    BY <1>4
  <2>b. /\ raw \in Seq(Line)
        /\ Len(raw) = Len(part) + Len(NoBytes)
        /\ \A i \in 1 .. Len(part) + Len(NoBytes) :
             raw[i] = IF i <= Len(part) THEN part[i] ELSE NoBytes[i - Len(part)]
    BY <2>a, <2>1, ConcatProperties, Zenon
  <2> HIDE DEF raw
  <2>2. /\ raw \in Seq(Line)
        /\ Len(raw) = Len(part) + 1
        /\ \A i \in 1 .. Len(part) + 1 :
             raw[i] = IF i <= Len(part) THEN part[i] ELSE NoBytes[i - Len(part)]
    BY <2>1, <2>b
  <2>3. Len(part) \in Nat \ {0}
    BY <1>2, <1>4
  <2>4. raw \in Bytes
    BY <2>2, <2>3, EmptySeq DEF Bytes
  <2>5. ASSUME NEW i \in 2 .. Len(raw) PROVE ~Separator(raw[i])
    <3>1. CASE i <= Len(part)
      BY <1>5, <2>2, <2>3, <3>1
    <3>2. CASE i > Len(part)
      BY <2>1, <2>2, <2>3, <3>2
    <3> QED BY <2>3, <3>1, <3>2
  <2>6. ReadMessage(bytes, start) = raw
    BY <1>6, <1>8 DEF raw
  <2> QED BY <2>4, <2>5, <2>6 DEF NoSeparatorIn
<1> QED BY <1>7, <1>8

(* Without its envelope it has none.                                         *)
LEMMA StripEnvelopeType ==
    ASSUME NEW raw \in Bytes, NoSeparatorIn(raw, 2, Len(raw))
    PROVE  /\ StripEnvelope(raw) \in Bytes
           /\ NoSeparatorIn(StripEnvelope(raw), 1, Len(StripEnvelope(raw)))
<1>1. raw \in Seq(Line) /\ Len(raw) \in Nat \ {0}
  BY BytesLength
<1>2. CASE Len(raw) = 1
  BY <1>2, SpecialLines DEF StripEnvelope, NoSeparatorIn
<1>3. ASSUME NEW n \in Int, 2 <= n, n <= Len(raw)
      PROVE  /\ SubSeq(raw, 2, n) \in Bytes
             /\ NoSeparatorIn(SubSeq(raw, 2, n), 1, Len(SubSeq(raw, 2, n)))
  <2> DEFINE part == SubSeq(raw, 2, n)
  <2>1. \A i \in 2 .. n : raw[i] \in Line
    BY <1>1, <1>3, BytesLength
  <2>2. /\ part \in Seq(Line)
        /\ Len(part) = n - 1
        /\ \A i \in 1 .. n - 1 : part[i] = raw[2 + i - 1]
    BY <1>3, <2>1, SubSeqProperties
  <2> HIDE DEF part
  <2>3. part \in Bytes
    BY <1>3, <2>2, EmptySeq DEF Bytes
  <2>4. ASSUME NEW i \in 1 .. Len(part) PROVE ~Separator(part[i])
    <3>1. 2 + i - 1 \in 2 .. Len(raw)
      BY <1>1, <1>3, <2>2, <2>4
    <3> QED BY <1>3, <2>2, <3>1 DEF NoSeparatorIn
  <2>5. part \in Bytes /\ NoSeparatorIn(part, 1, Len(part))
    BY <2>3, <2>4 DEF NoSeparatorIn
  <2> QED BY <2>5 DEF part
<1>4. CASE Len(raw) # 1
  <2>1. Tail(raw) = SubSeq(raw, 2, Len(raw))
    BY <1>1, <1>4, TailIsSubSeq, EmptySeq
  <2>a. Len(raw) \in Nat /\ Len(raw) # 0 /\ Len(raw) # 1
    BY <1>1, <1>4
  <2>2. Len(raw) \in Int /\ 2 <= Len(raw)
    BY <2>a
  <2>3. CASE Len(raw) > 2 /\ raw[Len(raw)] = Blank
    <3>1. StripEnvelope(raw) = SubSeq(raw, 2, Len(raw) - 1)
      BY <1>4, <2>3 DEF StripEnvelope
    <3>2. Len(raw) - 1 \in Int /\ 2 <= Len(raw) - 1 /\ Len(raw) - 1 <= Len(raw)
      BY <2>2, <2>3
    <3> QED BY <1>3, <3>1, <3>2
  <2>4. CASE ~(Len(raw) > 2 /\ raw[Len(raw)] = Blank)
    <3>1. StripEnvelope(raw) = SubSeq(raw, 2, Len(raw))
      BY <1>4, <2>1, <2>4 DEF StripEnvelope
    <3> QED BY <1>3, <2>2, <3>1
  <2> QED BY <2>3, <2>4
<1> QED BY <1>2, <1>4

(* Messages start at lines of the file.                                      *)
LEMMA StartsRange ==
    ASSUME NEW bytes \in Bytes
    PROVE  Starts(bytes) \subseteq 1 .. Len(bytes)
BY BytesLength DEF Starts

(* What is taken from a file is bytes.                                       *)
LEMMA MessageType ==
    ASSUME NEW bytes \in Bytes, NEW start \in Starts(bytes)
    PROVE  Message(bytes, start) \in Bytes
BY StartsRange, ReadMessageType, StripEnvelopeType, UnquoteType DEF Message

(* Of any file whatever: quoting a stored message again gives the lines it  *)
(* had in the file (parser.py:164 says that re-quoting is the inverse of    *)
(* unquoting, so that a file comes back byte for byte).                     *)
THEOREM QuotingSurvives ==
    ASSUME NEW bytes \in Bytes, NEW start \in Starts(bytes)
    PROVE  Requote(Message(bytes, start))
              = StripEnvelope(ReadMessage(bytes, start))
<1>1. start \in 1 .. Len(bytes)
  BY StartsRange
<1> DEFINE body == StripEnvelope(ReadMessage(bytes, start))
<1>2. body \in Bytes /\ NoSeparatorIn(body, 1, Len(body))
  BY <1>1, ReadMessageType, StripEnvelopeType
<1>3. Requote(Unquote(body)) = body
  BY <1>2, RequoteOfUnquote DEF NoSeparatorIn
<1> QED BY <1>3 DEF Message

-----------------------------------------------------------------------------
(* What one record adds to a file.                                          *)

(* The elements of a concatenation.                                          *)
LEMMA ConcatParts ==
    ASSUME NEW S, NEW s \in Seq(S), NEW t \in Seq(S)
    PROVE  /\ s \o t \in Seq(S)
           /\ Len(s \o t) = Len(s) + Len(t)
           /\ \A i \in 1 .. Len(s) : (s \o t)[i] = s[i]
           /\ \A i \in 1 .. Len(t) : (s \o t)[Len(s) + i] = t[i]
<1>1. Len(s) \in Nat /\ Len(t) \in Nat
  BY LenProperties
<1>2. /\ s \o t \in Seq(S)
      /\ Len(s \o t) = Len(s) + Len(t)
      /\ \A i \in 1 .. Len(s) + Len(t) :
           (s \o t)[i] = IF i <= Len(s) THEN s[i] ELSE t[i - Len(s)]
  BY ConcatProperties, Zenon
<1>3. ASSUME NEW i \in 1 .. Len(s) PROVE (s \o t)[i] = s[i]
  <2>1. i \in 1 .. Len(s) + Len(t) /\ i <= Len(s)
    BY <1>1
  <2> QED BY <1>2, <2>1
<1>4. ASSUME NEW i \in 1 .. Len(t) PROVE (s \o t)[Len(s) + i] = t[i]
  <2>1. /\ Len(s) + i \in 1 .. Len(s) + Len(t)
        /\ ~(Len(s) + i <= Len(s))
        /\ Len(s) + i - Len(s) = i
    BY <1>1
  <2> DEFINE k == Len(s) + i
  <2>2. k \in 1 .. Len(s) + Len(t) /\ ~(k <= Len(s)) /\ k - Len(s) = i
    BY <2>1
  <2> HIDE DEF k
  <2>3. (s \o t)[k] = t[k - Len(s)]
    BY <1>2, <2>2, Zenon
  <2>4. (s \o t)[k] = t[i]
    BY <2>2, <2>3, Zenon
  <2> QED BY <2>4 DEF k
<1> QED BY <1>2, <1>3, <1>4

(* The lines of a record: envelope, quoted message, blank.                   *)
LEMMA RecordLines ==
    ASSUME NEW b \in Bytes
    PROVE  /\ Record(b) \in Seq(Line)
           /\ Len(Record(b)) = Len(b) + 2
           /\ Record(b)[1] = Envelope
           /\ \A i \in 1 .. Len(b) : Record(b)[1 + i] = Requote(b)[i]
           /\ Record(b)[1 + Len(b) + 1] = Blank
<1> DEFINE head == <<Envelope>>
           front == head \o Requote(b)
<1>1. head \in Seq(Line) /\ Len(head) = 1 /\ head[1] = Envelope
  BY SpecialLines
<1>a. head \in Seq(Line)
  BY <1>1
<1>2. Requote(b) \in Seq(Line)
  BY BytesLength, RequoteType
<1>3. Len(Requote(b)) = Len(b) /\ Len(b) \in Nat \ {0}
  BY BytesLength, RequoteType
<1>4. NoBytes \in Seq(Line) /\ Len(NoBytes) = 1 /\ NoBytes[1] = Blank
  BY SpecialLines DEF Bytes
<1> HIDE DEF head
<1>5. /\ front \in Seq(Line)
      /\ Len(front) = Len(head) + Len(Requote(b))
      /\ \A i \in 1 .. Len(head) : front[i] = head[i]
      /\ \A i \in 1 .. Len(Requote(b)) : front[Len(head) + i] = Requote(b)[i]
  BY <1>a, <1>2, ConcatParts DEF front
<1> HIDE DEF front
<1>6. /\ Len(front) = 1 + Len(b)
      /\ front[1] = Envelope
      /\ \A i \in 1 .. Len(b) : front[1 + i] = Requote(b)[i]
  BY <1>1, <1>3, <1>5
<1>7. /\ front \o NoBytes \in Seq(Line)
      /\ Len(front \o NoBytes) = Len(front) + Len(NoBytes)
      /\ \A i \in 1 .. Len(front) : (front \o NoBytes)[i] = front[i]
      /\ \A i \in 1 .. Len(NoBytes) :
           (front \o NoBytes)[Len(front) + i] = NoBytes[i]
  BY <1>4, <1>5, ConcatParts
<1>8. Record(b) = front \o NoBytes
  BY DEF Record, front, head
<1> HIDE DEF Record
<1>9. /\ Record(b) \in Seq(Line)
      /\ Len(Record(b)) = Len(b) + 2
      /\ Record(b)[1 + Len(b) + 1] = Blank
  BY <1>3, <1>4, <1>6, <1>7, <1>8
<1>10. Record(b)[1] = Envelope
  BY <1>3, <1>6, <1>7, <1>8
<1>11. ASSUME NEW i \in 1 .. Len(b) PROVE Record(b)[1 + i] = Requote(b)[i]
  <2>1. 1 + i \in 1 .. Len(front)
    BY <1>3, <1>6
  <2> QED BY <1>6, <1>7, <1>8, <2>1
<1> QED BY <1>9, <1>10, <1>11

(* The lines of a file with a record appended.                               *)
LEMMA ExtendedLines ==
    ASSUME NEW bytes \in Bytes, NEW b \in Bytes
    PROVE  /\ Extended(bytes, b) \in Bytes
           /\ Len(Extended(bytes, b)) = Len(bytes) + Len(b) + 1
           /\ \A i \in 1 .. Len(bytes) - 1 : Extended(bytes, b)[i] = bytes[i]
           /\ Extended(bytes, b)[Len(bytes)] = Envelope
           /\ \A i \in 1 .. Len(b) :
                Extended(bytes, b)[Len(bytes) + i] = Requote(b)[i]
           /\ Extended(bytes, b)[Len(bytes) + Len(b) + 1] = Blank
<1> DEFINE n == Len(bytes)
           front == SubSeq(bytes, 1, n - 1)
           g == Extended(bytes, b)
<1>1. n \in Nat \ {0} /\ n - 1 \in Int /\ \A i \in 1 .. n - 1 : bytes[i] \in Line
  BY BytesLength
<1>2. Len(b) \in Nat \ {0}
  BY BytesLength
<1> HIDE DEF n
<1>3. /\ front \in Seq(Line)
      /\ Len(front) = IF 1 <= n - 1 THEN n - 1 - 1 + 1 ELSE 0
      /\ \A i \in 1 .. n - 1 - 1 + 1 : front[i] = bytes[1 + i - 1]
  BY <1>1, SubSeqProperties
<1> HIDE DEF front
<1>4. Len(front) = n - 1
  BY <1>1, <1>3
<1>5. ASSUME NEW i \in 1 .. n - 1 PROVE front[i] = bytes[i]
  <2>1. i \in 1 .. n - 1 - 1 + 1 /\ 1 + i - 1 = i
    BY <1>1
  <2> QED BY <1>3, <2>1
<1>6. Record(b) \in Seq(Line)
  BY RecordLines
<1>7. g = front \o Record(b)
  BY DEF Extended, front, n
<1>8. /\ g \in Seq(Line)
      /\ Len(g) = Len(front) + Len(Record(b))
      /\ \A i \in 1 .. Len(front) : g[i] = front[i]
      /\ \A i \in 1 .. Len(Record(b)) : g[Len(front) + i] = Record(b)[i]
  BY <1>3, <1>6, <1>7, ConcatParts
<1> HIDE DEF g
<1>9. /\ Len(g) = n + Len(b) + 1
      /\ \A i \in 1 .. n - 1 : g[i] = bytes[i]
      /\ \A i \in 1 .. Len(b) + 2 : g[n - 1 + i] = Record(b)[i]
  <2>1. Len(Record(b)) = Len(b) + 2
    BY RecordLines
  <2>2. Len(g) = n + Len(b) + 1
    BY <1>1, <1>2, <1>4, <1>8, <2>1
  <2>3. \A i \in 1 .. n - 1 : g[i] = bytes[i]
    BY <1>4, <1>5, <1>8
  <2>4. \A i \in 1 .. Len(b) + 2 : g[n - 1 + i] = Record(b)[i]
    BY <1>4, <1>8, <2>1
  <2> QED BY <2>2, <2>3, <2>4
<1>10. g \in Bytes
  BY <1>1, <1>2, <1>8, <1>9, EmptySeq DEF Bytes
<1>11. g[n] = Envelope
  <2>1. 1 \in 1 .. Len(b) + 2 /\ n - 1 + 1 = n
    BY <1>1, <1>2
  <2> QED BY <1>9, <2>1, RecordLines
<1>12. ASSUME NEW i \in 1 .. Len(b) PROVE g[n + i] = Requote(b)[i]
  <2>1. 1 + i \in 1 .. Len(b) + 2 /\ n - 1 + (1 + i) = n + i
    BY <1>1, <1>2
  <2> QED BY <1>9, <2>1, RecordLines
<1>13. g[n + Len(b) + 1] = Blank
  <2>1. /\ 1 + Len(b) + 1 \in 1 .. Len(b) + 2
        /\ n - 1 + (1 + Len(b) + 1) = n + Len(b) + 1
    BY <1>1, <1>2
  <2> QED BY <1>9, <2>1, RecordLines
<1> QED BY <1>9, <1>10, <1>11, <1>12, <1>13 DEF g, n

(* A record appended adds one start, its own.                                *)
LEMMA ExtendedStarts ==
    ASSUME NEW bytes \in Bytes, NEW b \in Bytes, bytes[Len(bytes)] = Blank
    PROVE  /\ Starts(Extended(bytes, b)) = Starts(bytes) \cup {Len(bytes)}
           /\ Len(bytes) \notin Starts(bytes)
<1> DEFINE n == Len(bytes)
           g == Extended(bytes, b)
<1>1. n \in Nat \ {0} /\ Len(b) \in Nat \ {0}
  BY BytesLength
<1>2. /\ g \in Bytes
      /\ Len(g) = n + Len(b) + 1
      /\ \A i \in 1 .. n - 1 : g[i] = bytes[i]
      /\ g[n] = Envelope
      /\ \A i \in 1 .. Len(b) : g[n + i] = Requote(b)[i]
      /\ g[n + Len(b) + 1] = Blank
  BY ExtendedLines
<1> HIDE DEF g, n
<1>3. g # NoBytes
  <2>1. n + Len(b) + 1 # 1
    BY <1>1
  <2> QED BY <1>2, <2>1, SpecialLines
<1>4. ASSUME NEW i \in n + 1 .. Len(g) PROVE ~Separator(g[i])
  <2>1. CASE i = n + Len(b) + 1
    BY <1>2, <2>1, SpecialLines
  <2>2. CASE i # n + Len(b) + 1
    <3>a. i \in n + 1 .. n + Len(b) + 1
      BY <1>2
    <3>1. i - n \in 1 .. Len(b) /\ n + (i - n) = i
      BY <1>1, <2>2, <3>a
    <3> QED BY <1>2, <3>1, RequoteType
  <2> QED BY <2>1, <2>2
<1>5. Starts(g) = {1} \cup {i \in 2 .. Len(g) : Separator(g[i])}
  BY <1>3 DEF Starts
<1>6. CASE bytes = NoBytes
  <2>1. n = 1 /\ Starts(bytes) = {}
    BY <1>6, SpecialLines DEF Starts, n
  <2>2. \A i \in 2 .. Len(g) : ~Separator(g[i])
    BY <1>4, <2>1
  <2>3. Starts(g) = {1}
    BY <1>5, <2>2
  <2> QED BY <2>1, <2>3 DEF g, n
<1>7. CASE bytes # NoBytes
  <2>1. Starts(bytes) = {1} \cup {i \in 2 .. n : Separator(bytes[i])}
    BY <1>7 DEF Starts, n
  <2>2. ~Separator(bytes[n])
    BY SpecialLines DEF n
  <2>3. n # 1
    <3>1. SUFFICES ASSUME n = 1 PROVE bytes = NoBytes
      BY <1>7
    <3>2. bytes \in Seq(Line) /\ NoBytes \in Seq(Line)
      BY SpecialLines DEF Bytes
    <3>3. Len(bytes) = Len(NoBytes) /\ \A i \in 1 .. Len(bytes) : bytes[i] = NoBytes[i]
      BY <3>1, SpecialLines DEF n
    <3> QED BY <3>2, <3>3, SeqEqual
  <2>4. ASSUME NEW i \in 2 .. Len(g)
        PROVE  Separator(g[i]) <=> i = n \/ (i \in 2 .. n /\ Separator(bytes[i]))
    <3>1. CASE i < n
      <4>1. i \in 1 .. n - 1 /\ i \in 2 .. n /\ i # n
        BY <1>1, <3>1
      <4> QED BY <1>2, <4>1
    <3>2. CASE i = n
      BY <1>2, <3>2, SpecialLines
    <3>3. CASE i > n
      <4>1. i \in n + 1 .. Len(g) /\ i # n /\ i \notin 2 .. n
        BY <1>1, <3>3
      <4> QED BY <1>4, <4>1
    <3> QED BY <1>1, <3>1, <3>2, <3>3
  <2>5. 2 .. n \subseteq 2 .. Len(g) /\ n \in 2 .. Len(g)
    BY <1>1, <1>2, <2>3
  <2>6. {i \in 2 .. Len(g) : Separator(g[i])}
          = {i \in 2 .. n : Separator(bytes[i])} \cup {n}
    BY <2>4, <2>5
  <2>7. n \notin Starts(bytes)
    BY <2>1, <2>2, <2>3
  <2> QED BY <1>5, <2>1, <2>6, <2>7 DEF g, n
<1> QED BY <1>6, <1>7

(* The new record is read as the message that was written.                  *)
LEMMA ExtendedNew ==
    ASSUME NEW bytes \in Bytes, NEW b \in Bytes
    PROVE  Message(Extended(bytes, b), Len(bytes)) = b
<1> DEFINE n == Len(bytes)
           g == Extended(bytes, b)
           m == Len(g)
           raw == SubSeq(g, n, m)
           body == SubSeq(raw, 2, Len(raw) - 1)
<1>1. n \in Nat \ {0} /\ Len(b) \in Nat \ {0}
  BY BytesLength
<1>2. /\ g \in Bytes
      /\ m = n + Len(b) + 1
      /\ \A i \in 1 .. Len(b) : g[n + i] = Requote(b)[i]
      /\ g[n + Len(b) + 1] = Blank
  BY ExtendedLines
<1>3. Requote(b) \in Bytes /\ Requote(b) \in Seq(Line) /\ Len(Requote(b)) = Len(b)
  BY RequoteType, BytesLength
<1>4. \A i \in n .. m : g[i] \in Line
  BY <1>1, <1>2, BytesLength
<1> HIDE DEF g, n
<1>5. m \in Int /\ n \in Int
  BY <1>1, <1>2
<1>6. EndsAt(g, n, m)
  <2>1. ASSUME NEW i \in n + 1 .. m PROVE ~Separator(g[i])
    <3>1. CASE i = n + Len(b) + 1
      BY <1>2, <3>1, SpecialLines
    <3>2. CASE i # n + Len(b) + 1
      <4>1. i - n \in 1 .. Len(b) /\ n + (i - n) = i
        BY <1>1, <1>2, <3>2
      <4> QED BY <1>2, <4>1, RequoteType
    <3> QED BY <3>1, <3>2
  <2>2. m \in n .. m
    BY <1>1, <1>2
  <2> QED BY <2>1, <2>2 DEF EndsAt
<1>7. LastLine(g, n) = m
  <2>1. n \in 1 .. m
    BY <1>1, <1>2
  <2> QED BY <1>2, <1>6, <2>1, LastLineIs
<1>8. ReadMessage(g, n) = raw
  BY <1>7 DEF ReadMessage
<1> HIDE DEF m
<1>9. /\ raw \in Seq(Line)
      /\ Len(raw) = IF n <= m THEN m - n + 1 ELSE 0
      /\ \A i \in 1 .. m - n + 1 : raw[i] = g[n + i - 1]
  BY <1>4, <1>5, SubSeqProperties
<1> HIDE DEF raw
<1>10. Len(raw) = Len(b) + 2
  BY <1>1, <1>2, <1>9
<1>11. raw[Len(raw)] = Blank
  <2>1. Len(raw) \in 1 .. m - n + 1 /\ n + Len(raw) - 1 = n + Len(b) + 1
    BY <1>1, <1>2, <1>10
  <2> QED BY <1>2, <1>9, <2>1
<1>12. StripEnvelope(raw) = body
  BY <1>1, <1>10, <1>11 DEF StripEnvelope
<1>13. \A i \in 2 .. Len(raw) - 1 : raw[i] \in Line
  BY <1>1, <1>9, <1>10, LenProperties
<1>14. /\ body \in Seq(Line)
       /\ Len(body) = IF 2 <= Len(raw) - 1 THEN Len(raw) - 1 - 2 + 1 ELSE 0
       /\ \A i \in 1 .. Len(raw) - 1 - 2 + 1 : body[i] = raw[2 + i - 1]
  <2>1. 2 \in Int /\ Len(raw) - 1 \in Int
    BY <1>1, <1>10
  <2> QED BY <1>13, <2>1, SubSeqProperties
<1> HIDE DEF body
<1>15. Len(body) = Len(Requote(b))
  BY <1>1, <1>3, <1>10, <1>14
<1>16. ASSUME NEW i \in 1 .. Len(body) PROVE body[i] = Requote(b)[i]
  <2>1. i \in 1 .. Len(raw) - 1 - 2 + 1 /\ i \in 1 .. Len(b)
    BY <1>1, <1>3, <1>10, <1>15
  <2>2. body[i] = raw[2 + i - 1]
    BY <1>14, <2>1
  <2>3. 2 + i - 1 \in 1 .. m - n + 1 /\ n + (2 + i - 1) - 1 = n + i
    BY <1>1, <1>2, <2>1
  <2> QED BY <1>2, <1>9, <2>1, <2>2, <2>3
<1>17. body = Requote(b)
  BY <1>3, <1>14, <1>15, <1>16, SeqEqual
<1>18. Message(g, n) = b
  BY <1>8, <1>12, <1>17, UnquoteOfRequote DEF Message
<1> QED BY <1>18 DEF g, n

(* The messages before it are read as they were.                            *)
LEMMA ExtendedOld ==
    ASSUME NEW bytes \in Bytes, NEW b \in Bytes, bytes[Len(bytes)] = Blank,
           NEW start \in Starts(bytes)
    PROVE  Message(Extended(bytes, b), start) = Message(bytes, start)
<1> DEFINE n == Len(bytes)
           g == Extended(bytes, b)
           e == LastLine(bytes, start)
<1>1. n \in Nat \ {0} /\ Len(b) \in Nat \ {0} /\ start \in 1 .. n /\ start # n
  BY BytesLength, StartsRange, ExtendedStarts
<1>2. /\ g \in Bytes
      /\ Len(g) = n + Len(b) + 1
      /\ \A i \in 1 .. n - 1 : g[i] = bytes[i]
      /\ g[n] = Envelope
  BY ExtendedLines
<1>3. EndsAt(bytes, start, e)
  BY <1>1, LastLineEnds
<1> HIDE DEF e
<1>4. e \in start .. n /\ ~Separator(bytes[n])
  BY <1>3, SpecialLines DEF EndsAt
<1>5. /\ \A i \in 1 .. n : bytes[i] \in Line
      /\ \A i \in 1 .. Len(g) : g[i] \in Line
  BY <1>2, BytesLength
<1> HIDE DEF g, n
<1>6. ASSUME NEW d \in start .. n - 1
      PROVE  SubSeq(g, start, d) = SubSeq(bytes, start, d)
  <2>1. d \in Int /\ start \in Int /\ start <= d
    BY <1>1
  <2>2. \A i \in start .. d : bytes[i] \in Line /\ g[i] \in Line /\ g[i] = bytes[i]
    BY <1>1, <1>2, <1>5
  <2>3. /\ SubSeq(bytes, start, d) \in Seq(Line)
        /\ Len(SubSeq(bytes, start, d)) = d - start + 1
        /\ \A i \in 1 .. d - start + 1 :
             SubSeq(bytes, start, d)[i] = bytes[start + i - 1]
    BY <2>1, <2>2, SubSeqProperties
  <2>4. /\ SubSeq(g, start, d) \in Seq(Line)
        /\ Len(SubSeq(g, start, d)) = d - start + 1
        /\ \A i \in 1 .. d - start + 1 :
             SubSeq(g, start, d)[i] = g[start + i - 1]
    BY <2>1, <2>2, SubSeqProperties
  <2>5. \A i \in 1 .. d - start + 1 : start + i - 1 \in start .. d
    BY <2>1
  <2>6. \A i \in 1 .. d - start + 1 :
           SubSeq(g, start, d)[i] = SubSeq(bytes, start, d)[i]
    BY <2>2, <2>3, <2>4, <2>5
  <2> QED BY <2>3, <2>4, <2>6, SeqEqual
<1>7. CASE e # n
  <2>1. e + 1 \in 1 .. n - 1 /\ e \in start .. n - 1
    <3>1. Separator(bytes[e + 1])
      BY <1>3, <1>7 DEF EndsAt, n
    <3>2. e + 1 # n
      BY <1>4, <3>1
    <3> QED BY <1>1, <1>4, <1>7, <3>2
  <2>2. EndsAt(g, start, e)
    <3>1. e \in start .. Len(g)
      BY <1>1, <1>2, <1>4
    <3>2. \A i \in start + 1 .. e : i \in 1 .. n - 1
      BY <1>1, <2>1
    <3>3. \A i \in start + 1 .. e : ~Separator(g[i])
      BY <1>2, <1>3, <3>2 DEF EndsAt
    <3>4. Separator(g[e + 1])
      BY <1>2, <1>3, <1>7, <2>1 DEF EndsAt, n
    <3> QED BY <3>1, <3>3, <3>4 DEF EndsAt
  <2>3. start \in 1 .. Len(g) /\ e # Len(g)
    BY <1>1, <1>2, <2>1
  <2>4. LastLine(g, start) = e
    BY <1>2, <2>2, <2>3, LastLineIs
  <2>5. ReadMessage(g, start) = SubSeq(g, start, e) \o NoBytes
    BY <2>3, <2>4 DEF ReadMessage
  <2>6. ReadMessage(bytes, start) = SubSeq(bytes, start, e) \o NoBytes
    BY <1>7 DEF ReadMessage, e, n
  <2>7. ReadMessage(g, start) = ReadMessage(bytes, start)
    BY <1>6, <2>1, <2>5, <2>6
  <2> QED BY <2>7 DEF Message, g
<1>8. CASE e = n
  <2>1. n - 1 \in start .. n - 1 /\ n - 1 \in start .. Len(g)
    BY <1>1, <1>2
  <2>2. EndsAt(g, start, n - 1)
    <3>1. \A i \in start + 1 .. n - 1 : i \in 1 .. n - 1 /\ i \in start + 1 .. n
      BY <1>1
    <3>2. \A i \in start + 1 .. n - 1 : ~Separator(g[i])
      BY <1>2, <1>3, <1>8, <3>1 DEF EndsAt
    <3>3. Separator(g[n - 1 + 1])
      <4>1. n - 1 + 1 = n
        BY <1>1
      <4> QED BY <1>2, <4>1, SpecialLines
    <3> QED BY <2>1, <3>2, <3>3 DEF EndsAt
  <2>3. start \in 1 .. Len(g) /\ n - 1 # Len(g)
    BY <1>1, <1>2
  <2>4. LastLine(g, start) = n - 1
    BY <1>2, <2>2, <2>3, LastLineIs
  <2>5. ReadMessage(g, start) = SubSeq(bytes, start, n - 1) \o NoBytes
    BY <1>6, <2>1, <2>3, <2>4 DEF ReadMessage
  <2>6. ReadMessage(bytes, start) = SubSeq(bytes, start, n)
    BY <1>8 DEF ReadMessage, e, n
  <2>7. SubSeq(bytes, start, n) = SubSeq(bytes, start, n - 1) \o <<bytes[n]>>
    <3>1. bytes \in Seq(Line) /\ start \in 1 .. Len(bytes) /\ n \in start .. Len(bytes)
      BY <1>1, BytesLength DEF n
    <3> QED BY <3>1, SubSeqRecursiveSecond
  <2>8. <<bytes[n]>> = NoBytes
    BY DEF NoBytes, n
  <2>9. ReadMessage(g, start) = ReadMessage(bytes, start)
    BY <2>5, <2>6, <2>7, <2>8
  <2> QED BY <2>9 DEF Message, g
<1> QED BY <1>7, <1>8

(* A record adds its message to what a reader of the file finds, and        *)
(* changes none of those before it, whatever lines the messages are made of.*)
THEOREM RecordAddsItsMessage ==
    ASSUME NEW bytes \in Bytes, NEW b \in Bytes, bytes[Len(bytes)] = Blank
    PROVE  Messages(Extended(bytes, b)) = Messages(bytes) \cup {b}
<1>1. Starts(Extended(bytes, b)) = Starts(bytes) \cup {Len(bytes)}
  BY ExtendedStarts
<1>2. Message(Extended(bytes, b), Len(bytes)) = b
  BY ExtendedNew
<1>3. \A start \in Starts(bytes) :
         Message(Extended(bytes, b), start) = Message(bytes, start)
  BY ExtendedOld
<1> QED BY <1>1, <1>2, <1>3 DEF Messages

(* A message that a separator ends is the same in any two files that agree  *)
(* up to there.                                                             *)
LEMMA SameUpToSeparator ==
    ASSUME NEW bytes \in Bytes, NEW other \in Bytes,
           NEW start \in 1 .. Len(bytes), NEW next \in start + 1 .. Len(bytes),
           next <= Len(other),
           Separator(bytes[next]), Separator(other[next]),
           \A i \in start .. next - 1 : bytes[i] = other[i]
    PROVE  Message(bytes, start) = Message(other, start)
<1> DEFINE e == LastLine(bytes, start)
<1>1. /\ Len(bytes) \in Nat /\ Len(other) \in Nat
      /\ start \in Nat /\ next \in Nat /\ start < next
      /\ next <= Len(bytes) /\ 1 <= start
  BY BytesLength
<1>2. EndsAt(bytes, start, e)
  BY LastLineEnds
<1> HIDE DEF e
<1>3. e \in Nat /\ start <= e /\ e < next
  <2>1. e \in Nat /\ start <= e
    BY <1>1, <1>2 DEF EndsAt
  <2>2. ~(next <= e)
    BY <1>1, <1>2, <2>1 DEF EndsAt
  <2> QED BY <1>1, <2>1, <2>2
<1>4. EndsAt(other, start, e)
  <2>1. e \in start .. Len(other)
    BY <1>1, <1>3
  <2>2. \A i \in start + 1 .. e : i \in start .. next - 1
    BY <1>1, <1>3
  <2>3. \A i \in start + 1 .. e : ~Separator(other[i])
    BY <1>2, <2>2 DEF EndsAt
  <2>4. Separator(other[e + 1])
    <3>1. e # Len(bytes)
      BY <1>1, <1>3
    <3>2. Separator(bytes[e + 1])
      BY <1>2, <3>1 DEF EndsAt
    <3>3. CASE e + 1 = next
      BY <3>3
    <3>4. CASE e + 1 # next
      <4>1. e + 1 \in start .. next - 1
        BY <1>1, <1>3, <3>4
      <4> QED BY <3>2, <4>1
    <3> QED BY <3>3, <3>4
  <2> QED BY <2>1, <2>3, <2>4 DEF EndsAt
<1>5. LastLine(other, start) = e
  <2>1. start \in 1 .. Len(other)
    BY <1>1
  <2> QED BY <1>4, <2>1, LastLineIs
<1>6. SubSeq(bytes, start, e) = SubSeq(other, start, e)
  <2>1. start \in Int /\ e \in Int
    BY <1>1, <1>3
  <2>2. \A i \in start .. e : i \in 1 .. Len(bytes) /\ i \in start .. next - 1
    BY <1>1, <1>3
  <2>3. \A i \in start .. e : bytes[i] \in Line /\ bytes[i] = other[i]
    BY <2>2, BytesLength
  <2>4. \A i \in start .. e : other[i] \in Line
    BY <2>3
  <2>5. /\ SubSeq(bytes, start, e) \in Seq(Line)
        /\ Len(SubSeq(bytes, start, e)) = IF start <= e THEN e - start + 1 ELSE 0
        /\ \A i \in 1 .. e - start + 1 :
             SubSeq(bytes, start, e)[i] = bytes[start + i - 1]
    BY <2>1, <2>3, SubSeqProperties
  <2>6. /\ SubSeq(other, start, e) \in Seq(Line)
        /\ Len(SubSeq(other, start, e)) = IF start <= e THEN e - start + 1 ELSE 0
        /\ \A i \in 1 .. e - start + 1 :
             SubSeq(other, start, e)[i] = other[start + i - 1]
    BY <2>1, <2>4, SubSeqProperties
  <2>7. \A i \in 1 .. e - start + 1 : start + i - 1 \in start .. e
    BY <1>1, <1>3
  <2>8. \A i \in 1 .. e - start + 1 :
           SubSeq(bytes, start, e)[i] = SubSeq(other, start, e)[i]
    BY <2>3, <2>5, <2>6, <2>7
  <2> QED BY <1>3, <2>5, <2>6, <2>8, SeqEqual
<1>7. e # Len(bytes) /\ e # Len(other)
  BY <1>1, <1>3
<1>8. ReadMessage(bytes, start) = SubSeq(bytes, start, e) \o NoBytes
  BY <1>7 DEF ReadMessage, e
<1>9. ReadMessage(other, start) = SubSeq(other, start, e) \o NoBytes
  BY <1>5, <1>7 DEF ReadMessage
<1> QED BY <1>6, <1>8, <1>9 DEF Message

(***************************************************************************)
(* The export: while the exporter writes, the file ends with a newline and *)
(* its messages are those written so far; the rest follows from what can   *)
(* be left of such a file.                                                 *)
(***************************************************************************)

(* A file has finitely many messages.                                        *)
LEMMA StartsFinite ==
    ASSUME NEW bytes \in Bytes
    PROVE  IsFiniteSet(Starts(bytes)) /\ IsFiniteSet(Messages(bytes))
<1>1. Len(bytes) \in Int /\ 1 \in Int
  BY BytesLength
<1>2. IsFiniteSet(1 .. Len(bytes))
  BY <1>1, FS_Interval
<1>3. IsFiniteSet(Starts(bytes))
  BY <1>2, StartsRange, FS_Subset
<1>4. IsFiniteSet(Messages(bytes))
  <2> DEFINE S == Starts(bytes)
             T == Messages(bytes)
             f == [start \in S |-> Message(bytes, start)]
  <2>1. f \in [S -> T] /\ \A b \in T : \E start \in S : f[start] = b
    BY DEF Messages
  <2>2. f \in Surjection(S, T)
    BY <2>1 DEF Surjection
  <2> QED BY <1>3, <2>2, FS_Surjection
<1> QED BY <1>3, <1>4

(* Messages are bytes.                                                       *)
LEMMA MessagesType ==
    ASSUME NEW bytes \in Bytes
    PROVE  Messages(bytes) \subseteq Bytes
BY MessageType DEF Messages

(* What a query selects has nothing twice.                                   *)
LEMMA ChoicesType ==
    ASSUME NEW S, IsFiniteSet(S)
    PROVE  Choices(S) \subseteq {seq \in Seq(S) : Distinct(seq)}
<1>1. Cardinality(S) \in Nat
  BY FS_CardinalityType
<1>2. \A n \in 0 .. Cardinality(S) : [1 .. n -> S] \subseteq Seq(S)
  BY <1>1
<1> QED BY <1>2 DEF Choices

(* What is left of a selection has neither doubles nor its first element.    *)
LEMMA TailOfDistinct ==
    ASSUME NEW S, NEW seq \in Seq(S), seq # <<>>, Distinct(seq)
    PROVE  /\ Distinct(Tail(seq))
           /\ \A i \in DOMAIN Tail(seq) : \E j \in DOMAIN seq : Tail(seq)[i] = seq[j]
           /\ \A i \in DOMAIN Tail(seq) : Tail(seq)[i] # Head(seq)
<1>1. /\ Len(seq) \in Nat /\ DOMAIN seq = 1 .. Len(seq) /\ Len(seq) # 0
      /\ Head(seq) = seq[1]
  BY EmptySeq, HeadTailProperties
<1>2. /\ Tail(seq) \in Seq(S) /\ Len(Tail(seq)) = Len(seq) - 1
      /\ \A i \in 1 .. Len(Tail(seq)) : Tail(seq)[i] = seq[i + 1]
  BY HeadTailProperties
<1>3. DOMAIN Tail(seq) = 1 .. Len(seq) - 1
  BY <1>2
<1>4. ASSUME NEW i \in 1 .. Len(seq) - 1
      PROVE  /\ i + 1 \in DOMAIN seq /\ 1 \in DOMAIN seq /\ i + 1 # 1
             /\ Tail(seq)[i] = seq[i + 1]
  BY <1>1, <1>2
<1>5. ASSUME NEW i \in 1 .. Len(seq) - 1, NEW k \in 1 .. Len(seq) - 1,
             Tail(seq)[i] = Tail(seq)[k]
      PROVE  i = k
  <2>1. i + 1 = k + 1
    BY <1>4, <1>5 DEF Distinct
  <2> QED BY <2>1
<1> QED BY <1>1, <1>3, <1>4, <1>5 DEF Distinct

(* A cut line is a line, and no new separator.                               *)
LEMMA StumpsType ==
    ASSUME NEW l \in Line, NEW line \in Stumps(l)
    PROVE  /\ line \in Line
           /\ Separator(line) => Separator(l)
<1>1. OtherLine(Stump) \in Line /\ ~Separator(OtherLine(Stump))
  BY ExportAssumption DEF OtherLine, Line, Separator
<1>2. ASSUME line = [l EXCEPT !.text = Stump]
      PROVE  line \in Line /\ (Separator(line) => Separator(l))
  <2>1. CASE l \in [from : {TRUE}, carets : Nat, text : Text]
    BY <1>2, <2>1, ExportAssumption DEF Line, Separator
  <2>2. CASE l \in [from : {FALSE}, carets : {0}, text : Text]
    BY <1>2, <2>2, ExportAssumption DEF Line, Separator
  <2> QED BY <2>1, <2>2 DEF Line
<1> QED BY <1>1, <1>2, SpecialLines DEF Stumps

(* The beginnings of a file are those of its lines, the last one cut.        *)
LEMMA BeginningsType ==
    ASSUME NEW bytes \in Bytes, NEW cut \in Beginnings(bytes)
    PROVE  /\ cut \in Bytes
           /\ Len(cut) \in 1 .. Len(bytes)
           /\ \A i \in 1 .. Len(cut) - 1 : cut[i] = bytes[i]
           /\ Separator(cut[Len(cut)]) => Separator(bytes[Len(cut)])
<1>1. PICK k \in DOMAIN bytes :
         \E line \in Stumps(bytes[k]) : cut = Append(SubSeq(bytes, 1, k - 1), line)
  BY DEF Beginnings
<1>2. PICK line \in Stumps(bytes[k]) : cut = Append(SubSeq(bytes, 1, k - 1), line)
  BY <1>1
<1>3. k \in 1 .. Len(bytes) /\ Len(bytes) \in Nat /\ bytes[k] \in Line
  BY BytesLength
<1>4. line \in Line /\ (Separator(line) => Separator(bytes[k]))
  BY <1>3, StumpsType
<1> DEFINE front == SubSeq(bytes, 1, k - 1)
<1>5. 1 \in Int /\ k - 1 \in Int /\ \A i \in 1 .. k - 1 : bytes[i] \in Line
  BY <1>3, BytesLength
<1>6. /\ front \in Seq(Line)
      /\ Len(front) = IF 1 <= k - 1 THEN k - 1 - 1 + 1 ELSE 0
      /\ \A i \in 1 .. k - 1 - 1 + 1 : front[i] = bytes[1 + i - 1]
  BY <1>5, SubSeqProperties
<1>7. cut = Append(front, line)
  BY <1>2
<1> HIDE DEF front
<1>8. Len(front) = k - 1
  BY <1>3, <1>6
<1>9. /\ cut \in Seq(Line)
      /\ Len(cut) = Len(front) + 1
      /\ \A i \in 1 .. Len(front) : cut[i] = front[i]
      /\ cut[Len(front) + 1] = line
  BY <1>4, <1>6, <1>7, AppendProperties
<1>10. Len(cut) = k
  BY <1>3, <1>8, <1>9
<1>11. ASSUME NEW i \in 1 .. k - 1 PROVE cut[i] = bytes[i]
  <2>1. i \in 1 .. k - 1 - 1 + 1 /\ 1 + i - 1 = i
    BY <1>3
  <2> QED BY <1>6, <1>8, <1>9, <2>1
<1>12. cut[k] = line
  <2>1. k - 1 + 1 = k
    BY <1>3
  <2> QED BY <1>8, <1>9, <2>1
<1>13. cut \in Bytes
  BY <1>3, <1>9, <1>10, EmptySeq DEF Bytes
<1> QED BY <1>3, <1>4, <1>10, <1>11, <1>12, <1>13

(* Of a file cut short, all but the last message are as they were.          *)
LEMMA CutKeepsOthers ==
    ASSUME NEW bytes \in Bytes, NEW cut \in Beginnings(bytes),
           NEW start \in Starts(cut), NEW later \in Starts(cut), start < later
    PROVE  Message(cut, start) \in Messages(bytes)
<1>1. /\ cut \in Bytes
      /\ Len(cut) \in 1 .. Len(bytes) /\ Len(bytes) \in Nat
      /\ \A i \in 1 .. Len(cut) - 1 : cut[i] = bytes[i]
      /\ Separator(cut[Len(cut)]) => Separator(bytes[Len(cut)])
  BY BeginningsType, BytesLength
<1>2. start \in 1 .. Len(cut) /\ later \in 1 .. Len(cut)
  BY <1>1, StartsRange
<1>3. later \in start + 1 .. Len(cut) /\ start \in 1 .. Len(cut) - 1 /\ later # 1
  BY <1>1, <1>2
<1>4. Separator(cut[later]) /\ (start # 1 => Separator(cut[start]))
  BY <1>3 DEF Starts
<1>5. Separator(bytes[later])
  <2>1. CASE later = Len(cut)
    BY <1>1, <1>4, <2>1
  <2>2. CASE later # Len(cut)
    <3>1. later \in 1 .. Len(cut) - 1
      BY <1>1, <1>2, <2>2
    <3> QED BY <1>1, <1>4, <3>1
  <2> QED BY <2>1, <2>2
<1>6. bytes # NoBytes
  <2>1. Len(bytes) # 1
    BY <1>1, <1>3
  <2> QED BY <2>1, SpecialLines
<1>7. start \in Starts(bytes)
  <2>1. Starts(bytes) = {1} \cup {i \in 2 .. Len(bytes) : Separator(bytes[i])}
    BY <1>6 DEF Starts
  <2>2. start = 1 \/ (start \in 2 .. Len(bytes) /\ Separator(bytes[start]))
    <3>1. start \in 1 .. Len(bytes)
      BY <1>1, <1>2
    <3> QED BY <1>1, <1>3, <1>4, <3>1
  <2> QED BY <2>1, <2>2
<1>8. Message(cut, start) = Message(bytes, start)
  <2>1. later <= Len(bytes)
    BY <1>1, <1>2
  <2>2. \A i \in start .. later - 1 : i \in 1 .. Len(cut) - 1
    BY <1>1, <1>2
  <2>3. \A i \in start .. later - 1 : cut[i] = bytes[i]
    BY <1>1, <2>2
  <2> QED BY <1>1, <1>2, <1>3, <1>4, <1>5, <2>1, <2>3, SameUpToSeparator
<1> QED BY <1>7, <1>8 DEF Messages

-----------------------------------------------------------------------------
(* The inductive invariant.                                                 *)

Writing ==
    pc = "writing" =>
        /\ file[Len(file)] = Blank
        /\ Messages(file) = written
        /\ Cardinality(Starts(file)) = count

\* No message is filed twice.
Filing ==
    pc = "filing" =>
        /\ IsFiniteSet(written) /\ Cardinality(written) = count
        /\ written \subseteq emls
        /\ Distinct(todo)
        /\ \A i \in DOMAIN todo : todo[i] \notin written

ExportInv ==
    /\ TypeOK
    /\ archive = Messages(source)
    /\ pc = "idle" => written = {} /\ count = 0
    /\ Writing
    /\ Filing
    /\ RoundTrip
    /\ CountIsMessages
    /\ CutDamagesLast

(* The invariant of the export holds at first.                               *)
LEMMA InitExportInv == Init => ExportInv
<1> SUFFICES ASSUME Init PROVE ExportInv
  OBVIOUS
<1>1. source \in Bytes /\ file \in Bytes /\ archive = Messages(source)
  BY ExportAssumption DEF Init
<1>2. archive \subseteq Bytes
  BY <1>1, MessagesType
<1>3. TypeOK
  BY <1>1, <1>2, EmptySeq DEF Init, TypeOK
<1> QED BY <1>1, <1>3 DEF Init, ExportInv, Writing, Filing, RoundTrip,
                          CountIsMessages, CutDamagesLast

(* Every step keeps it.                                                      *)
LEMMA NextExportInv == ExportInv /\ [Next]_vars => ExportInv'
<1> SUFFICES ASSUME ExportInv, [Next]_vars PROVE ExportInv'
  OBVIOUS
<1>1. TypeOK /\ archive = Messages(source) /\ source \in Bytes /\ file \in Bytes
  BY DEF ExportInv, TypeOK
<1> USE DEF Writing, Filing, RoundTrip, CountIsMessages, CutDamagesLast
<1>2. CASE SelectNothing
  BY <1>2 DEF ExportInv, TypeOK, SelectNothing
<1>3. CASE Select
  <2>1. chosen' \in Seq(archive) /\ todo' \in Seq(archive)
    <3>1. IsFiniteSet(archive)
      BY <1>1, StartsFinite
    <3> QED BY <1>3, <3>1, ChoicesType DEF Select
  <2>2. TypeOK'
    BY <1>1, <1>3, <2>1, SpecialLines DEF Select, TypeOK
  <2>3. Starts(NoBytes) = {} /\ Messages(NoBytes) = {}
    BY DEF Starts, Messages
  <2>4. written = {} /\ count = 0 /\ pc' = "writing" /\ file' = NoBytes
    BY <1>3 DEF Select, ExportInv
  <2>5. Writing'
    BY <1>3, <2>3, <2>4, FS_EmptySet, SpecialLines DEF Select
  <2> QED BY <1>1, <1>3, <2>2, <2>4, <2>5 DEF Select, ExportInv
<1>4. CASE WriteOne
  <2> DEFINE b == Head(todo)
  <2>1. /\ pc = "writing" /\ pc' = "writing"
        /\ file[Len(file)] = Blank
        /\ Messages(file) = written
        /\ Cardinality(Starts(file)) = count
    BY <1>4 DEF WriteOne, ExportInv
  <2>2. b \in archive /\ b \in Bytes /\ Tail(todo) \in Seq(archive)
    BY <1>1, <1>4, HeadTailProperties DEF WriteOne, TypeOK
  <2>3. /\ file' = Extended(file, b)
        /\ count' = count + 1
        /\ written' = written \cup {b}
        /\ todo' = Tail(todo)
        /\ UNCHANGED <<source, archive, blobs, pc, chosen, emls>>
    BY <1>4 DEF WriteOne
  <2> HIDE DEF b
  <2>4. /\ file' \in Bytes
        /\ Len(file') = Len(file) + Len(b) + 1
        /\ file'[Len(file')] = Blank
    <3> DEFINE g == Extended(file, b)
    <3>1. /\ g \in Bytes
          /\ Len(g) = Len(file) + Len(b) + 1
          /\ g[Len(file) + Len(b) + 1] = Blank
      BY <1>1, <2>2, ExtendedLines
    <3>2. file' = g
      BY <2>3
    <3> HIDE DEF g
    <3> QED BY <3>1, <3>2
  <2>5. Messages(file') = written'
    BY <1>1, <2>1, <2>2, <2>3, RecordAddsItsMessage
  <2>6. Cardinality(Starts(file')) = count'
    <3>1. IsFiniteSet(Starts(file))
      BY <1>1, StartsFinite
    <3>2. /\ Starts(file') = Starts(file) \cup {Len(file)}
          /\ Len(file) \notin Starts(file)
      BY <1>1, <2>1, <2>2, <2>3, ExtendedStarts
    <3> QED BY <2>1, <2>3, <3>1, <3>2, FS_AddElement
  <2>7. TypeOK'
    BY <1>1, <2>2, <2>3, <2>4 DEF TypeOK
  <2> QED BY <1>1, <2>1, <2>3, <2>4, <2>5, <2>6, <2>7 DEF ExportInv
<1>5. CASE SkipOne
  <2>1. todo \in Seq(archive) /\ Tail(todo) \in Seq(archive) /\ todo # <<>>
    BY <1>1, <1>5, HeadTailProperties DEF SkipOne, TypeOK
  <2>2. Filing'
    <3>1. CASE pc = "filing"
      BY <1>5, <2>1, <3>1, TailOfDistinct DEF ExportInv, SkipOne
    <3> QED BY <1>5, <3>1 DEF SkipOne
  <2> HIDE DEF Filing
  <2> QED BY <1>5, <2>1, <2>2 DEF ExportInv, TypeOK, SkipOne
<1>6. CASE Return
  BY <1>6 DEF ExportInv, TypeOK, Return
<1>7. CASE Die
  <2>1. Messages(file) = written /\ written \subseteq archive
    BY <1>1, <1>7 DEF Die, ExportInv, TypeOK
  <2>2. file' \in Beginnings(file) /\ file' \in Bytes
    BY <1>1, <1>7, BeginningsType DEF Die
  <2>3. \A start, later \in Starts(file') :
           start < later => Message(file', start) \in archive
    BY <1>1, <2>1, <2>2, CutKeepsOthers
  <2> QED BY <1>7, <2>2, <2>3 DEF ExportInv, TypeOK, Die
<1>8. CASE LoseBlob
  BY <1>8 DEF ExportInv, TypeOK, LoseBlob
<1>9. CASE SelectEml
  <2>1. IsFiniteSet(archive)
    BY <1>1, StartsFinite
  <2>2. PICK seq \in Choices(archive) : chosen' = seq /\ todo' = seq
    BY <1>9 DEF SelectEml
  <2>3. seq \in Seq(archive) /\ Distinct(seq)
    BY <2>1, <2>2, ChoicesType
  <2>4. written = {} /\ count = 0
    BY <1>9 DEF SelectEml, ExportInv
  <2> QED BY <1>9, <2>2, <2>3, <2>4, FS_EmptySet DEF SelectEml, ExportInv, TypeOK
<1>10. CASE WriteEml
  <2> DEFINE b == Head(todo)
  <2>1. /\ pc = "filing" /\ todo \in Seq(archive) /\ todo # <<>>
        /\ Distinct(todo) /\ \A i \in DOMAIN todo : todo[i] \notin written
        /\ IsFiniteSet(written) /\ Cardinality(written) = count
        /\ written \subseteq emls
    BY <1>10 DEF WriteEml, ExportInv, TypeOK
  <2>2. /\ Tail(todo) \in Seq(archive) /\ b \in archive /\ b \notin written
    <3>1. Tail(todo) \in Seq(archive) /\ b = todo[1] /\ Len(todo) \in Nat
      BY <2>1, HeadTailProperties
    <3>2. 1 \in DOMAIN todo
      BY <2>1, EmptySeq
    <3> QED BY <2>1, <3>1, <3>2
  <2>3. /\ emls' = emls \cup {b} /\ count' = count + 1
        /\ written' = written \cup {b} /\ todo' = Tail(todo)
        /\ UNCHANGED <<source, archive, blobs, pc, chosen, file>>
    BY <1>10 DEF WriteEml
  <2>4. /\ Distinct(todo')
        /\ \A i \in DOMAIN todo' : todo'[i] \notin written'
    BY <2>1, <2>3, TailOfDistinct
  <2> HIDE DEF b
  <2>5. IsFiniteSet(written') /\ Cardinality(written') = count'
    BY <2>1, <2>2, <2>3, FS_AddElement
  <2>6. TypeOK'
    BY <1>1, <2>2, <2>3 DEF TypeOK
  <2> QED BY <2>1, <2>3, <2>4, <2>5, <2>6 DEF ExportInv
<1>11. CASE ReturnEml
  BY <1>11 DEF ExportInv, TypeOK, ReturnEml
<1>12. CASE DieEml
  BY <1>12 DEF ExportInv, TypeOK, DieEml
<1>13. CASE UNCHANGED vars
  BY <1>13 DEF ExportInv, TypeOK, vars
<1> QED BY <1>2, <1>3, <1>4, <1>5, <1>6, <1>7, <1>8, <1>9, <1>10, <1>11, <1>12,
           <1>13 DEF Next

(* So it always holds.                                                       *)
LEMMA ExportInvAlways == Spec => []ExportInv
BY InitExportInv, NextExportInv, PTL DEF Spec

(* The state of an export is well formed, for any files and any losses.     *)
THEOREM ExportTypeCorrect == Spec => []TypeOK
BY ExportInvAlways, PTL DEF ExportInv

(* Reading an export yields exactly the messages written to it, for every   *)
(* selection, order and content of messages (docs/runbook.md:226).          *)
THEOREM RoundTripAlways == Spec => []RoundTrip
BY ExportInvAlways, PTL DEF ExportInv

(* export_mbox returns the number of messages a reader finds, export_eml     *)
(* that of the files it has made.                                           *)
THEOREM CountIsMessagesAlways == Spec => []CountIsMessages
BY ExportInvAlways, PTL DEF ExportInv

(* An export that was killed at any byte has at most its last message       *)
(* damaged.                                                                 *)
THEOREM CutDamagesLastAlways == Spec => []CutDamagesLast
BY ExportInvAlways, PTL DEF ExportInv

(***************************************************************************)
(* A whole export, in the file's order, copies the file: what is written   *)
(* is at any time the file up to where one of its messages starts, but for *)
(* the envelope lines.                                                     *)
(***************************************************************************)

\* The file with the exporter's envelope lines in place of its own.
Enveloped(bytes) ==
    [i \in DOMAIN bytes |-> IF i \in Starts(bytes) THEN Envelope ELSE bytes[i]]

\* How many messages start up to a line.
RankOf(bytes, line) == Cardinality({s \in Starts(bytes) : s <= line})

StartsBefore(bytes, line) == {s \in Starts(bytes) : s < line}

FollowsSource ==
    \A start \in Starts(source) :
        chosen[RankOf(source, start)] = Message(source, start)

(* The lines of a file some program framed: a first line that starts a       *)
(* message, and a last one that starts none.                                 *)
LEMMA WellFramedEnds ==
    ASSUME NEW bytes \in Bytes, WellFramed(bytes)
    PROVE  /\ 1 \in Starts(bytes)
           /\ Len(bytes) \notin Starts(bytes)
           /\ \A i \in 1 .. Len(bytes) :
                i \in Starts(bytes) <=> Separator(bytes[i])
<1>1. Len(bytes) \in Nat \ {0}
  BY BytesLength
<1>2. Separator(bytes[1]) /\ ~Separator(bytes[Len(bytes)])
  BY SpecialLines DEF WellFramed
<1>3. bytes # NoBytes
  BY <1>2, SpecialLines
<1>4. Starts(bytes) = {1} \cup {i \in 2 .. Len(bytes) : Separator(bytes[i])}
  BY <1>3 DEF Starts
<1>5. ASSUME NEW i \in 1 .. Len(bytes)
      PROVE  i \in Starts(bytes) <=> Separator(bytes[i])
  <2>1. CASE i = 1
    BY <1>2, <1>4, <2>1
  <2>2. CASE i # 1
    <3>1. i \in 2 .. Len(bytes)
      BY <1>1, <2>2
    <3> QED BY <1>4, <2>2, <3>1
  <2> QED BY <2>1, <2>2
<1>6. 1 \in 1 .. Len(bytes) /\ Len(bytes) \in 1 .. Len(bytes)
  BY <1>1
<1> QED BY <1>2, <1>5, <1>6

(* What a message of such a file is made of: the lines after its start, up  *)
(* to the one before the next start or before the file's last newline.      *)
LEMMA FramedMessage ==
    ASSUME NEW bytes \in Bytes, WellFramed(bytes), NEW n \in Starts(bytes)
    PROVE  \E z \in n + 1 .. Len(bytes) - 1 :
             /\ z + 1 \in Starts(bytes) \cup {Len(bytes)}
             /\ \A i \in n + 1 .. z : i \notin Starts(bytes)
             /\ Len(Message(bytes, n)) = z - n
             /\ \A i \in 1 .. z - n :
                  Requote(Message(bytes, n))[i] = bytes[n + i]
<1> DEFINE m == Len(bytes)
           e == LastLine(bytes, n)
           part == SubSeq(bytes, n, e)
           raw == ReadMessage(bytes, n)
           body == StripEnvelope(raw)
<1>1. /\ m \in Nat /\ n \in 1 .. m /\ n # m
      /\ \A i \in 1 .. m : bytes[i] \in Line
      /\ \A i \in 1 .. m : i \in Starts(bytes) <=> Separator(bytes[i])
      /\ bytes[m] = Blank
  BY BytesLength, StartsRange, WellFramedEnds DEF WellFramed
<1>2. EndsAt(bytes, n, e)
  BY <1>1, LastLineEnds
<1>3. Len(raw) > 2 /\ raw \in Bytes
  BY <1>1, ReadMessageType DEF WellFramed
<1>4. raw = IF e = m THEN part ELSE part \o NoBytes
  BY DEF ReadMessage
<1>5. /\ Requote(Message(bytes, n)) = body
      /\ Message(bytes, n) \in Bytes
      /\ Len(Requote(Message(bytes, n))) = Len(Message(bytes, n))
  BY QuotingSurvives, MessageType, RequoteType
<1>6. body = IF raw[Len(raw)] = Blank THEN SubSeq(raw, 2, Len(raw) - 1) ELSE Tail(raw)
  BY <1>3, BytesLength DEF StripEnvelope
<1>7. e \in n .. m /\ (e = m \/ Separator(bytes[e + 1]))
      /\ \A i \in n + 1 .. e : ~Separator(bytes[i])
  BY <1>2 DEF EndsAt
<1> HIDE DEF e
<1>8. n \in Int /\ e \in Int /\ m \in Int
  BY <1>1, <1>7
<1>9. \A i \in n .. e : bytes[i] \in Line
  BY <1>1, <1>7
<1>10. /\ part \in Seq(Line)
       /\ Len(part) = IF n <= e THEN e - n + 1 ELSE 0
       /\ \A i \in 1 .. e - n + 1 : part[i] = bytes[n + i - 1]
  BY <1>8, <1>9, SubSeqProperties
<1> HIDE DEF part
<1>11. Len(part) = e - n + 1
  BY <1>1, <1>7, <1>10
<1> DEFINE z == IF e = m THEN m - 1 ELSE e
<1>12. /\ Len(raw) = z - n + 2
       /\ raw[Len(raw)] = Blank
       /\ \A i \in 2 .. z - n + 1 : raw[i] = bytes[n + i - 1]
  <2>1. CASE e = m
    <3>1. raw = part /\ z = m - 1
      BY <1>4, <2>1
    <3>2. Len(raw) = z - n + 2
      BY <1>8, <1>11, <2>1, <3>1
    <3>3. Len(raw) \in 1 .. e - n + 1 /\ n + Len(raw) - 1 = m
      BY <1>1, <1>11, <2>1, <3>1
    <3>4. raw[Len(raw)] = bytes[n + Len(raw) - 1]
      BY <1>10, <3>1, <3>3
    <3>5. \A i \in 2 .. z - n + 1 : i \in 1 .. e - n + 1
      BY <1>8, <2>1, <3>1
    <3> QED BY <1>1, <1>10, <3>1, <3>2, <3>3, <3>4, <3>5
  <2>2. CASE e # m
    <3>1. raw = part \o NoBytes /\ z = e
      BY <1>4, <2>2
    <3>2. NoBytes \in Seq(Line) /\ Len(NoBytes) = 1 /\ NoBytes[1] = Blank
      BY SpecialLines DEF Bytes
    <3>a. part \in Seq(Line)
      BY <1>10
    <3>b. NoBytes \in Seq(Line)
      BY <3>2
    <3> HIDE DEF raw
    <3>3. /\ Len(part \o NoBytes) = Len(part) + Len(NoBytes)
          /\ \A i \in 1 .. Len(part) : (part \o NoBytes)[i] = part[i]
          /\ \A i \in 1 .. Len(NoBytes) :
               (part \o NoBytes)[Len(part) + i] = NoBytes[i]
      BY <3>a, <3>b, ConcatParts
    <3>4. /\ Len(raw) = Len(part) + 1
          /\ raw[Len(part) + 1] = Blank
          /\ \A i \in 1 .. Len(part) : raw[i] = part[i]
      BY <3>1, <3>2, <3>3
    <3>5. \A i \in 2 .. z - n + 1 : i \in 1 .. e - n + 1 /\ i \in 1 .. Len(part)
      BY <1>8, <1>11, <3>1
    <3>6. Len(raw) = z - n + 2
      BY <1>8, <1>11, <3>1, <3>4
    <3> QED BY <1>10, <3>4, <3>5, <3>6
  <2> QED BY <2>1, <2>2
<1>13. z \in n + 1 .. m - 1
  <2>1. z \in Int /\ z <= m - 1
    BY <1>7, <1>8
  <2>2. z > n
    <3> HIDE DEF z, raw
    <3> QED BY <1>3, <1>8, <1>12, <2>1
  <2> HIDE DEF z
  <2> QED BY <1>8, <2>1, <2>2
<1>14. z + 1 \in Starts(bytes) \cup {m}
  <2>1. CASE e = m
    BY <1>8, <2>1
  <2>2. CASE e # m
    <3>1. z + 1 = e + 1 /\ e + 1 \in 1 .. m
      BY <1>1, <1>7, <2>2
    <3> QED BY <1>1, <1>7, <2>2, <3>1
  <2> QED BY <2>1, <2>2
<1>15. \A i \in n + 1 .. z : i \notin Starts(bytes)
  <2>1. \A i \in n + 1 .. z : i \in n + 1 .. e /\ i \in 1 .. m
    BY <1>1, <1>7, <1>13
  <2> QED BY <1>1, <1>7, <2>1
<1> HIDE DEF z, raw
<1>16. body = SubSeq(raw, 2, Len(raw) - 1)
  BY <1>6, <1>12
<1>17. /\ Len(body) = z - n
       /\ \A i \in 1 .. z - n : body[i] = bytes[n + i]
  <2>1. 2 \in Int /\ Len(raw) - 1 \in Int /\ Len(raw) - 1 = z - n + 1
    BY <1>8, <1>12, <1>13
  <2>2. \A i \in 2 .. Len(raw) - 1 : raw[i] \in Line
    <3>1. \A i \in 2 .. Len(raw) - 1 : i \in 1 .. Len(raw)
      BY <1>8, <1>12, <1>13
    <3> QED BY <1>3, <3>1, BytesLength
  <2> DEFINE mid == SubSeq(raw, 2, Len(raw) - 1)
  <2>3. /\ Len(mid) = IF 2 <= Len(raw) - 1 THEN Len(raw) - 1 - 2 + 1 ELSE 0
        /\ \A i \in 1 .. Len(raw) - 1 - 2 + 1 : mid[i] = raw[2 + i - 1]
    BY <2>1, <2>2, SubSeqProperties
  <2>4. body = mid
    BY <1>16
  <2> HIDE DEF mid, body
  <2>5. Len(body) = z - n
    BY <1>8, <1>13, <2>1, <2>3, <2>4
  <2>6. ASSUME NEW i \in 1 .. z - n PROVE body[i] = bytes[n + i]
    <3>1. /\ i \in 1 .. Len(raw) - 1 - 2 + 1
          /\ 2 + i - 1 = i + 1 /\ n + (i + 1) - 1 = n + i
          /\ i + 1 \in 2 .. z - n + 1
      BY <1>8, <1>13, <2>1
    <3>2. body[i] = raw[i + 1]
      BY <2>3, <2>4, <3>1
    <3>3. raw[i + 1] = bytes[n + (i + 1) - 1]
      BY <1>12, <3>1
    <3> QED BY <3>1, <3>2, <3>3
  <2> QED BY <2>5, <2>6
<1> HIDE DEF body
<1>18. Len(Message(bytes, n)) = z - n
  BY <1>5, <1>17
<1> QED BY <1>5, <1>13, <1>14, <1>15, <1>17, <1>18

(* A file has no more messages than places where one starts.                 *)
LEMMA AtMostStarts ==
    ASSUME NEW bytes \in Bytes
    PROVE  /\ Cardinality(Messages(bytes)) <= Cardinality(Starts(bytes))
           /\ Cardinality(Messages(bytes)) \in Nat
           /\ Cardinality(Starts(bytes)) \in Nat
<1> DEFINE S == Starts(bytes)
           T == Messages(bytes)
           f == [start \in S |-> Message(bytes, start)]
<1>1. f \in [S -> T] /\ \A b \in T : \E start \in S : f[start] = b
  BY DEF Messages
<1>2. f \in Surjection(S, T)
  BY <1>1 DEF Surjection
<1>3. IsFiniteSet(S) /\ IsFiniteSet(T)
  BY StartsFinite
<1> HIDE DEF S, T, f
<1>4. Cardinality(T) <= Cardinality(S) /\ Cardinality(S) \in Nat /\ Cardinality(T) \in Nat
  BY <1>2, <1>3, FS_Surjection, FS_CardinalityType
<1> QED BY <1>4 DEF S, T

(* The starts up to a start are one more than those before it.               *)
LEMMA RankOfStart ==
    ASSUME NEW bytes \in Bytes, NEW n \in Starts(bytes)
    PROVE  RankOf(bytes, n) = Cardinality(StartsBefore(bytes, n)) + 1
<1>1. \A s \in Starts(bytes) : s \in Nat
  BY StartsRange, BytesLength
<1>2. {s \in Starts(bytes) : s <= n} = StartsBefore(bytes, n) \cup {n}
  BY <1>1 DEF StartsBefore
<1>3. n \notin StartsBefore(bytes, n)
  BY <1>1 DEF StartsBefore
<1>4. IsFiniteSet(StartsBefore(bytes, n))
  <2>1. StartsBefore(bytes, n) \subseteq Starts(bytes)
    BY DEF StartsBefore
  <2> QED BY <2>1, StartsFinite, FS_Subset
<1> QED BY <1>2, <1>3, <1>4, FS_AddElement DEF RankOf

(* If as many starts lie before a line as there are, all of them do.         *)
LEMMA AllBefore ==
    ASSUME NEW bytes \in Bytes, NEW n
    PROVE  /\ Cardinality(StartsBefore(bytes, n)) = Cardinality(Starts(bytes))
                => n \notin Starts(bytes)
           /\ WellFramed(bytes) /\ n = Len(bytes) =>
                Cardinality(StartsBefore(bytes, n)) = Cardinality(Starts(bytes))
<1>1. StartsBefore(bytes, n) \subseteq Starts(bytes)
  BY DEF StartsBefore
<1>2. \A s \in Starts(bytes) : s \in 1 .. Len(bytes) /\ s \in Nat
  BY StartsRange, BytesLength
<1>3. ASSUME Cardinality(StartsBefore(bytes, n)) = Cardinality(Starts(bytes)),
             n \in Starts(bytes)
      PROVE  FALSE
  <2>1. StartsBefore(bytes, n) = Starts(bytes)
    BY <1>1, <1>3, StartsFinite, FS_Subset
  <2> QED BY <1>2, <1>3, <2>1 DEF StartsBefore
<1>4. ASSUME WellFramed(bytes), n = Len(bytes)
      PROVE  StartsBefore(bytes, n) = Starts(bytes)
  <2>1. Len(bytes) \notin Starts(bytes) /\ Len(bytes) \in Nat
    BY <1>4, WellFramedEnds, BytesLength
  <2>2. \A s \in Starts(bytes) : s < n
    BY <1>2, <1>4, <2>1
  <2> QED BY <2>2 DEF StartsBefore
<1> QED BY <1>3, <1>4

-----------------------------------------------------------------------------
(* The invariant of a copy.                                                 *)

\* What is still to do is the end of what was chosen; unless a message was
\* skipped, what was done is the rest of it.
Progress ==
    pc = "writing" =>
        /\ Len(chosen) <= Cardinality(archive)
        /\ count + Len(todo) <= Len(chosen)
        /\ \A i \in 1 .. Len(todo) :
             todo[i] = chosen[Len(chosen) - Len(todo) + i]

\* The output is the source up to where a message starts, or all of it.
CopiedTo(n) ==
    /\ n \in Starts(source) \cup {Len(source)}
    /\ Cardinality(StartsBefore(source, n)) = count
    /\ \A i \in 1 .. n - 1 : file[i] = Enveloped(source)[i]

Copying ==
    /\ pc = "writing"
    /\ WellFramed(source)
    /\ FollowsSource
    /\ count + Len(todo) = Len(chosen)
    => CopiedTo(Len(file))

CopyInv == Progress /\ Copying /\ ByteIdentical

(* A selection is no longer than what there is to select.                    *)
LEMMA ChoicesLength ==
    ASSUME NEW S, IsFiniteSet(S), NEW seq \in Choices(S)
    PROVE  seq \in Seq(S) /\ Len(seq) <= Cardinality(S)
<1>1. Cardinality(S) \in Nat
  BY FS_CardinalityType
<1>2. PICK n \in 0 .. Cardinality(S) : seq \in [1 .. n -> S]
  BY DEF Choices
<1>3. n \in Nat /\ n <= Cardinality(S)
  BY <1>1, <1>2
<1>4. Len(seq) = n /\ seq \in Seq(S)
  BY <1>2, <1>3
<1> QED BY <1>3, <1>4

(* Writing the next message of the source copies its lines.                  *)
LEMMA CopyOne ==
    ASSUME source \in Bytes, file \in Bytes, WellFramed(source), count \in Nat,
           CopiedTo(Len(file)), Len(file) \in Starts(source),
           file' = Extended(file, Message(source, Len(file))),
           count' = count + 1, source' = source
    PROVE  CopiedTo(Len(file))'
<1> DEFINE n == Len(file)
           b == Message(source, n)
           g == Extended(file, b)
<1>1. /\ Len(source) \in Nat \ {0} /\ n \in 1 .. Len(source) /\ n \in Int
      /\ Starts(source) \subseteq 1 .. Len(source)
  BY BytesLength, StartsRange
<1>2. PICK z \in n + 1 .. Len(source) - 1 :
             /\ z + 1 \in Starts(source) \cup {Len(source)}
             /\ \A i \in n + 1 .. z : i \notin Starts(source)
             /\ Len(b) = z - n
             /\ \A i \in 1 .. z - n : Requote(b)[i] = source[n + i]
  BY FramedMessage
<1>3. b \in Bytes
  BY MessageType
<1>4. /\ Len(g) = n + Len(b) + 1
      /\ \A i \in 1 .. n - 1 : g[i] = file[i]
      /\ g[n] = Envelope
      /\ \A i \in 1 .. Len(b) : g[n + i] = Requote(b)[i]
  BY <1>3, ExtendedLines
<1>5. /\ file' = g
      /\ n \in Starts(source)
      /\ Cardinality(StartsBefore(source, n)) = count
      /\ \A i \in 1 .. n - 1 : file[i] = Enveloped(source)[i]
  BY DEF CopiedTo
<1> HIDE DEF g, b, n
<1>6. z \in Int /\ n < z /\ z < Len(source) /\ Len(g) = z + 1
  BY <1>1, <1>2, <1>4
<1>7. Cardinality(StartsBefore(source, z + 1)) = count + 1
  <2>1. StartsBefore(source, z + 1) = StartsBefore(source, n) \cup {n}
    <3>1. ASSUME NEW s \in Starts(source), s < z + 1 PROVE s < n \/ s = n
      <4>1. s \in Nat /\ s \notin n + 1 .. z
        BY <1>1, <1>2, <3>1
      <4> QED BY <1>1, <1>6, <3>1, <4>1
    <3>2. \A s \in Starts(source) : s < n => s < z + 1
      BY <1>1, <1>6
    <3>3. n < z + 1
      BY <1>1, <1>6
    <3> QED BY <1>5, <3>1, <3>2, <3>3 DEF StartsBefore
  <2>2. n \notin StartsBefore(source, n)
    BY <1>1 DEF StartsBefore
  <2>3. IsFiniteSet(StartsBefore(source, n))
    <3>1. StartsBefore(source, n) \subseteq Starts(source)
      BY DEF StartsBefore
    <3> QED BY <3>1, StartsFinite, FS_Subset
  <2> QED BY <1>5, <2>1, <2>2, <2>3, FS_AddElement
<1>8. ASSUME NEW i \in 1 .. z PROVE g[i] = Enveloped(source)[i]
  <2>1. i \in DOMAIN source
    BY <1>1, <1>6, BytesLength
  <2>2. Enveloped(source)[i] = IF i \in Starts(source) THEN Envelope ELSE source[i]
    BY <2>1 DEF Enveloped
  <2>3. CASE i < n
    <3>1. i \in 1 .. n - 1
      BY <1>1, <2>3
    <3> QED BY <1>4, <1>5, <3>1
  <2>4. CASE i = n
    BY <1>4, <1>5, <2>2, <2>4
  <2>5. CASE i > n
    <3>1. i \in n + 1 .. z /\ i - n \in 1 .. z - n /\ n + (i - n) = i
      BY <1>1, <1>6, <2>5
    <3>2. g[i] = source[i]
      BY <1>2, <1>4, <3>1
    <3> QED BY <1>2, <2>2, <3>1, <3>2
  <2> QED BY <1>1, <2>3, <2>4, <2>5
<1>9. \A i \in 1 .. Len(g) - 1 : g[i] = Enveloped(source)[i]
  BY <1>6, <1>8
<1> QED BY <1>2, <1>5, <1>6, <1>7, <1>9 DEF CopiedTo

(* The copy's invariant holds at first.                                      *)
LEMMA InitCopyInv == Init => CopyInv
BY DEF Init, CopyInv, Progress, Copying, ByteIdentical

(* Every step keeps it.                                                      *)
LEMMA NextCopyInv == ExportInv /\ CopyInv /\ [Next]_vars => CopyInv'
<1> SUFFICES ASSUME ExportInv, CopyInv, [Next]_vars PROVE CopyInv'
  OBVIOUS
<1>1. /\ TypeOK /\ archive = Messages(source)
      /\ source \in Bytes /\ file \in Bytes /\ count \in Nat
      /\ todo \in Seq(archive) /\ chosen \in Seq(archive)
      /\ Len(todo) \in Nat /\ Len(chosen) \in Nat
  BY LenProperties DEF ExportInv, TypeOK
<1>2. /\ Cardinality(archive) <= Cardinality(Starts(source))
      /\ Cardinality(archive) \in Nat /\ Cardinality(Starts(source)) \in Nat
  BY <1>1, AtMostStarts
<1>3. CASE Select
  <2>1. PICK seq \in Choices(archive) : chosen' = seq /\ todo' = seq
    BY <1>3 DEF Select
  <2>2. IsFiniteSet(archive)
    BY <1>1, StartsFinite
  <2>3. /\ Len(seq) <= Cardinality(archive) /\ Len(seq) \in Nat
    BY <2>1, <2>2, ChoicesLength, LenProperties
  <2>4. /\ pc' = "writing" /\ file' = NoBytes /\ count' = 0
        /\ source' = source /\ archive' = archive
    BY <1>3 DEF Select, ExportInv
  <2>5. Progress'
    <3>1. \A i \in 1 .. Len(seq) : Len(seq) - Len(seq) + i = i
      BY <2>3
    <3> QED BY <2>1, <2>3, <2>4, <3>1 DEF Progress
  <2>6. ASSUME WellFramed(source) PROVE CopiedTo(Len(file))'
    <3>1. Len(file') = 1 /\ 1 \in Starts(source)
      BY <1>1, <2>4, <2>6, SpecialLines, WellFramedEnds
    <3>2. StartsBefore(source, 1) = {}
      BY <1>1, StartsRange, BytesLength DEF StartsBefore
    <3> QED BY <2>4, <3>1, <3>2, FS_EmptySet DEF CopiedTo
  <2> QED BY <2>4, <2>5, <2>6 DEF CopyInv, Copying, ByteIdentical
<1>4. CASE WriteOne
  <2>1. /\ pc = "writing" /\ todo # <<>> /\ pc' = "writing"
        /\ file' = Extended(file, Head(todo)) /\ count' = count + 1
        /\ todo' = Tail(todo)
        /\ chosen' = chosen /\ source' = source /\ archive' = archive
    BY <1>4 DEF WriteOne
  <2>2. /\ Len(todo) \in Nat \ {0} /\ Head(todo) = todo[1]
        /\ Len(todo') = Len(todo) - 1
        /\ \A i \in 1 .. Len(todo') : todo'[i] = todo[i + 1]
    BY <1>1, <2>1, EmptySeq, HeadTailProperties
  <2>3. /\ Len(chosen) <= Cardinality(archive)
        /\ count + Len(todo) <= Len(chosen)
        /\ \A i \in 1 .. Len(todo) :
             todo[i] = chosen[Len(chosen) - Len(todo) + i]
    BY <2>1 DEF CopyInv, Progress
  <2>4. count' + Len(todo') = count + Len(todo)
    BY <1>1, <2>1, <2>2
  <2>5. ASSUME NEW i \in 1 .. Len(todo')
        PROVE  todo'[i] = chosen[Len(chosen) - Len(todo') + i]
    <3>1. /\ i + 1 \in 1 .. Len(todo)
          /\ Len(chosen) - Len(todo) + (i + 1) = Len(chosen) - (Len(todo) - 1) + i
      BY <1>1, <2>2
    <3> QED BY <2>2, <2>3, <3>1
  <2>6. Progress'
    BY <2>1, <2>3, <2>4, <2>5 DEF Progress
  <2>7. ASSUME WellFramed(source), FollowsSource,
               count' + Len(todo') = Len(chosen)
        PROVE  CopiedTo(Len(file))'
    <3>1. CopiedTo(Len(file))
      BY <2>1, <2>4, <2>7 DEF CopyInv, Copying
    <3>2. Cardinality(StartsBefore(source, Len(file))) = count
      BY <3>1 DEF CopiedTo
    <3>3. count < Cardinality(Starts(source))
      BY <1>1, <1>2, <2>2, <2>3
    <3>4. Len(file) \in Starts(source)
      <4>1. Len(file) # Len(source)
        BY <1>1, <1>2, <2>7, <3>2, <3>3, AllBefore
      <4> QED BY <3>1, <4>1 DEF CopiedTo
    <3>5. RankOf(source, Len(file)) = count + 1
      BY <1>1, <3>2, <3>4, RankOfStart
    <3>6. Head(todo) = chosen[count + 1]
      <4>1. count + Len(todo) = Len(chosen)
        BY <2>4, <2>7
      <4>2. Len(todo) \in Nat \ {0} /\ count \in Nat
        BY <1>1, <2>2
      <4>3. 1 \in 1 .. Len(todo) /\ Len(chosen) - Len(todo) + 1 = count + 1
        BY <4>1, <4>2
      <4> QED BY <2>2, <2>3, <4>3
    <3>7. Head(todo) = Message(source, Len(file))
      BY <2>7, <3>4, <3>5, <3>6 DEF FollowsSource
    <3> QED BY <1>1, <2>1, <2>7, <3>1, <3>4, <3>7, CopyOne
  <2>8. Copying'
    BY <2>1, <2>7 DEF Copying, FollowsSource
  <2> QED BY <2>1, <2>6, <2>8 DEF CopyInv, ByteIdentical
<1>5. CASE SkipOne
  <2>1. /\ todo # <<>> /\ pc' = pc
        /\ file' = file /\ count' = count /\ todo' = Tail(todo)
        /\ chosen' = chosen /\ source' = source /\ archive' = archive
    BY <1>5 DEF SkipOne
  <2>2. /\ Len(todo) \in Nat \ {0}
        /\ Len(todo') = Len(todo) - 1
        /\ \A i \in 1 .. Len(todo') : todo'[i] = todo[i + 1]
    BY <1>1, <2>1, EmptySeq, HeadTailProperties
  <2>3. ASSUME pc = "writing"
        PROVE  /\ Progress'
               /\ count' + Len(todo') # Len(chosen')
    <3>1. /\ Len(chosen) <= Cardinality(archive)
          /\ count + Len(todo) <= Len(chosen)
          /\ \A i \in 1 .. Len(todo) :
               todo[i] = chosen[Len(chosen) - Len(todo) + i]
      BY <2>3 DEF CopyInv, Progress
    <3>2. ASSUME NEW i \in 1 .. Len(todo')
          PROVE  todo'[i] = chosen[Len(chosen) - Len(todo') + i]
      <4>1. /\ i + 1 \in 1 .. Len(todo)
            /\ Len(chosen) - Len(todo) + (i + 1) = Len(chosen) - (Len(todo) - 1) + i
        BY <1>1, <2>2
      <4> QED BY <2>2, <3>1, <4>1
    <3>3. count' + Len(todo') < Len(chosen)
      BY <1>1, <2>1, <2>2, <3>1
    <3>4. count' + Len(todo') <= Len(chosen) /\ count' + Len(todo') # Len(chosen)
      BY <1>1, <2>1, <2>2, <3>3
    <3> QED BY <2>1, <3>1, <3>2, <3>4 DEF Progress
  <2>4. pc # "returned"
    BY <1>5 DEF SkipOne
  <2> QED BY <2>1, <2>3, <2>4 DEF CopyInv, Progress, Copying, ByteIdentical
<1>6. CASE Return
  <2>1. /\ pc = "writing" /\ todo = <<>> /\ pc' = "returned"
        /\ UNCHANGED <<source, archive, blobs, chosen, todo, file, emls, count, written>>
    BY <1>6 DEF Return
  <2>2. ASSUME WellFramed(source), WholeInOrder
        PROVE  file = Enveloped(source)
    <3>1. count = Cardinality(Starts(source)) /\ FollowsSource
      BY <2>2 DEF WholeInOrder, FollowsSource, RankOf
    <3>2. Len(todo) = 0
      BY <2>1, EmptySeq
    <3>3. count + Len(todo) = Len(chosen)
      BY <1>1, <1>2, <2>1, <3>1, <3>2 DEF CopyInv, Progress
    <3>4. CopiedTo(Len(file))
      BY <2>1, <2>2, <3>1, <3>3 DEF CopyInv, Copying
    <3>5. Len(file) = Len(source)
      BY <1>1, <3>1, <3>4, AllBefore DEF CopiedTo
    <3>6. /\ Len(source) \in Nat \ {0} /\ DOMAIN source = 1 .. Len(source)
          /\ \A i \in 1 .. Len(source) : source[i] \in Line
          /\ file \in Seq(Line)
      BY <1>1, BytesLength
    <3>7. \A i \in 1 .. Len(source) :
             Enveloped(source)[i] = IF i \in Starts(source) THEN Envelope ELSE source[i]
      BY <3>6 DEF Enveloped
    <3>8. ASSUME NEW i \in 1 .. Len(file)
          PROVE  file[i] = Enveloped(source)[i]
      <4>1. CASE i = Len(source)
        <5>1. i \notin Starts(source) /\ source[i] = Blank
          BY <1>1, <2>2, <4>1, WellFramedEnds DEF WellFramed
        <5>2. file[i] = Blank
          BY <2>1, <3>5, <4>1 DEF ExportInv, Writing
        <5> QED BY <3>5, <3>7, <5>1, <5>2
      <4>2. CASE i # Len(source)
        <5>1. i \in 1 .. Len(file) - 1
          BY <3>5, <3>6, <4>2
        <5> QED BY <3>4, <5>1 DEF CopiedTo
      <4> QED BY <4>1, <4>2
    <3>9. Enveloped(source) \in Seq(Line) /\ Len(Enveloped(source)) = Len(source)
      <4>1. Enveloped(source) \in [1 .. Len(source) -> Line]
        BY <3>6, SpecialLines DEF Enveloped
      <4> QED BY <3>6, <4>1
    <3> QED BY <3>5, <3>6, <3>8, <3>9, SeqEqual
  <2>3. ByteIdentical'
    BY <2>1, <2>2 DEF ByteIdentical, Enveloped, WholeInOrder
  <2> QED BY <2>1, <2>3 DEF CopyInv, Progress, Copying
<1>7. CASE LoseBlob
  BY <1>7 DEF CopyInv, Progress, Copying, FollowsSource, CopiedTo, ByteIdentical,
              WholeInOrder, LoseBlob
<1>8. CASE UNCHANGED vars
  BY <1>8 DEF CopyInv, Progress, Copying, FollowsSource, CopiedTo, ByteIdentical,
              WholeInOrder, vars
<1>9. CASE SelectNothing \/ Die \/ SelectEml \/ WriteEml \/ ReturnEml \/ DieEml
  <2>1. pc' \notin {"writing", "returned"}
    BY <1>9 DEF SelectNothing, Die, SelectEml, WriteEml, ReturnEml, DieEml
  <2> QED BY <2>1 DEF CopyInv, Progress, Copying, ByteIdentical
<1> QED BY <1>3, <1>4, <1>5, <1>6, <1>7, <1>8, <1>9 DEF Next

(* An mbox file that comes back whole and in its own order comes back byte  *)
(* for byte, but for the envelope lines, whatever lines it is made of       *)
(* (parser.py:164).                                                         *)
THEOREM ByteIdenticalAlways == Spec => []ByteIdentical
<1>1. Spec => [](ExportInv /\ CopyInv)
  BY InitExportInv, NextExportInv, InitCopyInv, NextCopyInv, PTL DEF Spec
<1> QED BY <1>1, PTL DEF CopyInv
=============================================================================
