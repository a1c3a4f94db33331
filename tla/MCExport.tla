-------------------------------- MODULE MCExport --------------------------------
EXTENDS Export

Words == OtherLine("x")

Kinds == {Blank, Words} \cup {FromLine(n, NoText) : n \in 0 .. 2}

\* Every file of at most five lines.
Files == UNION {[1 .. n -> Kinds] : n \in 1 .. 5}

\* No file, or an earlier export.
Earlier == {NoBytes, Extended(NoBytes, <<Words>>)}
=============================================================================
