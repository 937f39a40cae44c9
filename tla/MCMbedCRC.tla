----------------------------- MODULE MCMbedCRC ------------------------------
EXTENDS MbedCRC

\* POLY_7BIT_SD, POLY_8BIT_CCITT, POLY_16BIT_CCITT, POLY_16BIT_IBM and
\* POLY_32BIT_ANSI.
Sd7    == {3, 0}
Ccitt8 == {2, 1, 0}
Ccitt16 == {12, 5, 0}
Ibm16  == {15, 2, 0}
Ansi32 == {26, 23, 22, 16, 12, 11, 10, 8, 7, 5, 4, 2, 1, 0}

Object(w, p, i, f, rd, rr, t) ==
  [width |-> w, poly |-> p, initial |-> i, finalXor |-> f,
   reflectData |-> rd, reflectRemainder |-> rr, table |-> t]

\* The four-argument constructor: supported polynomials and others, initial
\* values wider than the register, each combination of reflections.
Bitwise ==
  {Object(7, Sd7, {}, {}, FALSE, FALSE, FALSE),
   Object(7, {6, 4, 0}, Below(7), {0, 3}, TRUE, TRUE, FALSE),
   Object(8, Ccitt8, Below(32), {6, 4, 2, 0}, FALSE, TRUE, FALSE),
   Object(9, {8, 3, 0}, {8, 1}, {}, TRUE, FALSE, FALSE),
   Object(16, Ccitt16, Below(16), {}, FALSE, FALSE, FALSE),
   Object(32, Ansi32, Below(32), Below(32), TRUE, TRUE, FALSE)}

\* The polynomials with a table; with one, an initial value of width 7 is in
\* the high bits.
Tables ==
  {Object(7, Sd7, {}, {}, FALSE, FALSE, TRUE),
   Object(8, Ccitt8, Below(8), {0}, FALSE, TRUE, TRUE),
   Object(16, Ccitt16, Below(16), {}, TRUE, FALSE, TRUE),
   Object(16, Ibm16, {}, {}, TRUE, TRUE, TRUE),
   Object(32, Ansi32, Below(32), Below(32), TRUE, TRUE, TRUE)}

WithAndWithout == Bitwise \cup Tables

\* CRC-5/USB, a width the constructor accepts.
Narrow == {Object(5, {2, 0}, Below(5), Below(5), TRUE, TRUE, FALSE)}

\* 0x31 and 0xF7; 0x00 and 0x80.
TwoBytes == {{5, 4, 0}, {7, 6, 5, 4, 2, 1, 0}}
FourBytes == TwoBytes \cup {{}, {7}}
=============================================================================
