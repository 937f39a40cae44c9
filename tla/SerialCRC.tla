----------------------------- MODULE SerialCRC ------------------------------
(***************************************************************************)
(* What a CRC object promises, as the textbook has it: a register of        *)
(* obj.width bits, divided by x^width + poly while the message enters one   *)
(* bit at a time, the most significant first.                               *)
(***************************************************************************)
EXTENDS Polynomials

VARIABLES
  obj,     \* the parameters of the object
  rem,     \* the remainder of what was fed
  byte,    \* of the byte being fed, the bits that have not been
  left,    \* how many of them there are
  result   \* the checksum, once reported

vars == <<obj, rem, byte, left, result>>

\* A width below 8 is reported in the high bits of a byte.
Reported(o) == IF o.width < 8 THEN 8 ELSE o.width
Aligned(o, r) == Shift(r, Reported(o) - o.width)

InOrder(o, b) == IF o.reflectData THEN Mirror(b, 8) ELSE b

Checksum(o, r) ==
  LET a == Aligned(o, r)
  IN  Xor(IF o.reflectRemainder THEN Mirror(a, Reported(o)) ELSE a, o.finalXor)
        \cap Below(Reported(o))

Init == rem = {} /\ byte = {} /\ left = 0 /\ result = {}

Reset ==
  /\ left = 0
  /\ rem' = obj.initial \cap Below(obj.width)
  /\ result' = {}
  /\ UNCHANGED <<obj, byte, left>>

Load(b) ==
  /\ left = 0
  /\ byte' = InOrder(obj, b) /\ left' = 8
  /\ UNCHANGED <<obj, rem, result>>

Feed ==
  /\ left > 0
  /\ LET out == obj.width - 1 \in rem
         in  == left - 1 \in byte
     IN  rem' = Xor(Shift(rem, 1), IF out <=> in THEN {} ELSE obj.poly)
                  \cap Below(obj.width)
  /\ byte' = byte \ {left - 1} /\ left' = left - 1
  /\ UNCHANGED <<obj, result>>

Finish ==
  /\ left = 0
  /\ result' = Checksum(obj, rem)
  /\ rem' = {}
  /\ UNCHANGED <<obj, byte, left>>

Next == Reset \/ (\E b \in SUBSET Below(8) : Load(b)) \/ Feed \/ Finish

Spec == Init /\ [][Next]_vars
=============================================================================
