------------------------------ MODULE MbedCRC -------------------------------
(***************************************************************************)
(* mbed::MbedCRC<polynomial, width>: a checksum computed in one call or in  *)
(* parts, bit by bit or through a table of the prebuilt library.            *)
(*                                                                          *)
(* obj holds the template parameters and the members, which never change.   *)
(* The calls are those of a program that follows the documented order:      *)
(* compute_partial_start, any number of compute_partial, and                *)
(* compute_partial_stop; compute() makes one call of each.                  *)
(***************************************************************************)
EXTENDS Polynomials, Sequences

CONSTANTS
  Objects,  \* the objects: template parameters and members
  Bytes,    \* the bytes of the messages
  MaxLen    \* bound: bytes fed between start and stop

ASSUME BytesAssumption == Bytes \subseteq SUBSET Below(8)

ASSUME ObjectsAssumption ==
  Objects \subseteq
    [width : 1 .. 32, poly : SUBSET Below(32), initial : SUBSET Below(32),
     finalXor : SUBSET Below(32), reflectData : BOOLEAN,
     reflectRemainder : BOOLEAN, table : BOOLEAN]

VARIABLES
  obj,        \* the object
  crc,        \* the program's *crc
  pc,         \* fresh, open (started), partial (in compute_partial), final
  p_crc,      \* compute_partial's copy of *crc
  data_byte,  \* its data_byte
  bit,        \* its inner loop: bits of the byte to go, 0 between two bytes
  data,       \* the bytes of its buffer to go
  fed         \* history: the bytes given since the start

vars == <<obj, crc, pc, p_crc, data_byte, bit, data, fed>>

\* A uint32_t and a uint8_t.
Word_Wider(p) == p
Word(p) == p \cap Below(32)
Byte(p) == p \cap Below(8)
Parts == UNION {[1 .. n -> Bytes] : n \in 0 .. MaxLen}

-----------------------------------------------------------------------------
nBits == IF obj.width < 8 THEN 8 ELSE obj.width
TopBit == IF obj.width < 8 THEN 7 ELSE obj.width - 1
Mask == IF obj.width < 8 THEN Below(8) ELSE Below(obj.width)

ReflectRemainder(d) == IF obj.reflectRemainder THEN Mirror(d, nBits) ELSE d
ReflectBytes(d) == IF obj.reflectData THEN Mirror(d, 8) ELSE d

\* The table of the object: for each byte, its remainder, in the high bits
\* where a width below 8 leaves some.
CrcTable(i) ==
  Shift(Remainder(Shift(i, obj.width), obj.width + 8, obj.width, obj.poly),
        nBits - obj.width)

Init ==
  /\ obj \in Objects
  /\ crc = {} /\ pc = "fresh"
  /\ p_crc = {} /\ data_byte = {} /\ bit = 0 /\ data = <<>> /\ fed = <<>>

-----------------------------------------------------------------------------
\* compute_partial_start; also again, before or after a stop.
Start ==
  /\ pc # "partial"
  /\ crc' = obj.initial /\ fed' = <<>>
  /\ pc' = "open"
  /\ UNCHANGED <<obj, p_crc, data_byte, bit, data>>

Partial(buffer) ==
  /\ pc = "open"
  /\ p_crc' = crc /\ data' = buffer /\ data_byte' = {}
  /\ fed' = fed \o buffer
  /\ pc' = "partial"
  /\ UNCHANGED <<obj, crc, bit>>

\* bitwise_compute_partial: the head of the outer loop. A width of 8 or more
\* subtracts the byte from the top of the register at once.
LoadByte ==
  /\ pc = "partial" /\ ~obj.table /\ bit = 0 /\ data # <<>>
  /\ bit' = 8
  /\ IF obj.width < 8
     THEN data_byte' = ReflectBytes(Head(data)) /\ UNCHANGED p_crc
     ELSE /\ p_crc' = Word(Xor(p_crc, Shift(ReflectBytes(Head(data)), obj.width - 8)))
          /\ UNCHANGED data_byte
  /\ UNCHANGED <<obj, crc, pc, data, fed>>

\* The inner loop; a smaller width takes the bits of the byte one by one.
Divide(feedback) ==
  /\ pc = "partial" /\ bit > 0
  /\ p_crc' = Word(Xor(Shift(p_crc, 1), IF feedback THEN obj.poly ELSE {}))
  /\ data_byte' = IF obj.width < 8 THEN Byte(Shift(data_byte, 1)) ELSE data_byte
  /\ bit' = bit - 1
  /\ data' = IF bit = 1 THEN Tail(data) ELSE data
  /\ UNCHANGED <<obj, crc, pc, fed>>

DivideBit_Unshifted ==
  Divide(IF obj.width < 8 THEN TopBit \in Xor(data_byte, p_crc) ELSE TopBit \in p_crc)
DivideBit ==
  Divide(IF obj.width < 8 THEN TopBit \in Xor(data_byte, Shift(p_crc, 1))
                          ELSE TopBit \in p_crc)

\* table_compute_partial: one byte.
TableByteWith(index, rest) ==
  /\ pc = "partial" /\ obj.table /\ data # <<>>
  /\ data_byte' = Byte(Xor(ReflectBytes(Head(data)), index))
  /\ p_crc' = Word(Xor(CrcTable(data_byte'), rest))
  /\ data' = Tail(data)
  /\ UNCHANGED <<obj, crc, pc, bit, fed>>

TableByte_NoRest ==
  TableByteWith(Shift(p_crc, IF obj.width <= 8 THEN 0 ELSE 8 - obj.width), {})
TableByte ==
  IF obj.width <= 8 THEN TableByteWith(p_crc, {})
  ELSE TableByteWith(Shift(p_crc, 8 - obj.width), Shift(p_crc, 8))

Return ==
  /\ pc = "partial" /\ bit = 0 /\ data = <<>>
  /\ crc' = p_crc \cap Mask
  /\ pc' = "open"
  /\ UNCHANGED <<obj, p_crc, data_byte, bit, data, fed>>

StopWith(aligned) ==
  /\ pc = "open"
  /\ crc' = Xor(ReflectRemainder(aligned), obj.finalXor) \cap Mask
  /\ pc' = "final"
  /\ UNCHANGED <<obj, p_crc, data_byte, bit, data, fed>>

Stop_Unaligned == StopWith(crc)
Stop == StopWith(IF obj.width < 8 /\ ~obj.table THEN Word(Shift(crc, 8 - obj.width))
                                                ELSE crc)

Next ==
  \/ Start \/ (\E b \in Parts : Len(fed) + Len(b) <= MaxLen /\ Partial(b))
  \/ LoadByte \/ DivideBit \/ TableByte \/ Return \/ Stop

Spec == Init /\ [][Next]_vars
-----------------------------------------------------------------------------
TypeOK ==
  /\ obj \in Objects
  /\ crc \subseteq Below(32) /\ p_crc \subseteq Below(32)
  /\ data_byte \subseteq Below(8)
  /\ pc \in {"fresh", "open", "partial", "final"}
  /\ bit \in 0 .. 8 /\ (bit > 0 => pc = "partial" /\ data # <<>> /\ ~obj.table)
  /\ data \in Seq(Bytes) /\ fed \in Seq(Bytes)

-----------------------------------------------------------------------------
(***************************************************************************)
(* The bitwise algorithm is the serial one. Between two statements, the     *)
(* register of a width of 8 or more holds the remainder plus the bits of    *)
(* the byte still to be fed; above the width it holds what was shifted out. *)
(***************************************************************************)
ToGo == IF bit = 0 THEN {} ELSE ReflectBytes(Head(data)) \cap Below(bit)

RemainderNow ==
  IF pc = "open" THEN crc \cap Below(obj.width)
  ELSE IF pc = "partial" THEN
    Xor(p_crc, IF obj.width < 8 THEN {} ELSE Shift(ToGo, obj.width - bit))
      \cap Below(obj.width)
  ELSE {}

Serial == INSTANCE SerialCRC
            WITH rem <- RemainderNow, byte <- ToGo, left <- bit,
                 result <- IF pc = "final" THEN crc ELSE {}

\* Without a table, every step of the code, for every width from 7 to 32, is a
\* step of the serial division or none: the byte added to the top of the register
\* at once, the bits left above the width, the masks of a partial result and the
\* alignment of a width below 8 do not show in what is reported.
DividesSerially ==
  (obj.table \/ Serial!Init) /\ [][obj.table \/ Serial!Next]_(Serial!vars)

\* What the class is for: the checksum reported is the one of the definition,
\* the remainder of the whole message times x^width, with the initial value
\* added to its first bits, whatever parts the message came in.
Message ==
  UNION {Shift(Serial!InOrder(obj, fed[i]), 8 * (Len(fed) - i)) : i \in DOMAIN fed}

Definition ==
  LET n == 8 * Len(fed)
      dividend == Xor(Shift(Message, obj.width),
                      Shift(obj.initial \cap Below(obj.width), n))
  IN  Remainder(dividend, n + obj.width, obj.width, obj.poly)

RightChecksum == pc = "final" => crc = Serial!Checksum(obj, Definition)
=============================================================================
