--------------------------- MODULE MbedCRCProofs ----------------------------
(***************************************************************************)
(* The bitwise algorithm of MbedCRC implements the serial division of the   *)
(* textbook, for every width from 7 to 32, every polynomial, initial value, *)
(* final value and reflection, and every message in any parts; and what it  *)
(* reports, with a table or without, is the remainder the definition gives  *)
(* to the whole message. The second part needs what long division does to a *)
(* dividend that grows, an induction over its terms.                        *)
(***************************************************************************)
EXTENDS MbedCRC, WellFoundedInduction, TLAPS

-----------------------------------------------------------------------------
(***************************************************************************)
(* Membership in the sets the words are made of.                           *)
(***************************************************************************)
LEMMA InXor ==
  ASSUME NEW p, NEW q, NEW e
  PROVE  e \in Xor(p, q) <=> ~(e \in p <=> e \in q)
BY DEF Xor

LEMMA InShift ==
  ASSUME NEW p \in SUBSET Int, NEW n \in Int, NEW e \in Int
  PROVE  e \in Shift(p, n) <=> e - n \in p
<1>1. ASSUME e \in Shift(p, n) PROVE e - n \in p
  <2>1. PICK d \in p : e = d + n
    BY <1>1 DEF Shift
  <2>2. e - n = d
    BY <2>1
  <2>. QED
    BY <2>1, <2>2
<1>2. ASSUME e - n \in p PROVE e \in Shift(p, n)
  <2>1. e = (e - n) + n
    OBVIOUS
  <2>. QED
    BY <1>2, <2>1 DEF Shift
<1>. QED
  BY <1>1, <1>2

LEMMA InMirror ==
  ASSUME NEW p, NEW n \in Int, NEW e \in Int
  PROVE  e \in Mirror(p, n) <=> (n - 1 - e \in p /\ e \in Below(n))
<1>1. ASSUME e \in Mirror(p, n) PROVE n - 1 - e \in p /\ e \in Below(n)
  <2>1. PICK d \in p \cap Below(n) : e = n - 1 - d
    BY <1>1 DEF Mirror
  <2>2. d \in Int /\ n - 1 - e = d /\ e \in Below(n)
    BY <2>1 DEF Below
  <2>. QED
    BY <2>1, <2>2
<1>2. ASSUME n - 1 - e \in p, e \in Below(n) PROVE e \in Mirror(p, n)
  <2>1. n - 1 - e \in Below(n) /\ e = n - 1 - (n - 1 - e)
    BY <1>2 DEF Below
  <2>. QED
    BY <1>2, <2>1 DEF Mirror
<1>. QED
  BY <1>1, <1>2

LEMMA ShiftInt ==
  ASSUME NEW p \in SUBSET Int, NEW n \in Int
  PROVE  Shift(p, n) \in SUBSET Int
BY DEF Shift

LEMMA MirrorInside ==
  ASSUME NEW p, NEW n \in Int
  PROVE  Mirror(p, n) \subseteq Below(n)
BY DEF Mirror, Below

LEMMA XorInt ==
  ASSUME NEW p \in SUBSET Int, NEW q \in SUBSET Int
  PROVE  Xor(p, q) \in SUBSET Int
BY DEF Xor

-----------------------------------------------------------------------------
(***************************************************************************)
(* Type correctness.                                                       *)
(***************************************************************************)
LEMMA ObjectType ==
  ASSUME NEW o \in Objects
  PROVE  /\ o.width \in 1 .. 32
         /\ o.poly \subseteq Below(32)
         /\ o.initial \subseteq Below(32)
         /\ o.finalXor \subseteq Below(32)
         /\ o.reflectData \in BOOLEAN
         /\ o.reflectRemainder \in BOOLEAN
         /\ o.table \in BOOLEAN
BY ObjectsAssumption

LEMMA MaskInWord ==
  ASSUME TypeOK
  PROVE  Mask \subseteq Below(32)
<1>1. obj.width \in 1 .. 32
  BY ObjectType DEF TypeOK
<1>. QED
  BY <1>1 DEF Mask, Below

LEMMA PartsType ==
  ASSUME NEW b \in Parts
  PROVE  b \in Seq(Bytes)
BY DEF Parts

LEMMA InitType == Init => TypeOK
BY DEF Init, TypeOK, Below

LEMMA NextType ==
  ASSUME TypeOK, [Next]_vars
  PROVE  TypeOK'
<1>1. CASE Start
  BY <1>1, ObjectType DEF Start, TypeOK
<1>2. ASSUME NEW b \in Parts, Partial(b) PROVE TypeOK'
  BY <1>2, PartsType DEF Partial, TypeOK, Below
<1>3. CASE LoadByte
  <2>1. ReflectBytes(Head(data)) \subseteq Below(8)
    <3>1. Head(data) \in Bytes
      BY <1>3 DEF LoadByte, TypeOK
    <3>2. Head(data) \subseteq Below(8)
      BY <3>1, BytesAssumption
    <3>. QED
      BY <3>2, MirrorInside DEF ReflectBytes
  <2>2. p_crc' \subseteq Below(32) /\ data_byte' \subseteq Below(8)
    BY <1>3, <2>1 DEF LoadByte, TypeOK, Word
  <2>. QED
    BY <1>3, <2>2 DEF LoadByte, TypeOK
<1>4. CASE DivideBit
  <2>1. PICK f : Divide(f)
    BY <1>4 DEF DivideBit
  <2>2. p_crc' \subseteq Below(32) /\ data_byte' \subseteq Below(8)
    BY <2>1 DEF Divide, TypeOK, Word, Byte
  <2>3. data' \in Seq(Bytes) /\ bit' \in 0 .. 8 /\ (bit' > 0 => data' # <<>>)
    BY <2>1 DEF Divide, TypeOK
  <2>. QED
    BY <2>1, <2>2, <2>3 DEF Divide, TypeOK
<1>5. CASE TableByte
  <2>1. PICK i, r : TableByteWith(i, r)
    BY <1>5 DEF TableByte
  <2>2. p_crc' \subseteq Below(32) /\ data_byte' \subseteq Below(8)
    BY <2>1 DEF TableByteWith, TypeOK, Word, Byte
  <2>. QED
    BY <2>1, <2>2 DEF TableByteWith, TypeOK
<1>6. CASE Return
  BY <1>6 DEF Return, TypeOK
<1>7. CASE Stop
  <2>1. PICK a : StopWith(a)
    BY <1>7 DEF Stop
  <2>2. crc' \subseteq Below(32)
    BY <2>1, MaskInWord DEF StopWith
  <2>. QED
    BY <2>1, <2>2 DEF StopWith, TypeOK
<1>8. CASE UNCHANGED vars
  BY <1>8 DEF vars, TypeOK
<1>. QED
  BY <1>1, <1>2, <1>3, <1>4, <1>5, <1>6, <1>7, <1>8 DEF Next

\* The registers stay in the widths of their types, in every call order.
THEOREM TypeCorrect == Spec => []TypeOK
<1>1. Init => TypeOK
  BY InitType
<1>2. TypeOK /\ [Next]_vars => TypeOK'
  BY NextType
<1>. QED
  BY <1>1, <1>2, PTL DEF Spec
-----------------------------------------------------------------------------
(***************************************************************************)
(* The algebra of one bit. w is the width, k the bits of the byte to go and *)
(* t those of them that are 1; g is what is subtracted.                     *)
(***************************************************************************)
Divided(r, g, w) == Xor(Shift(r, 1), g) \cap Below(w)
Register(p, t, k, w) == Xor(p, Shift(t, w - k)) \cap Below(w)

\* The register of a width of 8 or more holds the bits to go at its top.
LEMMA WideStep ==
  ASSUME NEW w \in 8 .. 32, NEW k \in 1 .. 8,
         NEW t \in SUBSET Below(k), NEW p \in SUBSET Below(32),
         NEW g \in SUBSET Int
  PROVE  Register(Word(Xor(Shift(p, 1), g)), t \ {k - 1}, k - 1, w)
           = Divided(Register(p, t, k, w), g, w)
<1>. DEFINE r == Xor(p, Shift(t, w - k)) \cap Below(w)
            lhs == Xor(Word(Xor(Shift(p, 1), g)), Shift(t \ {k - 1}, w - (k - 1)))
            rhs == Xor(Shift(r, 1), g)
<1>1. ASSUME NEW e \in Below(w) PROVE e \in lhs <=> e \in rhs
  <2>1. e \in Int /\ e \in Below(32) /\ e < w
    BY DEF Below
  <2>2. p \in SUBSET Int /\ t \in SUBSET Int /\ r \in SUBSET Int
    BY DEF Below
  <2>3. e \in Word(Xor(Shift(p, 1), g)) <=> ~(e - 1 \in p <=> e \in g)
    BY <2>1, <2>2, InXor, InShift DEF Word
  <2>4. e \in Shift(t \ {k - 1}, w - (k - 1)) <=> e - (w - (k - 1)) \in t \ {k - 1}
    BY <2>1, <2>2, InShift
  <2>5. e - (w - (k - 1)) # k - 1 /\ e - (w - (k - 1)) = (e - 1) - (w - k)
    BY <2>1
  <2>6. e \in Shift(r, 1) <=> e - 1 \in r
    BY <2>1, <2>2, InShift
  <2>7. e - 1 \in Xor(p, Shift(t, w - k))
          <=> ~(e - 1 \in p <=> (e - 1) - (w - k) \in t)
    BY <2>1, <2>2, InXor, InShift
  <2>8. CASE e = 0
    <3>1. e - 1 \notin p /\ e - 1 \notin r /\ (e - 1) - (w - k) \notin t
      BY <2>8 DEF Below
    <3>. QED
      BY <2>3, <2>4, <2>5, <2>6, <3>1, InXor
  <2>9. CASE e # 0
    <3>1. e - 1 \in Below(w)
      BY <2>1, <2>9 DEF Below
    <3>2. e - 1 \in r <=> ~(e - 1 \in p <=> (e - 1) - (w - k) \in t)
      BY <2>7, <3>1
    <3>. QED
      BY <2>3, <2>4, <2>5, <2>6, <3>2, InXor
  <2>. QED
    BY <2>8, <2>9
<1>. HIDE DEF lhs, rhs
<1>2. lhs \cap Below(w) = rhs \cap Below(w)
  BY <1>1
<1>. QED
  BY <1>2 DEF lhs, rhs, Register, Divided

\* Its top bit is what the division puts out, less what enters.
LEMMA WideFeedback ==
  ASSUME NEW w \in 8 .. 32, NEW k \in 1 .. 8,
         NEW t \in SUBSET Below(k), NEW p \in SUBSET Below(32)
  PROVE  w - 1 \in p
           <=> ~(w - 1 \in Xor(p, Shift(t, w - k)) \cap Below(w) <=> k - 1 \in t)
<1>1. w - 1 \in Below(w) /\ w - 1 \in Int /\ (w - 1) - (w - k) = k - 1
  BY DEF Below
<1>2. t \in SUBSET Int
  BY DEF Below
<1>3. w - 1 \in Shift(t, w - k) <=> k - 1 \in t
  BY <1>1, <1>2, InShift
<1>. QED
  BY <1>1, <1>3, InXor

\* Width 7: the bits above the register do not reach it.
LEMMA NarrowStep ==
  ASSUME NEW w \in 1 .. 32, NEW p \in SUBSET Below(32), NEW g \in SUBSET Int
  PROVE  Xor(Word(Xor(Shift(p, 1), g)), {}) \cap Below(w)
           = Xor(Shift(Xor(p, {}) \cap Below(w), 1), g) \cap Below(w)
<1>. DEFINE r == p \cap Below(w)
<1>1. ASSUME NEW e \in Below(w)
      PROVE  e \in Word(Xor(Shift(p, 1), g)) <=> e \in Xor(Shift(r, 1), g)
  <2>1. e \in Int /\ e \in Below(32)
    BY DEF Below
  <2>2. p \in SUBSET Int /\ r \in SUBSET Int
    BY DEF Below
  <2>3. e - 1 \in p <=> e - 1 \in r
    BY DEF Below
  <2>. QED
    BY <2>1, <2>2, <2>3, InXor, InShift DEF Word
<1>2. Word(Xor(Shift(p, 1), g)) \cap Below(w) = Xor(Shift(r, 1), g) \cap Below(w)
  BY <1>1
<1>3. \A x : Xor(x, {}) = x
  BY DEF Xor
<1>. HIDE DEF r
<1>. QED
  BY <1>2, <1>3 DEF r

\* Its feedback compares the bit shifted out with the top of data_byte.
LEMMA NarrowFeedback ==
  ASSUME NEW k \in 1 .. 8, NEW t \in SUBSET Below(k), NEW p \in SUBSET Below(32)
  PROVE  7 \in Xor(Shift(t, 8 - k), Shift(p, 1))
           <=> ~(6 \in Xor(p, {}) \cap Below(7) <=> k - 1 \in t)
<1>1. p \in SUBSET Int /\ t \in SUBSET Int
  BY DEF Below
<1>2. 7 \in Shift(p, 1) <=> 6 \in p
  BY <1>1, InShift
<1>3. 7 - (8 - k) = k - 1
  OBVIOUS
<1>4. 7 \in Shift(t, 8 - k) <=> k - 1 \in t
  BY <1>1, <1>3, InShift
<1>5. 6 \in Xor(p, {}) \cap Below(7) <=> 6 \in p
  BY DEF Xor, Below
<1>. QED
  BY <1>2, <1>4, <1>5, InXor
-----------------------------------------------------------------------------
(***************************************************************************)
(* The refinement. data_byte holds the bits to go at its top, for the       *)
(* smaller widths that use it.                                              *)
(***************************************************************************)
WideEnough == \A o \in Objects : o.table \/ o.width >= 7

DataByteInv == obj.table \/ obj.width >= 8 \/ data_byte = Shift(ToGo, 8 - bit)

LEMMA Context ==
  ASSUME TypeOK, WideEnough, ~obj.table
  PROVE  /\ obj.width \in 7 .. 32 /\ ~obj.table
         /\ obj.poly \in SUBSET Int /\ obj.initial \in SUBSET Int
         /\ obj.finalXor \in SUBSET Int
         /\ obj.reflectData \in BOOLEAN /\ obj.reflectRemainder \in BOOLEAN
<1>1. obj \in Objects
  BY DEF TypeOK
<1>2. ~obj.table /\ obj.width >= 7
  BY <1>1 DEF WideEnough
<1>. QED
  BY <1>1, <1>2, ObjectType DEF Below

LEMMA HeadType ==
  ASSUME TypeOK, data # <<>>
  PROVE  Head(data) \in SUBSET Below(8) /\ ReflectBytes(Head(data)) \in SUBSET Below(8)
<1>1. Head(data) \in Bytes
  BY DEF TypeOK
<1>2. Head(data) \in SUBSET Below(8)
  BY <1>1, BytesAssumption
<1>. QED
  BY <1>2, MirrorInside DEF ReflectBytes

LEMMA ToGoType ==
  ASSUME TypeOK
  PROVE  ToGo \in SUBSET Below(bit) /\ (bit = 0 => ToGo = {})
BY DEF ToGo, TypeOK, Below

LEMMA EmptyShift == \A n : Shift({}, n) = {}
BY DEF Shift

LEMMA XorEmpty == \A p : Xor(p, {}) = p
BY DEF Xor

LEMMA ShiftZero == ASSUME NEW p \in SUBSET Int PROVE Shift(p, 0) = p
<1>1. ASSUME NEW e \in Int PROVE e \in Shift(p, 0) <=> e \in p
  BY InShift
<1>2. Shift(p, 0) \in SUBSET Int
  BY ShiftInt
<1>3. \A e : e \in Shift(p, 0) <=> e \in p
  BY <1>1, <1>2
<1>. QED
  BY <1>3

\* The byte loop: data_byte loses its top bit.
LEMMA DropTop ==
  ASSUME NEW k \in 1 .. 8, NEW t \in SUBSET Below(k)
  PROVE  Byte(Shift(Shift(t, 8 - k), 1)) = Shift(t \ {k - 1}, 8 - (k - 1))
<1>. DEFINE lhs == Shift(Shift(t, 8 - k), 1)
            rhs == Shift(t \ {k - 1}, 8 - (k - 1))
<1>1. t \in SUBSET Int /\ Shift(t, 8 - k) \in SUBSET Int
  BY ShiftInt DEF Below
<1>2. ASSUME NEW e \in Int PROVE e \in Byte(lhs) <=> e \in rhs
  <2>1. e \in lhs <=> (e - 1) - (8 - k) \in t
    BY <1>1, InShift
  <2>2. e \in rhs <=> e - (8 - (k - 1)) \in t \ {k - 1}
    BY <1>1, InShift
  <2>3. (e - 1) - (8 - k) = e - (8 - (k - 1))
    OBVIOUS
  <2>4. e - (8 - (k - 1)) \in t => e - (8 - (k - 1)) \in Below(k)
    OBVIOUS
  <2>5. e - (8 - (k - 1)) \in Below(k) =>
          (e \in Below(8) <=> e - (8 - (k - 1)) # k - 1)
    BY DEF Below
  <2>. HIDE DEF lhs, rhs
  <2>. QED
    BY <2>1, <2>2, <2>3, <2>4, <2>5 DEF Byte
<1>3. lhs \in SUBSET Int /\ rhs \in SUBSET Int
  BY <1>1, ShiftInt
<1>. HIDE DEF lhs, rhs
<1>4. Byte(lhs) \in SUBSET Int
  BY <1>3 DEF Byte
<1>5. Byte(lhs) = rhs
  BY <1>2, <1>3, <1>4
<1>. QED
  BY <1>5 DEF lhs, rhs

LEMMA ToGoNext ==
  ASSUME TypeOK, NEW f, Divide(f)
  PROVE  ToGo' = ToGo \ {bit - 1}
<1>1. bit \in 1 .. 8 /\ bit' = bit - 1 /\ obj' = obj
  BY DEF Divide, TypeOK
<1>2. CASE bit = 1
  <2>1. ToGo' = {}
    BY <1>1, <1>2 DEF ToGo
  <2>2. ToGo \subseteq {0}
    BY <1>1, <1>2 DEF ToGo, Below
  <2>. QED
    BY <1>2, <2>1, <2>2
<1>3. CASE bit # 1
  <2>1. data' = data
    BY <1>3 DEF Divide
  <2>2. ReflectBytes(Head(data))' = ReflectBytes(Head(data))
    BY <1>1, <2>1 DEF ReflectBytes
  <2>3. Below(bit - 1) = Below(bit) \ {bit - 1}
    BY <1>1 DEF Below
  <2>4. ToGo = ReflectBytes(Head(data)) \cap Below(bit)
    BY <1>1 DEF ToGo
  <2>5. ToGo' = ReflectBytes(Head(data)) \cap Below(bit - 1)
    BY <1>1, <1>3, <2>2 DEF ToGo
  <2>. QED
    BY <2>3, <2>4, <2>5
<1>. QED
  BY <1>2, <1>3

LEMMA DataByteNext ==
  ASSUME TypeOK, WideEnough, ~obj.table, DataByteInv, [Next]_vars
  PROVE  DataByteInv'
<1>. SUFFICES ASSUME ~(obj'.width >= 8) PROVE data_byte' = Shift(ToGo', 8 - bit')
  BY DEF DataByteInv
<1>0. obj' = obj /\ obj.width < 8 /\ data_byte = Shift(ToGo, 8 - bit)
  <2>1. obj' = obj
    BY DEF Next, Start, Partial, LoadByte, DivideBit, Divide, TableByte,
           TableByteWith, Return, Stop, StopWith, vars
  <2>2. obj.width \in 7 .. 32 /\ ~obj.table
    BY Context
  <2>. QED
    BY <2>1, <2>2 DEF DataByteInv
<1>1. CASE Start \/ Return \/ Stop \/ UNCHANGED vars
  <2>1. UNCHANGED <<obj, data_byte, bit, data>>
    BY <1>1 DEF Start, Return, Stop, StopWith, vars
  <2>2. UNCHANGED ToGo
    BY <2>1 DEF ToGo, ReflectBytes
  <2>. QED
    BY <1>0, <2>1, <2>2
<1>2. ASSUME NEW b \in Parts, Partial(b) PROVE data_byte' = Shift(ToGo', 8 - bit')
  <2>1. bit = 0 /\ bit' = 0 /\ data_byte' = {}
    BY <1>2 DEF Partial, TypeOK
  <2>. QED
    BY <2>1, EmptyShift DEF ToGo
<1>3. CASE LoadByte
  <2>1. bit' = 8 /\ data' = data /\ data # <<>> /\ data_byte' = ReflectBytes(Head(data))
    BY <1>0, <1>3 DEF LoadByte
  <2>2. ReflectBytes(Head(data))' = ReflectBytes(Head(data))
    BY <1>0, <2>1 DEF ReflectBytes
  <2>3. ToGo' = ReflectBytes(Head(data))
    BY <2>1, <2>2, HeadType DEF ToGo
  <2>4. ReflectBytes(Head(data)) \in SUBSET Int
    BY <2>1, HeadType DEF Below
  <2>5. data_byte' = Shift(ToGo', 0)
    BY <2>1, <2>3, <2>4, ShiftZero
  <2>. QED
    BY <2>1, <2>5
<1>4. CASE DivideBit
  <2>1. PICK f : Divide(f)
    BY <1>4 DEF DivideBit
  <2>2. bit \in 1 .. 8 /\ bit' = bit - 1 /\ data_byte' = Byte(Shift(data_byte, 1))
    BY <1>0, <2>1 DEF Divide, TypeOK
  <2>3. ToGo' = ToGo \ {bit - 1}
    BY <2>1, ToGoNext
  <2>. QED
    BY <1>0, <2>2, <2>3, ToGoType, DropTop
<1>5. CASE TableByte
  BY <1>5, Context DEF TableByte, TableByteWith
<1>. QED
  BY <1>1, <1>2, <1>3, <1>4, <1>5 DEF Next
-----------------------------------------------------------------------------
\* A byte that is added to the top of the register and to the bits to go.
LEMMA WideLoad ==
  ASSUME NEW w \in 8 .. 32, NEW b \in SUBSET Below(8), NEW p \in SUBSET Below(32)
  PROVE  Xor(Word(Xor(p, Shift(b, w - 8))), Shift(b, w - 8)) \cap Below(w)
           = p \cap Below(w)
<1>. DEFINE s == Shift(b, w - 8)
<1>1. \A e \in Below(w) : e \in Below(32)
  BY DEF Below
<1>. HIDE DEF s
<1>2. ASSUME NEW e \in Below(w)
      PROVE  e \in Xor(Word(Xor(p, s)), s) <=> e \in p
  BY <1>1, InXor DEF Word
<1>3. Xor(Word(Xor(p, s)), s) \cap Below(w) = p \cap Below(w)
  BY <1>2
<1>. QED
  BY <1>3 DEF s

\* What is reported depends on the register alone, not on the bits above it.
LEMMA StopReports ==
  ASSUME TypeOK, WideEnough, ~obj.table,
         NEW p \in SUBSET Below(32)
  PROVE  Xor(ReflectRemainder(IF obj.width < 8 THEN Word(Shift(p, 8 - obj.width)) ELSE p),
             obj.finalXor) \cap Mask
           = Serial!Checksum(obj, p \cap Below(obj.width))
<1>. DEFINE w == obj.width
            a == IF w < 8 THEN Word(Shift(p, 8 - w)) ELSE p
            r == Serial!Aligned(obj, p \cap Below(w))
<1>1. w \in 7 .. 32 /\ p \in SUBSET Int /\ p \cap Below(w) \in SUBSET Int
  BY Context DEF Below
<1>2. nBits \in 8 .. 32 /\ Serial!Reported(obj) = nBits /\ Mask = Below(nBits)
  <2>1. CASE w < 8
    BY <1>1, <2>1 DEF nBits, Mask, Serial!Reported
  <2>2. CASE ~(w < 8)
    BY <1>1, <2>2 DEF nBits, Mask, Serial!Reported
  <2>. QED
    BY <2>1, <2>2
<1>3. ASSUME NEW e \in Below(nBits) PROVE e \in a <=> e \in r
  <2>1. e \in Int /\ e \in Below(32)
    BY <1>2 DEF Below
  <2>2. Serial!Aligned(obj, p \cap Below(w)) = Shift(p \cap Below(w), nBits - w)
    BY <1>2 DEF Serial!Aligned, Serial!Shift, Shift
  <2>3. e \in r <=> e - (nBits - w) \in p \cap Below(w)
    BY <1>1, <1>2, <2>1, <2>2, InShift
  <2>4. CASE w < 8
    <3>1. w = 7 /\ nBits = 8
      BY <1>1, <2>4 DEF nBits
    <3>2. e \in a <=> e - 1 \in p
      BY <1>1, <2>1, <2>4, <3>1, InShift DEF Word
    <3>3. e - 1 \in p => e - 1 \in Below(w)
      BY <2>1, <3>1 DEF Below
    <3>. QED
      BY <2>3, <3>1, <3>2, <3>3
  <2>5. CASE ~(w < 8)
    <3>1. w = nBits /\ e - (nBits - w) = e
      BY <1>1, <2>1, <2>5 DEF nBits
    <3>. QED
      BY <2>3, <2>5, <3>1
  <2>. QED
    BY <2>4, <2>5
<1>. HIDE DEF a, r, w
<1>4. Mirror(a, nBits) = Mirror(r, nBits)
  BY <1>3 DEF Mirror
<1>5. ASSUME NEW e \in Below(nBits), NEW x, NEW y, e \in x <=> e \in y
      PROVE  e \in Xor(x, obj.finalXor) <=> e \in Xor(y, obj.finalXor)
  BY <1>5, InXor
<1>6. ASSUME NEW e \in Below(nBits)
      PROVE  e \in ReflectRemainder(a)
               <=> e \in (IF obj.reflectRemainder THEN Mirror(r, nBits) ELSE r)
  BY <1>3, <1>4 DEF ReflectRemainder
<1>7. Xor(ReflectRemainder(a), obj.finalXor) \cap Below(nBits)
        = Xor(IF obj.reflectRemainder THEN Mirror(r, nBits) ELSE r, obj.finalXor)
            \cap Below(nBits)
  BY <1>5, <1>6
<1>8. Serial!Checksum(obj, p \cap Below(w))
        = Xor(IF obj.reflectRemainder THEN Mirror(r, nBits) ELSE r, obj.finalXor)
            \cap Below(nBits)
  BY <1>2 DEF r, Serial!Checksum, Serial!Xor, Xor, Serial!Mirror, Mirror, Serial!Below, Below
<1>. QED
  BY <1>2, <1>7, <1>8 DEF a, w
-----------------------------------------------------------------------------
LEMMA SerialInit == Init => Serial!Init
BY DEF Init, Serial!Init, RemainderNow, ToGo

\* Outside a byte, the remainder is the register.
LEMMA BetweenBytes ==
  ASSUME bit = 0, pc = "partial"
  PROVE  RemainderNow = p_crc \cap Below(obj.width)
BY EmptyShift, XorEmpty DEF RemainderNow, ToGo

\* The steps of the code on the register: those that the serial division does
\* not see, the byte it takes and the bit it feeds.
LEMMA PartialUnseen ==
  ASSUME TypeOK, NEW b \in Parts, Partial(b)
  PROVE  UNCHANGED Serial!vars
<1>. DEFINE w == obj.width
<1>1. bit = 0 /\ bit' = 0 /\ UNCHANGED <<obj, crc>> /\ p_crc' = crc
      /\ pc = "open" /\ pc' = "partial"
  BY DEF Partial, TypeOK
<1>2. RemainderNow' = crc \cap Below(w)
  BY <1>1, EmptyShift, XorEmpty DEF RemainderNow, ToGo
<1>3. UNCHANGED RemainderNow /\ UNCHANGED ToGo
  BY <1>1, <1>2 DEF RemainderNow, ToGo
<1>. QED
  BY <1>1, <1>3 DEF Serial!vars

LEMMA LoadLoads ==
  ASSUME TypeOK, WideEnough, ~obj.table, LoadByte
  PROVE  Serial!Load(Head(data)) /\ Head(data) \in SUBSET Serial!Below(8)
<1>. DEFINE w == obj.width
            b == ReflectBytes(Head(data))
<1>1. bit = 0 /\ bit' = 8 /\ data # <<>> /\ UNCHANGED <<obj, crc, pc, data>>
      /\ pc = "partial"
  BY DEF LoadByte
<1>2. b' = b /\ b \in SUBSET Below(8)
  BY <1>1, HeadType DEF ReflectBytes
<1>3. ToGo = {} /\ ToGo' = b
  BY <1>1, <1>2 DEF ToGo
<1>4. b = Serial!InOrder(obj, Head(data)) /\ Head(data) \in SUBSET Serial!Below(8)
  BY <1>1, HeadType
     DEF ReflectBytes, Serial!InOrder, Serial!Mirror, Mirror, Serial!Below, Below
<1>5. p_crc \in SUBSET Below(32)
  BY DEF TypeOK
<1>6. UNCHANGED RemainderNow
  <2>1. CASE w < 8
    <3>1. p_crc' = p_crc /\ obj.width < 8 /\ obj'.width < 8
      BY <1>1, <2>1 DEF LoadByte
    <3>. QED
      BY <1>1, <3>1 DEF RemainderNow
  <2>2. CASE ~(w < 8)
    <3>1. w \in 8 .. 32
      BY <2>2, Context
    <3>2. p_crc' = Word(Xor(p_crc, Shift(b, w - 8)))
      BY <2>2 DEF LoadByte
    <3>3. RemainderNow' = Xor(p_crc', Shift(b, w - 8)) \cap Below(w)
      BY <1>1, <1>3, <2>2 DEF RemainderNow
    <3>4. RemainderNow = p_crc \cap Below(w)
      BY <1>1, BetweenBytes
    <3>. QED
      BY <1>2, <1>5, <3>1, <3>2, <3>3, <3>4, WideLoad
  <2>. QED
    BY <2>1, <2>2
<1>. QED
  BY <1>1, <1>3, <1>4, <1>6 DEF Serial!Load

LEMMA DivideFeeds ==
  ASSUME TypeOK, WideEnough, ~obj.table, DataByteInv, DivideBit
  PROVE  Serial!Feed
<1>. DEFINE w == obj.width
            f == IF w < 8 THEN TopBit \in Xor(data_byte, Shift(p_crc, 1))
                          ELSE TopBit \in p_crc
            g == IF f THEN obj.poly ELSE {}
<1>1. Divide(f)
  BY DEF DivideBit
<1>2. /\ bit \in 1 .. 8 /\ bit' = bit - 1 /\ pc = "partial"
      /\ UNCHANGED <<obj, crc, pc>>
      /\ p_crc' = Word(Xor(Shift(p_crc, 1), g))
  BY <1>1 DEF Divide, TypeOK
<1>3. ToGo' = ToGo \ {bit - 1} /\ ToGo \in SUBSET Below(bit)
  BY <1>1, ToGoNext, ToGoType
<1>4. p_crc \in SUBSET Below(32) /\ g \in SUBSET Int /\ w \in 7 .. 32
  BY Context DEF TypeOK
<1>5. f <=> ~(w - 1 \in RemainderNow <=> bit - 1 \in ToGo)
  <2>1. CASE w < 8
    <3>1. w = 7 /\ TopBit = 7
      BY <1>4, <2>1 DEF TopBit
    <3>2. data_byte = Shift(ToGo, 8 - bit)
      BY <1>4, <2>1 DEF DataByteInv
    <3>3. RemainderNow = Xor(p_crc, {}) \cap Below(7)
      BY <1>2, <2>1, <3>1 DEF RemainderNow
    <3>4. f <=> 7 \in Xor(Shift(ToGo, 8 - bit), Shift(p_crc, 1))
      BY <2>1, <3>1, <3>2
    <3>. QED
      BY <1>2, <1>3, <1>4, <3>1, <3>3, <3>4, NarrowFeedback
  <2>2. CASE ~(w < 8)
    <3>1. w \in 8 .. 32 /\ TopBit = w - 1
      BY <1>4, <2>2 DEF TopBit
    <3>2. RemainderNow = Xor(p_crc, Shift(ToGo, w - bit)) \cap Below(w)
      BY <1>2, <2>2 DEF RemainderNow
    <3>3. f <=> w - 1 \in p_crc
      BY <2>2, <3>1
    <3>. QED
      BY <1>2, <1>3, <1>4, <3>1, <3>2, <3>3, WideFeedback
  <2>. QED
    BY <2>1, <2>2
<1>. HIDE DEF f
<1>6. RemainderNow' = Xor(Shift(RemainderNow, 1), g) \cap Below(w)
  <2>1. CASE w < 8
    <3>1. RemainderNow = Xor(p_crc, {}) \cap Below(w)
      BY <1>2, <2>1 DEF RemainderNow
    <3>2. RemainderNow' = Xor(p_crc', {}) \cap Below(w)
      BY <1>2, <2>1 DEF RemainderNow
    <3>3. w \in 1 .. 32
      BY <1>4
    <3>. HIDE DEF g, w
    <3>. QED
      BY <1>2, <1>4, <3>1, <3>2, <3>3, NarrowStep
  <2>2. CASE ~(w < 8)
    <3>1. RemainderNow = Register(p_crc, ToGo, bit, w)
      BY <1>2, <2>2 DEF RemainderNow, Register
    <3>2. RemainderNow' = Register(p_crc', ToGo', bit', w)
      BY <1>2, <2>2 DEF RemainderNow, Register
    <3>3. w \in 8 .. 32
      BY <1>4, <2>2
    <3>. HIDE DEF g, w
    <3>4. RemainderNow' = Divided(RemainderNow, g, w)
      BY <1>2, <1>3, <1>4, <3>1, <3>2, <3>3, WideStep
    <3>. QED
      BY <3>4 DEF Divided
  <2>. QED
    BY <2>1, <2>2
<1>7. g = IF w - 1 \in RemainderNow <=> bit - 1 \in ToGo THEN {} ELSE obj.poly
  BY <1>5
<1>. QED
  BY <1>2, <1>3, <1>6, <1>7
     DEF Serial!Feed, Serial!Xor, Xor, Serial!Shift, Shift, Serial!Below, Below

LEMMA ReturnUnseen ==
  ASSUME TypeOK, obj.width \in 1 .. 32, Return
  PROVE  UNCHANGED Serial!vars
<1>. DEFINE w == obj.width
<1>1. bit = 0 /\ UNCHANGED <<obj, bit, data>> /\ crc' = p_crc \cap Mask
      /\ pc = "partial" /\ pc' = "open"
  BY DEF Return
<1>2. Below(w) \subseteq Mask
  BY DEF Mask, Below
<1>3. RemainderNow' = (p_crc \cap Mask) \cap Below(w)
  BY <1>1 DEF RemainderNow
<1>4. RemainderNow = p_crc \cap Below(w)
  BY <1>1, BetweenBytes
<1>5. UNCHANGED ToGo
  BY <1>1 DEF ToGo
<1>. QED
  BY <1>1, <1>2, <1>3, <1>4, <1>5 DEF Serial!vars

LEMMA SerialNext ==
  ASSUME TypeOK, WideEnough, ~obj.table, DataByteInv, [Next]_vars
  PROVE  [Serial!Next]_(Serial!vars)
<1>. DEFINE w == obj.width
<1>1. CASE Start
  <2>1. bit = 0 /\ UNCHANGED <<obj, bit, data>> /\ pc' = "open" /\ crc' = obj.initial
    BY <1>1 DEF Start, TypeOK
  <2>2. RemainderNow' = obj.initial \cap Below(w) /\ UNCHANGED ToGo
    BY <2>1 DEF RemainderNow, ToGo
  <2>3. Serial!Reset
    BY <2>1, <2>2 DEF Serial!Reset, Serial!Below, Below
  <2>. QED
    BY <2>3 DEF Serial!Next
<1>2. ASSUME NEW b \in Parts, Partial(b) PROVE UNCHANGED Serial!vars
  BY <1>2, PartialUnseen
<1>3. CASE LoadByte
  BY <1>3, LoadLoads DEF Serial!Next
<1>4. CASE DivideBit
  BY <1>4, DivideFeeds DEF Serial!Next
<1>5. CASE TableByte
  BY <1>5, Context DEF TableByte, TableByteWith
<1>6. CASE Return
  BY <1>6, ReturnUnseen, Context
<1>7. CASE Stop
  <2>1. bit = 0 /\ UNCHANGED <<obj, bit, data>> /\ pc = "open" /\ pc' = "final"
    BY <1>7 DEF Stop, StopWith, TypeOK
  <2>2. crc \in SUBSET Below(32) /\ ~obj.table
    BY Context DEF TypeOK
  <2>3. crc' = Xor(ReflectRemainder(IF w < 8 THEN Word(Shift(crc, 8 - w)) ELSE crc),
                   obj.finalXor) \cap Mask
    BY <1>7, <2>2 DEF Stop, StopWith
  <2>4. crc' = Serial!Checksum(obj, crc \cap Below(w))
    BY <2>2, <2>3, StopReports
  <2>5. RemainderNow = crc \cap Below(w) /\ RemainderNow' = {} /\ UNCHANGED ToGo
    BY <2>1 DEF RemainderNow, ToGo
  <2>6. Serial!Finish
    BY <2>1, <2>4, <2>5 DEF Serial!Finish
  <2>. QED
    BY <2>6 DEF Serial!Next
<1>8. CASE UNCHANGED vars
  BY <1>8 DEF vars, Serial!vars, RemainderNow, ToGo, ReflectBytes
<1>. QED
  BY <1>1, <1>2, <1>3, <1>4, <1>5, <1>6, <1>7, <1>8 DEF Next

LEMMA TableKeeps ==
  ASSUME obj.table, [Next]_vars
  PROVE  obj' = obj
BY DEF Next, Start, Partial, LoadByte, DivideBit, Divide, TableByte, TableByteWith,
       Return, Stop, StopWith, vars

\* Whatever the width from 7 to 32 and the other parameters, the code that has
\* no table, fed any message in any parts, takes the steps of the textbook's
\* serial division and reports its result.
THEOREM BitwiseDivides == WideEnough => (Spec => DividesSerially)
<1>. SUFFICES ASSUME WideEnough PROVE Spec => DividesSerially
  OBVIOUS
<1>1. Init => DataByteInv
  BY EmptyShift DEF Init, DataByteInv, ToGo
<1>2. TypeOK /\ DataByteInv /\ [Next]_vars => DataByteInv'
  BY DataByteNext, TableKeeps DEF DataByteInv
<1>3. TypeOK /\ DataByteInv /\ [Next]_vars =>
        [obj.table \/ Serial!Next]_(Serial!vars)
  BY SerialNext
<1>4. Init => obj.table \/ Serial!Init
  BY SerialInit
<1>. QED
  BY <1>1, <1>2, <1>3, <1>4, TypeCorrect, PTL DEF Spec, DividesSerially

-----------------------------------------------------------------------------
(***************************************************************************)
(* Induction: a set of numbers that holds 0 and the successor of each of   *)
(* its members holds them all, since its complement has no least member.   *)
(***************************************************************************)
LEMMA NatLess == IsWellFoundedOn({ss \in Nat \X Nat : ss[1] < ss[2]}, Nat)
BY NatLessThanWellFounded DEF OpToRel

LEMMA Upwards ==
  ASSUME NEW S, 0 \in S, \A m \in Nat : m \in S => m + 1 \in S
  PROVE  Nat \subseteq S
<1>. DEFINE R == {ss \in Nat \X Nat : ss[1] < ss[2]}
<1>. SUFFICES ASSUME Nat \ S # {} PROVE FALSE
  OBVIOUS
<1>1. IsWellFoundedOn(R, Nat)
  BY NatLess
<1>2. \A x, y \in Nat : <<y, x>> \in R <=> y < x
  OBVIOUS
<1>. HIDE DEF R
<1>3. PICK x \in Nat \ S : \A y \in Nat \ S : ~(<<y, x>> \in R)
  BY <1>1, WFMin
<1>4. x - 1 \in Nat /\ x - 1 < x
  BY <1>3
<1>5. x - 1 \in S
  BY <1>2, <1>3, <1>4
<1>. QED
  BY <1>3, <1>4, <1>5

LEMMA Downwards ==
  ASSUME NEW w \in Int, NEW n \in Int, NEW S,
         n \in S, \A d \in w .. n - 1 : d + 1 \in S => d \in S
  PROVE  w .. n \subseteq S
<1>. DEFINE U == {m \in Nat : n - m \in w .. n => n - m \in S}
<1>1. 0 \in U
  OBVIOUS
<1>2. ASSUME NEW m \in Nat, m \in U PROVE m + 1 \in U
  <2>. SUFFICES ASSUME n - (m + 1) \in w .. n PROVE n - (m + 1) \in S
    OBVIOUS
  <2>1. n - (m + 1) \in w .. n - 1 /\ (n - (m + 1)) + 1 = n - m /\ n - m \in w .. n
    OBVIOUS
  <2>. QED
    BY <1>2, <2>1
<1>. HIDE DEF U
<1>3. Nat \subseteq U
  BY <1>1, <1>2, Upwards
<1>4. ASSUME NEW d \in w .. n PROVE d \in S
  <2>1. n - d \in Nat /\ n - (n - d) = d
    OBVIOUS
  <2>. QED
    BY <1>3, <2>1 DEF U
<1>. QED
  BY <1>4

-----------------------------------------------------------------------------
(***************************************************************************)
(* Long division: f[d] is what is left when the terms from d up are gone.   *)
(***************************************************************************)
Generator(w, poly) == {w} \cup (poly \cap Below(w))

Subtract(r, d, w, poly) ==
  IF d \in r THEN Xor(r, Shift(Generator(w, poly), d - w)) ELSE r

IsDivision(f, dividend, m, n, w, poly) ==
  /\ f \in [m .. n -> SUBSET Int]
  /\ f[n] = dividend
  /\ \A d \in m .. n - 1 : f[d] = Subtract(f[d + 1], d, w, poly)

LEMMA SubtractType ==
  ASSUME NEW r \in SUBSET Int, NEW d \in Int, NEW w \in Int, NEW poly
  PROVE  Subtract(r, d, w, poly) \in SUBSET Int
<1>1. Generator(w, poly) \in SUBSET Int /\ d - w \in Int
  BY DEF Generator, Below
<1>. QED
  BY <1>1, ShiftInt, XorInt DEF Subtract

LEMMA DivisionExists ==
  ASSUME NEW w \in Int, NEW n \in Int, w <= n, NEW poly, NEW dividend \in SUBSET Int
  PROVE  \E f : IsDivision(f, dividend, w, n, w, poly)
<1>. DEFINE S == {m \in w .. n : \E f : IsDivision(f, dividend, m, n, w, poly)}
<1>1. n \in S
  <2>. DEFINE f == [d \in n .. n |-> dividend]
  <2>1. n .. n = {n} /\ n .. n - 1 = {}
    OBVIOUS
  <2>2. f \in [n .. n -> SUBSET Int] /\ f[n] = dividend
    BY <2>1
  <2>3. IsDivision(f, dividend, n, n, w, poly)
    BY <2>1, <2>2 DEF IsDivision
  <2>. QED
    BY <2>3
<1>2. ASSUME NEW m \in w .. n - 1, m + 1 \in S PROVE m \in S
  <2>1. PICK f : IsDivision(f, dividend, m + 1, n, w, poly)
    BY <1>2
  <2>. DEFINE g == [d \in m .. n |-> IF d = m THEN Subtract(f[m + 1], m, w, poly) ELSE f[d]]
  <2>2. \A d \in m + 1 .. n : f[d] \in SUBSET Int
    BY <2>1 DEF IsDivision
  <2>3. Subtract(f[m + 1], m, w, poly) \in SUBSET Int
    BY <2>2, SubtractType
  <2>4. g \in [m .. n -> SUBSET Int] /\ g[m] = Subtract(f[m + 1], m, w, poly)
        /\ \A d \in m + 1 .. n : g[d] = f[d]
    BY <2>2, <2>3
  <2>. HIDE DEF g
  <2>5. ASSUME NEW d \in m .. n - 1 PROVE g[d] = Subtract(g[d + 1], d, w, poly)
    <3>1. d + 1 \in m + 1 .. n /\ g[d + 1] = f[d + 1]
      BY <2>4
    <3>2. CASE d = m
      BY <2>4, <3>1, <3>2
    <3>3. CASE d # m
      <4>1. d \in m + 1 .. n - 1 /\ g[d] = f[d]
        BY <2>4, <3>3
      <4>. QED
        BY <2>1, <3>1, <4>1 DEF IsDivision
    <3>. QED
      BY <3>2, <3>3
  <2>6. g[n] = dividend
    BY <2>1, <2>4 DEF IsDivision
  <2>7. IsDivision(g, dividend, m, n, w, poly)
    BY <2>4, <2>5, <2>6 DEF IsDivision
  <2>. QED
    BY <2>7
<1>. HIDE DEF S
<1>3. w .. n \subseteq S
  BY <1>1, <1>2, Downwards
<1>4. w \in S
  BY <1>3
<1>. QED
  BY <1>4 DEF S

LEMMA DivisionUnique ==
  ASSUME NEW w \in Int, NEW n \in Int, w <= n, NEW poly, NEW dividend,
         NEW f, IsDivision(f, dividend, w, n, w, poly),
         NEW g, IsDivision(g, dividend, w, n, w, poly)
  PROVE  f[w] = g[w]
<1>. DEFINE S == {d \in w .. n : f[d] = g[d]}
<1>1. n \in S
  BY DEF IsDivision
<1>2. \A d \in w .. n - 1 : d + 1 \in S => d \in S
  BY DEF IsDivision
<1>. HIDE DEF S
<1>3. w .. n \subseteq S
  BY <1>1, <1>2, Downwards
<1>4. w \in S
  BY <1>3
<1>. QED
  BY <1>4 DEF S

\* The recursive function of Remainder is such a division.
LEMMA RemainderDivides ==
  ASSUME NEW w \in Int, NEW n \in Int, w <= n, NEW poly, NEW dividend \in SUBSET Int
  PROVE  \E f : /\ IsDivision(f, dividend, w, n, w, poly)
                /\ Remainder(dividend, n, w, poly) = f[w]
<1>1. CASE n = w
  <2>1. PICK f : IsDivision(f, dividend, w, n, w, poly)
    BY DivisionExists
  <2>2. Remainder(dividend, n, w, poly) = dividend
    BY <1>1 DEF Remainder
  <2>. QED
    BY <1>1, <2>1, <2>2 DEF IsDivision
<1>2. CASE n > w
  <2>. DEFINE Rec(f) == [d \in w .. n |->
                           IF d = n THEN dividend
                           ELSE LET r == f[d + 1]
                                IN  IF d \in r
                                    THEN Xor(r, Shift({w} \cup (poly \cap Below(w)), d - w))
                                    ELSE r]
              h == CHOOSE f : f = Rec(f)
  <2>1. PICK f : IsDivision(f, dividend, w, n, w, poly)
    BY DivisionExists
  <2>2. f = Rec(f)
    <3>1. ASSUME NEW d \in w .. n PROVE f[d] = Rec(f)[d]
      <4>1. CASE d = n
        BY <2>1, <4>1 DEF IsDivision
      <4>2. CASE d # n
        <5>1. d \in w .. n - 1
          BY <4>2
        <5>. QED
          BY <2>1, <4>2, <5>1 DEF IsDivision, Subtract, Generator
      <4>. QED
        BY <4>1, <4>2
    <3>2. f \in [w .. n -> SUBSET Int]
      BY <2>1 DEF IsDivision
    <3>. QED
      BY <3>1, <3>2
  <2>3. h = Rec(h)
    BY <2>2
  <2>4. Remainder(dividend, n, w, poly) = h[w]
    BY <1>2 DEF Remainder
  <2>. HIDE DEF h
  <2>5. f[w] = h[w]
    <3>. DEFINE S == {d \in w .. n : f[d] = h[d]}
    <3>1. n \in S
      BY <2>2, <2>3
    <3>2. ASSUME NEW d \in w .. n - 1, d + 1 \in S PROVE d \in S
      <4>1. d # n /\ d \in w .. n /\ f[d + 1] = h[d + 1]
        BY <3>2
      <4>2. h[d] = Rec(h)[d] /\ f[d] = Rec(f)[d]
        BY <2>2, <2>3
      <4>3. Rec(h)[d] = Rec(f)[d]
        BY <4>1
      <4>. QED
        BY <4>1, <4>2, <4>3
    <3>. HIDE DEF S
    <3>3. w .. n \subseteq S
      BY <3>1, <3>2, Downwards
    <3>4. w \in S
      BY <3>3
    <3>. QED
      BY <3>4 DEF S
  <2>. QED
    BY <2>1, <2>4, <2>5
<1>. QED
  BY <1>1, <1>2

LEMMA RemainderIs ==
  ASSUME NEW w \in Int, NEW n \in Int, w <= n, NEW poly, NEW dividend \in SUBSET Int,
         NEW f, IsDivision(f, dividend, w, n, w, poly)
  PROVE  Remainder(dividend, n, w, poly) = f[w]
BY RemainderDivides, DivisionUnique

LEMMA RemainderInt ==
  ASSUME NEW w \in Int, NEW n \in Int, w <= n, NEW poly, NEW dividend \in SUBSET Int
  PROVE  Remainder(dividend, n, w, poly) \in SUBSET Int
BY RemainderDivides DEF IsDivision

\* A remainder is shorter than the generator.
LEMMA SubtractBelow ==
  ASSUME NEW w \in Nat, NEW d \in Int, w <= d, NEW poly, NEW r \in SUBSET Below(d + 1)
  PROVE  Subtract(r, d, w, poly) \in SUBSET Below(d)
<1>. DEFINE g == Generator(w, poly)
            s == Subtract(r, d, w, poly)
<1>1. r \in SUBSET Int /\ g \in SUBSET Int /\ d - w \in Int
  BY DEF Below, Generator
<1>2. w \in g /\ \A e \in g : e \in 0 .. w
  BY DEF Below, Generator
<1>3. s \in SUBSET Int
  BY <1>1, SubtractType
<1>. HIDE DEF g
<1>4. ASSUME NEW e \in s PROVE e \in Below(d)
  <2>1. e \in Int /\ (e \in Shift(g, d - w) <=> e - (d - w) \in g)
    BY <1>1, <1>3, <1>4, InShift
  <2>2. CASE d \notin r
    <3>1. e \in r
      BY <1>4, <2>2 DEF Subtract
    <3>. QED
      BY <2>1, <2>2, <3>1 DEF Below
  <2>3. CASE d \in r
    <3>1. s = Xor(r, Shift(g, d - w))
      BY <2>3 DEF Subtract, g
    <3>2. ~(e \in r <=> e - (d - w) \in g)
      BY <1>4, <2>1, <3>1, InXor
    <3>3. e - (d - w) \in g => e \in 0 .. d
      <4>1. e - (d - w) \in g => e - (d - w) \in 0 .. w
        BY <1>2
      <4>. QED
        BY <2>1, <4>1
    <3>4. e \in r => e \in 0 .. d
      BY DEF Below
    <3>5. e # d
      <4>1. d - (d - w) = w
        BY <1>1
      <4>. QED
        BY <1>2, <2>3, <3>2, <4>1
    <3>. QED
      BY <2>1, <3>2, <3>3, <3>4, <3>5 DEF Below
  <2>. QED
    BY <2>2, <2>3
<1>. QED
  BY <1>4

LEMMA RemainderBelow ==
  ASSUME NEW w \in Nat, NEW n \in Int, w <= n, NEW poly, NEW dividend \in SUBSET Below(n)
  PROVE  Remainder(dividend, n, w, poly) \in SUBSET Below(w)
<1>0. dividend \in SUBSET Int
  BY DEF Below
<1>1. PICK f : /\ IsDivision(f, dividend, w, n, w, poly)
               /\ Remainder(dividend, n, w, poly) = f[w]
  BY <1>0, RemainderDivides
<1>. DEFINE S == {d \in w .. n : f[d] \in SUBSET Below(d)}
<1>2. n \in S
  BY <1>1 DEF IsDivision
<1>3. ASSUME NEW d \in w .. n - 1, d + 1 \in S PROVE d \in S
  <2>1. f[d] = Subtract(f[d + 1], d, w, poly) /\ f[d + 1] \in SUBSET Below(d + 1)
    BY <1>1, <1>3 DEF IsDivision
  <2>2. f[d] \in SUBSET Below(d)
    BY <2>1, SubtractBelow
  <2>. QED
    BY <2>2
<1>. HIDE DEF S
<1>4. w .. n \subseteq S
  BY <1>2, <1>3, Downwards
<1>5. w \in S
  BY <1>4
<1>. QED
  BY <1>1, <1>5 DEF S

\* A division one place further up, with terms t that are never subtracted from.
LEMMA SubtractShift ==
  ASSUME NEW w \in Nat, NEW d \in Int, NEW k \in Int, NEW poly, NEW r \in SUBSET Int,
         NEW t \in SUBSET Int, d + k \notin t
  PROVE  Subtract(Xor(Shift(r, k), t), d + k, w, poly)
           = Xor(Shift(Subtract(r, d, w, poly), k), t)
<1>. DEFINE g == Generator(w, poly)
            a == Xor(Shift(r, k), t)
            b == Shift(g, (d + k) - w)
            q == Xor(r, Shift(g, d - w))
<1>1. g \in SUBSET Int /\ d - w \in Int /\ (d + k) - w \in Int
  BY DEF Below, Generator
<1>. HIDE DEF g
<1>2. a \in SUBSET Int /\ b \in SUBSET Int /\ q \in SUBSET Int
  BY <1>1, ShiftInt, XorInt
<1>3. d + k \in a <=> d \in r
  <2>1. d + k \in Shift(r, k) <=> (d + k) - k \in r
    BY InShift
  <2>2. (d + k) - k = d
    OBVIOUS
  <2>. QED
    BY <2>1, <2>2, InXor
<1>4. ASSUME NEW e \in Int PROVE e \in Xor(a, b) <=> e \in Xor(Shift(q, k), t)
  <2>1. e \in b <=> e - ((d + k) - w) \in g
    BY <1>1, InShift
  <2>2. e \in Shift(q, k) <=> e - k \in q
    BY <1>2, InShift
  <2>3. e - k \in q <=> ~(e - k \in r <=> (e - k) - (d - w) \in g)
    BY <1>1, InShift, InXor
  <2>4. e \in Shift(r, k) <=> e - k \in r
    BY InShift
  <2>5. (e - k) - (d - w) = e - ((d + k) - w)
    OBVIOUS
  <2>. QED
    BY <2>1, <2>2, <2>3, <2>4, <2>5, InXor
<1>5. Xor(a, b) \in SUBSET Int /\ Xor(Shift(q, k), t) \in SUBSET Int
  BY <1>2, ShiftInt, XorInt
<1>. HIDE DEF a, b, q
<1>6. Xor(a, b) = Xor(Shift(q, k), t)
  BY <1>4, <1>5
<1>7. Subtract(a, d + k, w, poly) = IF d \in r THEN Xor(a, b) ELSE a
  BY <1>3 DEF Subtract, b, g
<1>8. Subtract(r, d, w, poly) = IF d \in r THEN q ELSE r
  BY DEF Subtract, q, g
<1>. QED
  BY <1>6, <1>7, <1>8 DEF a

\* A division may be interrupted: what is left of the dividend is divided with
\* the terms that come after.
LEMMA RemainderContinues ==
  ASSUME NEW w \in Nat, NEW n \in Int, w <= n, NEW k \in Nat, NEW poly,
         NEW p \in SUBSET Int, NEW t \in SUBSET Below(w + k)
  PROVE  Remainder(Xor(Shift(p, k), t), n + k, w, poly)
           = Remainder(Xor(Shift(Remainder(p, n, w, poly), k), t), w + k, w, poly)
<1>1. PICK f : IsDivision(f, p, w, n, w, poly) /\ Remainder(p, n, w, poly) = f[w]
  BY RemainderDivides
<1>. DEFINE a == Xor(Shift(p, k), t)
            b == Xor(Shift(f[w], k), t)
<1>2. t \in SUBSET Int /\ \A d \in Int : d >= w + k => d \notin t
  BY DEF Below
<1>3. \A d \in w .. n : f[d] \in SUBSET Int
  BY <1>1 DEF IsDivision
<1>4. \A d \in w .. n : Xor(Shift(f[d], k), t) \in SUBSET Int
  BY <1>2, <1>3, ShiftInt, XorInt
<1>5. f[n] = p /\ n \in w .. n /\ w \in w .. n
  BY <1>1 DEF IsDivision
<1>6. a \in SUBSET Int /\ b \in SUBSET Int
  BY <1>4, <1>5
<1>7. PICK g : IsDivision(g, b, w, w + k, w, poly) /\ Remainder(b, w + k, w, poly) = g[w]
  BY <1>6, RemainderDivides
<1>. DEFINE h == [d \in w .. n + k |-> IF d <= w + k THEN g[d] ELSE Xor(Shift(f[d - k], k), t)]
<1>8. \A d \in w .. n + k : d >= w + k => h[d] = Xor(Shift(f[d - k], k), t)
  <2>1. g[w + k] = Xor(Shift(f[w], k), t) /\ (w + k) - k = w
    BY <1>7 DEF IsDivision
  <2>. QED
    BY <2>1
<1>9. \A d \in w .. w + k : d \in w .. n + k /\ h[d] = g[d]
  OBVIOUS
<1>10. h \in [w .. n + k -> SUBSET Int]
  <2>1. \A d \in w .. w + k : g[d] \in SUBSET Int
    BY <1>7 DEF IsDivision
  <2>2. \A d \in w .. n + k : d > w + k => d - k \in w .. n
    OBVIOUS
  <2>3. \A d \in w .. n + k : ~(d <= w + k) => d > w + k
    OBVIOUS
  <2>. QED
    BY <1>4, <2>1, <2>2, <2>3
<1>. HIDE DEF h
<1>11. h[n + k] = a
  <2>1. n + k \in w .. n + k /\ n + k >= w + k /\ (n + k) - k = n
    OBVIOUS
  <2>. QED
    BY <1>5, <1>8, <2>1
<1>12. ASSUME NEW d \in w .. (n + k) - 1 PROVE h[d] = Subtract(h[d + 1], d, w, poly)
  <2>1. CASE d < w + k
    <3>1. d \in w .. (w + k) - 1 /\ d \in w .. w + k /\ d + 1 \in w .. w + k
      BY <2>1
    <3>2. g[d] = Subtract(g[d + 1], d, w, poly)
      BY <1>7, <3>1 DEF IsDivision
    <3>. QED
      BY <1>9, <3>1, <3>2
  <2>2. CASE ~(d < w + k)
    <3>. DEFINE c == d - k
    <3>1. /\ d >= w + k /\ d + 1 >= w + k /\ d \in w .. n + k /\ d + 1 \in w .. n + k
          /\ c \in w .. n - 1 /\ (d + 1) - k = c + 1 /\ c + k = d /\ d \in Int /\ c \in Int
          /\ c + 1 \in w .. n
      BY <2>2
    <3>2. h[d] = Xor(Shift(f[c], k), t) /\ h[d + 1] = Xor(Shift(f[c + 1], k), t)
      BY <1>8, <3>1
    <3>3. f[c] = Subtract(f[c + 1], c, w, poly) /\ f[c + 1] \in SUBSET Int
      BY <1>1, <1>3, <3>1 DEF IsDivision
    <3>4. c + k \notin t
      BY <1>2, <3>1
    <3>. HIDE DEF c
    <3>5. Subtract(h[d + 1], c + k, w, poly) = Xor(Shift(f[c], k), t)
      BY <1>2, <3>1, <3>2, <3>3, <3>4, SubtractShift
    <3>. QED
      BY <3>1, <3>2, <3>5
  <2>. QED
    BY <2>1, <2>2
<1>. HIDE DEF a, b
<1>13. IsDivision(h, a, w, n + k, w, poly)
  BY <1>10, <1>11, <1>12 DEF IsDivision
<1>14. Remainder(a, n + k, w, poly) = h[w]
  <2>1. n + k \in Int /\ w <= n + k
    OBVIOUS
  <2>. QED
    BY <1>6, <1>13, <2>1, RemainderIs
<1>15. h[w] = g[w]
  BY <1>9
<1>. QED
  BY <1>1, <1>7, <1>14, <1>15 DEF a, b

LEMMA RemainderOfShort ==
  ASSUME NEW w \in Int, NEW poly, NEW p
  PROVE  Remainder(p, w, w, poly) = p
BY DEF Remainder

\* One step of the division.
LEMMA RemainderStep ==
  ASSUME NEW w \in Int, NEW poly, NEW p \in SUBSET Int
  PROVE  Remainder(p, w + 1, w, poly) = Subtract(p, w, w, poly)
<1>1. PICK f : /\ IsDivision(f, p, w, w + 1, w, poly)
               /\ Remainder(p, w + 1, w, poly) = f[w]
  BY RemainderDivides
<1>2. w \in w .. (w + 1) - 1
  OBVIOUS
<1>. QED
  BY <1>1, <1>2 DEF IsDivision

-----------------------------------------------------------------------------
(***************************************************************************)
(* The message. s is what was fed, k how much of it went through the        *)
(* register.                                                                *)
(***************************************************************************)
Entering(o, b) == IF o.reflectData THEN Mirror(b, 8) ELSE b

MessageTo(o, s, k) == UNION {Shift(Entering(o, s[i]), 8 * (k - i)) : i \in 1 .. k}

DividendTo(o, s, k) ==
  Xor(Shift(MessageTo(o, s, k), o.width), Shift(o.initial \cap Below(o.width), 8 * k))

RemainderTo(o, s, k) ==
  Remainder(DividendTo(o, s, k), 8 * k + o.width, o.width, o.poly)

LEMMA EnteringType ==
  ASSUME NEW o \in Objects, NEW b \in Bytes
  PROVE  Entering(o, b) \in SUBSET Below(8)
BY BytesAssumption, MirrorInside DEF Entering

LEMMA InMessage ==
  ASSUME NEW o \in Objects, NEW s \in Seq(Bytes), NEW k \in 0 .. Len(s)
  PROVE  /\ MessageTo(o, s, k) \in SUBSET Below(8 * k)
         /\ \A e \in Int : e \in MessageTo(o, s, k)
              <=> \E i \in 1 .. k : e - 8 * (k - i) \in Entering(o, s[i])
<1>1. ASSUME NEW i \in 1 .. k
      PROVE  s[i] \in Bytes /\ Entering(o, s[i]) \in SUBSET Below(8)
             /\ Entering(o, s[i]) \in SUBSET Int /\ 8 * (k - i) \in Int
  <2>1. s[i] \in Bytes
    OBVIOUS
  <2>. QED
    BY <2>1, EnteringType DEF Below
<1>2. \A e \in Int : e \in MessageTo(o, s, k)
        <=> \E i \in 1 .. k : e - 8 * (k - i) \in Entering(o, s[i])
  <2>. SUFFICES ASSUME NEW e \in Int
                PROVE  e \in MessageTo(o, s, k)
                         <=> \E i \in 1 .. k : e - 8 * (k - i) \in Entering(o, s[i])
    OBVIOUS
  <2>1. \A i \in 1 .. k : e \in Shift(Entering(o, s[i]), 8 * (k - i))
                            <=> e - 8 * (k - i) \in Entering(o, s[i])
    BY <1>1, InShift
  <2>. QED
    BY <2>1 DEF MessageTo
<1>3. MessageTo(o, s, k) \in SUBSET Int
  BY <1>1, ShiftInt DEF MessageTo
<1>4. ASSUME NEW e \in MessageTo(o, s, k) PROVE e \in Below(8 * k)
  <2>1. PICK i \in 1 .. k : e \in Int /\ e - 8 * (k - i) \in Entering(o, s[i])
    BY <1>2, <1>3, <1>4
  <2>2. Entering(o, s[i]) \in SUBSET (0 .. 7)
    <3>1. Below(8) = 0 .. 7
      BY DEF Below
    <3>. QED
      BY <1>1, <3>1
  <2>3. e - 8 * (k - i) \in 0 .. 7
    BY <2>1, <2>2
  <2>4. k \in Nat /\ i \in 1 .. k /\ e \in Int
    BY <2>1
  <2>5. e \in 0 .. 8 * k - 1
    BY <2>3, <2>4
  <2>. QED
    BY <2>5 DEF Below
<1>. QED
  BY <1>2, <1>4

LEMMA DividendType ==
  ASSUME NEW o \in Objects, NEW s \in Seq(Bytes), NEW k \in 0 .. Len(s)
  PROVE  /\ o.width \in 1 .. 32 /\ 8 * k + o.width \in Int /\ o.width <= 8 * k + o.width
         /\ DividendTo(o, s, k) \in SUBSET Int
         /\ DividendTo(o, s, k) \in SUBSET Below(8 * k + o.width)
         /\ RemainderTo(o, s, k) \in SUBSET Below(o.width)
         /\ RemainderTo(o, s, k) \in SUBSET Int
<1>. DEFINE w == o.width
            m == MessageTo(o, s, k)
            i == o.initial \cap Below(w)
<1>1. w \in 1 .. 32 /\ 8 * k \in Nat /\ k \in Nat
  BY ObjectType
<1>2. m \in SUBSET Int /\ m \in SUBSET Below(8 * k)
  BY InMessage DEF Below
<1>3. i \in SUBSET Int /\ i \in SUBSET Below(w)
  BY DEF Below
<1>. HIDE DEF m, i, w
<1>4. Shift(m, w) \in SUBSET Int /\ Shift(i, 8 * k) \in SUBSET Int
  BY <1>1, <1>2, <1>3, ShiftInt
<1>5. DividendTo(o, s, k) = Xor(Shift(m, w), Shift(i, 8 * k))
  BY DEF DividendTo, m, i, w
<1>6. DividendTo(o, s, k) \in SUBSET Int
  BY <1>4, <1>5, XorInt
<1>7. ASSUME NEW e \in DividendTo(o, s, k) PROVE e \in Below(8 * k + w)
  <2>1. e \in Int /\ (e \in Shift(m, w) \/ e \in Shift(i, 8 * k))
    BY <1>5, <1>6, <1>7, InXor
  <2>2. e - w \in m \/ e - 8 * k \in i
    BY <1>1, <1>2, <1>3, <2>1, InShift
  <2>3. e - w \in 0 .. 8 * k - 1 \/ e - 8 * k \in 0 .. w - 1
    BY <1>2, <1>3, <2>2 DEF Below
  <2>. QED
    BY <1>1, <2>1, <2>3 DEF Below
<1>8. /\ w \in Nat /\ 8 * k + w \in Int /\ w <= 8 * k + w
      /\ DividendTo(o, s, k) \in SUBSET Below(8 * k + w)
  BY <1>1, <1>7
<1>9. RemainderTo(o, s, k) \in SUBSET Below(w)
  BY <1>8, RemainderBelow DEF RemainderTo, w
<1>10. RemainderTo(o, s, k) \in SUBSET Int
  BY <1>9 DEF Below
<1>. QED
  BY <1>1, <1>6, <1>8, <1>9, <1>10 DEF w

LEMMA SameBytes ==
  ASSUME NEW o, NEW s, NEW r, NEW k, \A i \in 1 .. k : s[i] = r[i]
  PROVE  RemainderTo(o, s, k) = RemainderTo(o, r, k)
<1>1. MessageTo(o, s, k) = MessageTo(o, r, k)
  BY DEF MessageTo
<1>. QED
  BY <1>1 DEF RemainderTo, DividendTo

LEMMA NothingFed ==
  ASSUME NEW o \in Objects
  PROVE  RemainderTo(o, <<>>, 0) = o.initial \cap Below(o.width)
<1>1. MessageTo(o, <<>>, 0) = {}
  BY DEF MessageTo
<1>2. o.initial \cap Below(o.width) \in SUBSET Int /\ o.width \in Int
  BY ObjectType DEF Below
<1>3. Shift(o.initial \cap Below(o.width), 8 * 0) = o.initial \cap Below(o.width)
  BY <1>2, ShiftZero
<1>4. DividendTo(o, <<>>, 0) = o.initial \cap Below(o.width)
  BY <1>1, <1>3, EmptyShift DEF DividendTo, Xor
<1>5. 8 * 0 + o.width = o.width
  BY <1>2
<1>. QED
  BY <1>2, <1>4, <1>5, RemainderOfShort DEF RemainderTo

\* The terms of a byte that entered when n of its bits are still to go.
Gone(b, n) == {e - n : e \in b \ Below(n)}

LEMMA InGone ==
  ASSUME NEW b \in SUBSET Below(8), NEW n \in 0 .. 8
  PROVE  /\ Gone(b, n) \in SUBSET Below(8 - n)
         /\ \A e \in Int : e \in Gone(b, n) <=> e + n \in b /\ e >= 0
<1>1. ASSUME NEW e \in Gone(b, n) PROVE e + n \in b /\ e >= 0 /\ e \in Below(8 - n)
  <2>1. PICK d \in b \ Below(n) : e = d - n
    BY <1>1 DEF Gone
  <2>2. d \in 0 .. 7 /\ d >= n /\ e + n = d
    BY <2>1 DEF Below
  <2>. QED
    BY <2>1, <2>2 DEF Below
<1>2. ASSUME NEW e \in Int, e + n \in b, e >= 0 PROVE e \in Gone(b, n)
  <2>1. e + n \in b \ Below(n) /\ e = (e + n) - n
    BY <1>2 DEF Below
  <2>. QED
    BY <2>1 DEF Gone
<1>. QED
  BY <1>1, <1>2

\* The dividend p with the first bits of the next byte.
Entered(p, b, n, w) == Xor(Shift(p, 8 - n), Shift(Gone(b, n), w))

LEMMA EnteredStep ==
  ASSUME NEW w \in Nat, NEW p \in SUBSET Int, NEW b \in SUBSET Below(8), NEW n \in 1 .. 8
  PROVE  Entered(p, b, n - 1, w)
           = Xor(Shift(Entered(p, b, n, w), 1), IF n - 1 \in b THEN {w} ELSE {})
<1>. DEFINE t == IF n - 1 \in b THEN {w} ELSE {}
            a == Entered(p, b, n, w)
            c == Entered(p, b, n - 1, w)
<1>1. /\ Gone(b, n) \in SUBSET Int /\ Gone(b, n - 1) \in SUBSET Int
      /\ \A e \in Int : e \in Gone(b, n) <=> e + n \in b /\ e >= 0
      /\ \A e \in Int : e \in Gone(b, n - 1) <=> e + (n - 1) \in b /\ e >= 0
  BY InGone DEF Below
<1>2. a \in SUBSET Int /\ c \in SUBSET Int
  BY <1>1, ShiftInt, XorInt DEF Entered
<1>3. Xor(Shift(a, 1), t) \in SUBSET Int
  BY <1>2, ShiftInt, XorInt
<1>4. ASSUME NEW e \in Int PROVE e \in c <=> e \in Xor(Shift(a, 1), t)
  <2>1. e \in c <=> ~(e - (8 - (n - 1)) \in p <=> e - w \in Gone(b, n - 1))
    BY <1>1, InShift, InXor DEF Entered
  <2>2. e - 1 \in a <=> ~((e - 1) - (8 - n) \in p <=> (e - 1) - w \in Gone(b, n))
    BY <1>1, InShift, InXor DEF Entered
  <2>3. e \in Shift(a, 1) <=> e - 1 \in a
    BY <1>2, InShift
  <2>4. (e - 1) - (8 - n) = e - (8 - (n - 1))
    OBVIOUS
  <2>5. e \in t <=> e = w /\ n - 1 \in b
    OBVIOUS
  <2>6. e - w \in Gone(b, n - 1) <=> ~((e - 1) - w \in Gone(b, n) <=> e \in t)
    <3>1. e - w \in Gone(b, n - 1) <=> (e - w) + (n - 1) \in b /\ e >= w
      BY <1>1
    <3>2. (e - 1) - w \in Gone(b, n) <=> (e - w) + (n - 1) \in b /\ e - 1 >= w
      <4>1. ((e - 1) - w) + n = (e - w) + (n - 1)
        OBVIOUS
      <4>. QED
        BY <1>1, <4>1
    <3>3. e = w => (e - w) + (n - 1) = n - 1
      OBVIOUS
    <3>. QED
      BY <2>5, <3>1, <3>2, <3>3
  <2>. HIDE DEF a, c, t
  <2>. QED
    BY <2>1, <2>2, <2>3, <2>4, <2>6, InXor
<1>. HIDE DEF a, c, t
<1>5. c = Xor(Shift(a, 1), t)
  BY <1>2, <1>3, <1>4
<1>. QED
  BY <1>5 DEF a, c, t

LEMMA EnteredNone ==
  ASSUME NEW w \in Nat, NEW p \in SUBSET Int, NEW b \in SUBSET Below(8)
  PROVE  Entered(p, b, 8, w) = p
<1>1. Gone(b, 8) = {}
  BY DEF Gone
<1>. QED
  BY <1>1, EmptyShift, XorEmpty, ShiftZero DEF Entered

\* A whole byte makes the next dividend.
LEMMA EnteredByte ==
  ASSUME NEW o \in Objects, NEW s \in Seq(Bytes), NEW k \in 0 .. Len(s) - 1
  PROVE  /\ DividendTo(o, s, k + 1)
              = Xor(Shift(DividendTo(o, s, k), 8), Shift(Entering(o, s[k + 1]), o.width))
         /\ DividendTo(o, s, k + 1)
              = Entered(DividendTo(o, s, k), Entering(o, s[k + 1]), 0, o.width)
<1>. DEFINE w == o.width
            b == Entering(o, s[k + 1])
            m == MessageTo(o, s, k)
            n == MessageTo(o, s, k + 1)
            i == o.initial \cap Below(w)
            p == DividendTo(o, s, k)
            q == DividendTo(o, s, k + 1)
            r == Xor(Shift(p, 8), Shift(b, w))
<1>1. w \in 1 .. 32 /\ k \in 0 .. Len(s) /\ k + 1 \in 0 .. Len(s) /\ s[k + 1] \in Bytes
  BY ObjectType
<1>0. w \in Int /\ k \in Nat /\ 8 * k \in Int /\ 8 * (k + 1) \in Int
  <2>1. Len(s) \in Nat
    OBVIOUS
  <2>2. k \in Nat
    BY <1>1, <2>1
  <2>3. 8 * k \in Int /\ 8 * (k + 1) \in Int
    BY <2>2
  <2>4. w \in 1 .. 32 /\ 1 .. 32 \subseteq Int
    BY ObjectType
  <2>. QED
    BY <2>2, <2>3, <2>4
<1>2. b \in SUBSET Below(8) /\ b \in SUBSET Int
  BY <1>1, EnteringType DEF Below
<1>3. m \in SUBSET Below(8 * k) /\ m \in SUBSET Int /\ n \in SUBSET Int /\ i \in SUBSET Int
  BY <1>1, InMessage DEF Below
<1>4. p \in SUBSET Int /\ q \in SUBSET Int
  BY <1>1, DividendType
<1>5. p = Xor(Shift(m, w), Shift(i, 8 * k)) /\ q = Xor(Shift(n, w), Shift(i, 8 * (k + 1)))
  BY DEF DividendTo
<1>6. ASSUME NEW e \in Int PROVE e \in n <=> ~(e - 8 \in m <=> e \in b)
  <2>1. e \in n <=> \E j \in 1 .. k + 1 : e - 8 * ((k + 1) - j) \in Entering(o, s[j])
    BY <1>1, InMessage
  <2>2. e - 8 \in m <=> \E j \in 1 .. k : (e - 8) - 8 * (k - j) \in Entering(o, s[j])
    BY <1>1, InMessage
  <2>3. \A j \in 1 .. k : (e - 8) - 8 * (k - j) = e - 8 * ((k + 1) - j)
    OBVIOUS
  <2>4. e - 8 * ((k + 1) - (k + 1)) = e
    OBVIOUS
  <2>5. e \in n <=> e - 8 \in m \/ e \in b
    <3>1. \A j \in 1 .. k + 1 : j \in 1 .. k \/ j = k + 1
      BY <1>1
    <3>2. k + 1 \in 1 .. k + 1 /\ \A j \in 1 .. k : j \in 1 .. k + 1
      BY <1>1
    <3>. QED
      BY <2>1, <2>2, <2>3, <2>4, <3>1, <3>2
  <2>6. e \in b => e < 8
    BY <1>2 DEF Below
  <2>7. e - 8 \in m => e >= 8
    BY <1>3 DEF Below
  <2>. QED
    BY <2>5, <2>6, <2>7
<1>. HIDE DEF b, m, n, i, p, q, w, r
<1>7. r \in SUBSET Int
  BY <1>0, <1>2, <1>4, ShiftInt, XorInt DEF r
<1>8. ASSUME NEW e \in Int PROVE e \in q <=> e \in r
  <2>0. e - 8 \in Int
    OBVIOUS
  <2>1. e \in q <=> ~(e - w \in n <=> e - 8 * (k + 1) \in i)
    <3>1. e \in Shift(n, w) <=> e - w \in n
      BY <1>0, <1>3, InShift
    <3>2. e \in Shift(i, 8 * (k + 1)) <=> e - 8 * (k + 1) \in i
      BY <1>0, <1>3, InShift
    <3>. QED
      BY <1>5, <3>1, <3>2, InXor
  <2>2. e - 8 \in p <=> ~((e - 8) - w \in m <=> (e - 8) - 8 * k \in i)
    <3>1. e - 8 \in Shift(m, w) <=> (e - 8) - w \in m
      BY <1>0, <1>3, <2>0, InShift
    <3>2. e - 8 \in Shift(i, 8 * k) <=> (e - 8) - 8 * k \in i
      BY <1>0, <1>3, <2>0, InShift
    <3>. QED
      BY <1>5, <3>1, <3>2, InXor
  <2>3. e \in r <=> ~(e - 8 \in p <=> e - w \in b)
    <3>1. e \in Shift(p, 8) <=> e - 8 \in p
      BY <1>4, InShift
    <3>2. e \in Shift(b, w) <=> e - w \in b
      BY <1>0, <1>2, InShift
    <3>. QED
      BY <3>1, <3>2, InXor DEF r
  <2>4. (e - 8) - w = (e - w) - 8 /\ (e - 8) - 8 * k = e - 8 * (k + 1)
    BY <1>0
  <2>5. e - w \in n <=> ~((e - w) - 8 \in m <=> e - w \in b)
    <3>1. e - w \in Int
      BY <1>0
    <3>. QED
      BY <1>6, <3>1
  <2>. QED
    BY <2>1, <2>2, <2>3, <2>4, <2>5
<1>9. q = r
  BY <1>4, <1>7, <1>8
<1>10. Gone(b, 0) = b
  <2>1. \A e \in Int : e \in Gone(b, 0) <=> e + 0 \in b /\ e >= 0
    BY <1>2, InGone, 0 \in 0 .. 8
  <2>2. Gone(b, 0) \in SUBSET Int
    BY <1>2, InGone, 0 \in 0 .. 8 DEF Below
  <2>3. \A e \in b : e \in Int /\ e >= 0
    BY <1>2 DEF Below
  <2>. QED
    BY <2>1, <2>2, <2>3
<1>. QED
  BY <1>9, <1>10 DEF r, p, q, b, w, Entered

-----------------------------------------------------------------------------
(***************************************************************************)
(* The register while a message is taken: what it holds is the remainder    *)
(* of the dividend the bytes so far make, those of the bits so far.         *)
(***************************************************************************)
\* The initial value of a table object of width below 8 is taken as it is into
\* a register that holds the remainder in its high bits.
Supported ==
  WideEnough /\ \A o \in Objects : o.table /\ o.width < 8 => o.initial = {}

Taken == IF pc = "partial" THEN Len(fed) - Len(data) ELSE Len(fed)
Held == IF pc = "partial" THEN p_crc ELSE crc
InMiddle == pc = "open" \/ pc = "partial"

FedInv ==
  pc = "partial" => /\ Len(data) <= Len(fed)
                    /\ \A i \in 1 .. Len(data) : data[i] = fed[Taken + i]

Part(o, s, k, n) ==
  Remainder(Entered(DividendTo(o, s, k), Entering(o, s[k + 1]), n, o.width),
            8 * k + (8 - n) + o.width, o.width, o.poly)

DividedInv ==
  InMiddle /\ ~obj.table =>
    RemainderNow = IF bit = 0 THEN RemainderTo(obj, fed, Taken)
                              ELSE Part(obj, fed, Taken, bit)

LookedUpInv ==
  InMiddle /\ obj.table =>
    Held \cap Below(nBits) = Shift(RemainderTo(obj, fed, Taken), nBits - obj.width)

RegisterInv == FedInv /\ DividedInv /\ LookedUpInv

LEMMA WidthType ==
  ASSUME NEW o \in Objects
  PROVE  o.width \in Nat /\ o.width >= 1 /\ o.width <= 32
<1>1. o.width \in 1 .. 32
  BY ObjectType
<1>. QED
  BY <1>1

LEMMA InMiddleOfByte ==
  ASSUME NEW o \in Objects, NEW s \in Seq(Bytes), NEW k \in 0 .. Len(s) - 1
  PROVE  /\ k \in 0 .. Len(s) /\ k + 1 \in 0 .. Len(s) /\ k \in Nat /\ s[k + 1] \in Bytes
         /\ o.width \in Nat /\ o.width >= 1
         /\ Entering(o, s[k + 1]) \in SUBSET Below(8)
         /\ DividendTo(o, s, k) \in SUBSET Int
<1>1. Len(s) \in Nat
  OBVIOUS
<1>2. k \in 0 .. Len(s) /\ k + 1 \in 0 .. Len(s) /\ k \in Nat /\ s[k + 1] \in Bytes
  BY <1>1
<1>4. o.width \in Nat /\ o.width >= 1
  BY WidthType
<1>5. DividendTo(o, s, k) \in SUBSET Int
  BY <1>2, DividendType
<1>6. Entering(o, s[k + 1]) \in SUBSET Below(8)
  BY <1>2, EnteringType
<1>. QED
  BY <1>2, <1>4, <1>5, <1>6

\* A byte of which no bit entered, and one of which every bit did.
LEMMA PartStart ==
  ASSUME NEW o \in Objects, NEW s \in Seq(Bytes), NEW k \in 0 .. Len(s) - 1
  PROVE  Part(o, s, k, 8) = RemainderTo(o, s, k)
<1>1. 8 * k + (8 - 8) + o.width = 8 * k + o.width
  BY InMiddleOfByte
<1>2. Entered(DividendTo(o, s, k), Entering(o, s[k + 1]), 8, o.width) = DividendTo(o, s, k)
  BY InMiddleOfByte, EnteredNone
<1>. QED
  BY <1>1, <1>2 DEF Part, RemainderTo

LEMMA PartEnd ==
  ASSUME NEW o \in Objects, NEW s \in Seq(Bytes), NEW k \in 0 .. Len(s) - 1
  PROVE  Part(o, s, k, 0) = RemainderTo(o, s, k + 1)
<1>1. 8 * k + (8 - 0) + o.width = 8 * (k + 1) + o.width
  BY InMiddleOfByte
<1>. QED
  BY <1>1, EnteredByte DEF Part, RemainderTo

\* The next bit takes one step of the division of what is left so far.
LEMMA PartNext ==
  ASSUME NEW o \in Objects, NEW s \in Seq(Bytes), NEW k \in 0 .. Len(s) - 1, NEW n \in 1 .. 8
  PROVE  Part(o, s, k, n - 1)
           = Remainder(Xor(Shift(Part(o, s, k, n), 1),
                           IF n - 1 \in Entering(o, s[k + 1]) THEN {o.width} ELSE {}),
                       o.width + 1, o.width, o.poly)
<1>. DEFINE w == o.width
            b == Entering(o, s[k + 1])
            d == DividendTo(o, s, k)
            p == Entered(d, b, n, w)
            t == IF n - 1 \in b THEN {w} ELSE {}
            m == 8 * k + (8 - n) + w
<1>1. w \in Nat /\ k \in Nat /\ b \in SUBSET Below(8) /\ d \in SUBSET Int
  BY InMiddleOfByte
<1>2. n \in 0 .. 8 /\ 8 - n \in Int
  OBVIOUS
<1>3. Gone(b, n) \in SUBSET Int
  BY <1>1, <1>2, InGone DEF Below
<1>. HIDE DEF b, d, w
<1>4. p \in SUBSET Int
  BY <1>1, <1>2, <1>3, ShiftInt, XorInt DEF Entered
<1>5. m \in Int /\ w <= m /\ 8 * k + (8 - (n - 1)) + w = m + 1
  BY <1>1
<1>6. t \in SUBSET Below(w + 1)
  BY <1>1 DEF Below
<1>7. Entered(d, b, n - 1, w) = Xor(Shift(p, 1), t)
  BY <1>1, EnteredStep
<1>. HIDE DEF p, t, m
<1>8. Remainder(Xor(Shift(p, 1), t), m + 1, w, o.poly)
        = Remainder(Xor(Shift(Remainder(p, m, w, o.poly), 1), t), w + 1, w, o.poly)
  BY <1>1, <1>4, <1>5, <1>6, RemainderContinues, 1 \in Nat
<1>. QED
  BY <1>5, <1>7, <1>8 DEF Part, w, b, d, p, t, m

\* That step, as the register takes it: the term bit j of b adds at the top, and
\* what is subtracted.
Enters(j, b, w) == IF j \in b THEN {w} ELSE {}
Feedback(r, j, b, w, poly) == IF w - 1 \in r <=> j \in b THEN {} ELSE poly

LEMMA StepInRegister ==
  ASSUME NEW w \in Nat, w >= 1, NEW r \in SUBSET Below(w), NEW poly, NEW j, NEW b
  PROVE  Divided(r, Feedback(r, j, b, w, poly), w)
           = Remainder(Xor(Shift(r, 1), Enters(j, b, w)), w + 1, w, poly)
<1>. DEFINE t == Enters(j, b, w)
            h == Feedback(r, j, b, w, poly)
            d == Xor(Shift(r, 1), t)
            g == Generator(w, poly)
            a == Xor(Shift(r, 1), h)
            c == Subtract(d, w, w, poly)
<1>1. r \in SUBSET Int /\ t \in SUBSET Int /\ g \in SUBSET Int
  BY DEF Below, Generator, Enters
<1>2. d \in SUBSET Int
  BY <1>1, ShiftInt, XorInt
<1>0. \A e : e \in t <=> e = w /\ j \in b
  BY DEF Enters
<1>. HIDE DEF t
<1>3. \A e \in Int : e \in d <=> ~(e - 1 \in r <=> e \in t)
  BY <1>1, InShift, InXor
<1>4. ASSUME NEW e \in d PROVE e \in Below(w + 1)
  <2>1. e \in Int /\ (e - 1 \in r \/ e \in t)
    BY <1>2, <1>3, <1>4
  <2>2. e \in t => e = w
    BY <1>0
  <2>3. e - 1 \in r => e - 1 \in 0 .. w - 1
    BY DEF Below
  <2>. QED
    BY <2>1, <2>2, <2>3 DEF Below
<1>5. w \in d <=> ~(w - 1 \in r <=> j \in b)
  BY <1>0, <1>3
<1>. HIDE DEF d
<1>6. Remainder(d, w + 1, w, poly) = c
  BY <1>2, RemainderStep
<1>7. c \in SUBSET Below(w)
  BY <1>4, SubtractBelow
<1>8. Shift(g, w - w) = g
  <2>1. w - w = 0
    OBVIOUS
  <2>. HIDE DEF g
  <2>. QED
    BY <1>1, <2>1, ShiftZero
<1>9. c = IF w \in d THEN Xor(d, g) ELSE d
  BY <1>8 DEF Subtract
<1>10. ASSUME NEW e \in Below(w) PROVE e \in a <=> e \in c
  <2>1. e \in Int /\ e # w
    BY DEF Below
  <2>2. e \notin t
    BY <1>0, <2>1
  <2>3. e \in d <=> e - 1 \in r
    BY <1>3, <2>1, <2>2
  <2>4. e \in Shift(r, 1) <=> e - 1 \in r
    BY <1>1, <2>1, InShift
  <2>5. e \in g <=> e \in poly
    BY <2>1 DEF Generator
  <2>. HIDE DEF g, c
  <2>6. CASE w \in d
    <3>1. c = Xor(d, g) /\ a = Xor(Shift(r, 1), poly)
      BY <1>5, <1>9, <2>6 DEF Feedback
    <3>. QED
      BY <2>3, <2>4, <2>5, <3>1, InXor
  <2>7. CASE w \notin d
    <3>1. c = d /\ a = Shift(r, 1)
      BY <1>5, <1>9, <2>7, XorEmpty DEF Feedback
    <3>. QED
      BY <2>3, <2>4, <3>1
  <2>. QED
    BY <2>6, <2>7
<1>. HIDE DEF a, c
<1>11. a \cap Below(w) = c
  BY <1>7, <1>10
<1>. QED
  BY <1>6, <1>11 DEF a, d, t, Divided

\* The next byte, as a whole, takes eight steps of the division of what is left.
LEMMA ByteContinues ==
  ASSUME NEW o \in Objects, NEW s \in Seq(Bytes), NEW k \in 0 .. Len(s) - 1
  PROVE  RemainderTo(o, s, k + 1)
           = Remainder(Xor(Shift(RemainderTo(o, s, k), 8), Shift(Entering(o, s[k + 1]), o.width)),
                       o.width + 8, o.width, o.poly)
<1>. DEFINE w == o.width
            b == Entering(o, s[k + 1])
            d == DividendTo(o, s, k)
            t == Shift(b, w)
            m == 8 * k + w
<1>1. w \in Nat /\ k \in Nat /\ b \in SUBSET Below(8) /\ d \in SUBSET Int
  BY InMiddleOfByte
<1>2. DividendTo(o, s, k + 1) = Xor(Shift(d, 8), t)
  BY EnteredByte
<1>3. m \in Int /\ w <= m /\ 8 * (k + 1) + w = m + 8
  BY <1>1
<1>. HIDE DEF b, d, w
<1>4. t \in SUBSET Below(w + 8)
  <2>. SUFFICES ASSUME NEW e \in b PROVE e + w \in Below(w + 8)
    BY DEF Shift
  <2>1. e \in 0 .. 7
    BY <1>1 DEF Below
  <2>. QED
    BY <1>1, <2>1 DEF Below
<1>. HIDE DEF t, m
<1>5. Remainder(Xor(Shift(d, 8), t), m + 8, w, o.poly)
        = Remainder(Xor(Shift(Remainder(d, m, w, o.poly), 8), t), w + 8, w, o.poly)
  BY <1>1, <1>3, <1>4, RemainderContinues, 8 \in Nat
<1>. QED
  BY <1>2, <1>3, <1>5 DEF RemainderTo, w, b, d, t, m

\* The table holds those eight steps for each byte. A width of 8 or less has
\* nothing but the byte to look up.
LEMMA LookUpShort ==
  ASSUME NEW w \in 1 .. 8, NEW p \in SUBSET Below(32), NEW r \in SUBSET Below(w),
         NEW b \in SUBSET Below(8), p \cap Below(8) = Shift(r, 8 - w)
  PROVE  Shift(Byte(Xor(b, p)), w) = Xor(Shift(r, 8), Shift(b, w))
<1>. DEFINE i == Byte(Xor(b, p))
            x == Shift(i, w)
            y == Xor(Shift(r, 8), Shift(b, w))
<1>1. r \in SUBSET Int /\ b \in SUBSET Int /\ i \in SUBSET Int /\ w \in Int /\ 8 - w \in Int
  BY DEF Below, Byte
<1>2. x \in SUBSET Int /\ y \in SUBSET Int
  BY <1>1, ShiftInt, XorInt
<1>3. ASSUME NEW e \in Int PROVE e \in x <=> e \in y
  <2>1. e - w \in Int /\ e - 8 \in Int /\ (e - w) - (8 - w) = e - 8
    BY <1>1
  <2>2. e \in x <=> e - w \in i
    BY <1>1, InShift
  <2>3. e \in y <=> ~(e - 8 \in r <=> e - w \in b)
    BY <1>1, InShift, InXor
  <2>4. e - w \in i <=> e - w \in Below(8) /\ ~(e - w \in b <=> e - w \in p)
    BY InXor DEF Byte
  <2>5. e - w \in Below(8) => (e - w \in p <=> e - 8 \in r)
    <3>1. e - w \in Shift(r, 8 - w) <=> e - 8 \in r
      BY <1>1, <2>1, InShift
    <3>. QED
      BY <3>1
  <2>6. e - 8 \in r => e - w \in Below(8)
    <3>1. e - 8 \in r => e - 8 \in 0 .. w - 1
      BY DEF Below
    <3>2. e - 8 \in 0 .. w - 1 => e - w \in 0 .. 7
      BY <1>1
    <3>. QED
      BY <3>1, <3>2 DEF Below
  <2>7. e - w \in b => e - w \in Below(8)
    OBVIOUS
  <2>. HIDE DEF i, x, y
  <2>. QED
    BY <2>2, <2>3, <2>4, <2>5, <2>6, <2>7
<1>. HIDE DEF x, y
<1>4. x = y
  BY <1>2, <1>3
<1>. QED
  BY <1>4 DEF x, y

\* A greater one keeps the rest of its register.
LEMMA LookUpLong ==
  ASSUME NEW w \in 9 .. 32, NEW p \in SUBSET Below(32), NEW b \in SUBSET Below(8)
  PROVE  Xor(Shift(Byte(Xor(b, Shift(p, 8 - w))), w), Shift(p, 8) \cap Below(w))
           = Xor(Shift(p \cap Below(w), 8), Shift(b, w))
<1>. DEFINE r == p \cap Below(w)
            i == Byte(Xor(b, Shift(p, 8 - w)))
            low == Shift(p, 8) \cap Below(w)
            x == Xor(Shift(i, w), low)
            y == Xor(Shift(r, 8), Shift(b, w))
<1>1. /\ p \in SUBSET Int /\ r \in SUBSET Int /\ b \in SUBSET Int /\ i \in SUBSET Int
      /\ low \in SUBSET Int /\ w \in Int /\ 8 - w \in Int
  BY DEF Below, Byte
<1>2. x \in SUBSET Int /\ y \in SUBSET Int
  BY <1>1, ShiftInt, XorInt
<1>3. ASSUME NEW e \in Int PROVE e \in x <=> e \in y
  <2>1. e - w \in Int /\ e - 8 \in Int /\ (e - w) - (8 - w) = e - 8
    BY <1>1
  <2>2. e \in x <=> ~(e - w \in i <=> e \in low)
    BY <1>1, InShift, InXor
  <2>3. e \in y <=> ~(e - 8 \in r <=> e - w \in b)
    BY <1>1, InShift, InXor
  <2>4. e - w \in i <=> e - w \in Below(8) /\ ~(e - w \in b <=> e - 8 \in p)
    <3>1. e - w \in Shift(p, 8 - w) <=> e - 8 \in p
      BY <1>1, <2>1, InShift
    <3>. QED
      BY <3>1, InXor DEF Byte
  <2>5. e \in low <=> e - 8 \in p /\ e \in Below(w)
    BY <1>1, InShift
  <2>6. e - 8 \in r <=> e - 8 \in p /\ e - 8 \in Below(w)
    OBVIOUS
  <2>7. e - w \in b => e - w \in Below(8)
    OBVIOUS
  <2>8. e - 8 \in p => e >= 8
    BY DEF Below
  <2>9. e >= 8 => (e - 8 \in Below(w) <=> e \in Below(w) \/ e - w \in Below(8))
    BY <1>1 DEF Below
  <2>10. ~(e \in Below(w) /\ e - w \in Below(8))
    BY <1>1 DEF Below
  <2>. HIDE DEF i, x, y, low, r
  <2>. QED
    BY <2>2, <2>3, <2>4, <2>5, <2>6, <2>7, <2>8, <2>9, <2>10
<1>. HIDE DEF x, y
<1>4. x = y
  BY <1>2, <1>3
<1>. QED
  BY <1>4 DEF x, y

\* The rest of the register adds to what the table gives.
LEMMA RestAdds ==
  ASSUME NEW w \in Nat, NEW x \in SUBSET Int, NEW low \in SUBSET Below(w), NEW poly
  PROVE  Remainder(Xor(x, low), w + 8, w, poly) = Xor(Remainder(x, w + 8, w, poly), low)
<1>. DEFINE r == Remainder(x, w + 8, w, poly)
<1>1. w + 8 \in Int /\ w <= w + 8 /\ low \in SUBSET Below(w + 0) /\ (w + 8) + 0 = w + 8
      /\ w + 0 = w
  OBVIOUS
<1>2. Remainder(Xor(Shift(x, 0), low), (w + 8) + 0, w, poly)
        = Remainder(Xor(Shift(r, 0), low), w + 0, w, poly)
  BY <1>1, RemainderContinues, 0 \in Nat
<1>3. r \in SUBSET Int
  BY <1>1, RemainderInt
<1>. HIDE DEF r
<1>4. Shift(r, 0) = r /\ Shift(x, 0) = x
  BY <1>3, ShiftZero
<1>5. Remainder(Xor(r, low), w, w, poly) = Xor(r, low)
  BY RemainderOfShort
<1>. QED
  BY <1>1, <1>2, <1>4, <1>5 DEF r

\* The bytes, as they go through compute_partial.
LEMMA TakenType ==
  ASSUME TypeOK, FedInv, pc = "partial"
  PROVE  /\ Taken = Len(fed) - Len(data) /\ Taken \in 0 .. Len(fed)
         /\ data # <<>> => /\ Taken \in 0 .. Len(fed) - 1 /\ Head(data) = fed[Taken + 1]
                           /\ Head(data) \in Bytes
<1>1. fed \in Seq(Bytes) /\ data \in Seq(Bytes)
  BY DEF TypeOK
<1>2. Len(fed) \in Nat /\ Len(data) \in Nat /\ Len(data) <= Len(fed)
  BY <1>1 DEF FedInv
<1>3. Taken = Len(fed) - Len(data)
  BY DEF Taken
<1>4. ASSUME data # <<>> PROVE Len(data) >= 1 /\ Head(data) = data[1] /\ Head(data) \in Bytes
  BY <1>1, <1>4
<1>5. data # <<>> => Head(data) = fed[Taken + 1]
  BY <1>2, <1>4 DEF FedInv
<1>. QED
  BY <1>2, <1>3, <1>4, <1>5

LEMMA TailTaken ==
  ASSUME TypeOK, FedInv, pc = "partial", data # <<>>, data' = Tail(data),
         UNCHANGED <<pc, fed>>
  PROVE  FedInv' /\ Taken' = Taken + 1
<1>1. fed \in Seq(Bytes) /\ data \in Seq(Bytes)
  BY DEF TypeOK
<1>2. /\ Len(fed) \in Nat /\ Len(data) \in Nat \ {0} /\ Len(data) <= Len(fed)
      /\ Len(Tail(data)) = Len(data) - 1
      /\ \A i \in 1 .. Len(data) - 1 : Tail(data)[i] = data[i + 1]
  BY <1>1 DEF FedInv
<1>3. Taken = Len(fed) - Len(data) /\ Taken' = Len(fed) - (Len(data) - 1)
  BY <1>2 DEF Taken
<1>4. Taken' = Taken + 1 /\ Taken \in Int
  BY <1>2, <1>3
<1>5. ASSUME NEW i \in 1 .. Len(data) - 1 PROVE Tail(data)[i] = fed[Taken' + i]
  <2>1. i + 1 \in 1 .. Len(data) /\ Tail(data)[i] = data[i + 1]
    BY <1>2
  <2>2. data[i + 1] = fed[Taken + (i + 1)]
    BY <2>1 DEF FedInv
  <2>3. Taken + (i + 1) = Taken' + i
    BY <1>4
  <2>. QED
    BY <2>1, <2>2, <2>3
<1>6. FedInv'
  BY <1>2, <1>5 DEF FedInv
<1>. QED
  BY <1>4, <1>6

LEMMA PartialTaken ==
  ASSUME TypeOK, NEW b \in Parts, Partial(b)
  PROVE  /\ FedInv' /\ Taken' = Taken /\ Taken \in 0 .. Len(fed) /\ Taken = Len(fed)
         /\ \A i \in 1 .. Taken : fed'[i] = fed[i]
<1>1. fed \in Seq(Bytes) /\ b \in Seq(Bytes)
  BY PartsType DEF TypeOK
<1>2. pc = "open" /\ pc' = "partial" /\ fed' = fed \o b /\ data' = b
  BY DEF Partial
<1>3. Len(fed \o b) = Len(fed) + Len(b) /\ Len(fed) \in Nat /\ Len(b) \in Nat
  BY <1>1
<1>4. Taken' = Len(fed) /\ Taken = Len(fed)
  BY <1>2, <1>3 DEF Taken
<1>5. \A i \in 1 .. Len(fed) : (fed \o b)[i] = fed[i]
  BY <1>1
<1>6. \A i \in 1 .. Len(b) : (fed \o b)[Len(fed) + i] = b[i]
  BY <1>1
<1>7. FedInv'
  BY <1>2, <1>3, <1>4, <1>6 DEF FedInv
<1>. QED
  BY <1>2, <1>3, <1>4, <1>5, <1>7

\* The steps that take no byte and give none.
LEMMA OtherTaken ==
  ASSUME TypeOK, FedInv, UNCHANGED <<fed, data>>,
         \/ UNCHANGED pc
         \/ pc # "partial" /\ pc' # "partial"
         \/ data = <<>> /\ pc' # "partial"
  PROVE  FedInv' /\ Taken' = Taken
<1>1. fed \in Seq(Bytes) /\ data \in Seq(Bytes) /\ Len(fed) \in Nat
  BY DEF TypeOK
<1>2. data = <<>> => Len(fed) - Len(data) = Len(fed)
  BY <1>1
<1>3. Taken' = Taken
  BY <1>2 DEF Taken
<1>4. FedInv'
  BY <1>3 DEF FedInv
<1>. QED
  BY <1>3, <1>4

LEMMA ObjectKept ==
  ASSUME [Next]_vars
  PROVE  obj' = obj
BY DEF Next, Start, Partial, LoadByte, DivideBit, Divide, TableByte, TableByteWith,
       Return, Stop, StopWith, vars

LEMMA SameObject ==
  ASSUME obj' = obj
  PROVE  nBits' = nBits /\ Mask' = Mask
BY DEF nBits, Mask

LEMMA ByteBits ==
  ASSUME TypeOK
  PROVE  /\ obj \in Objects /\ fed \in Seq(Bytes) /\ data \in Seq(Bytes)
         /\ \A b \in Bytes : ReflectBytes(b) = Entering(obj, b)
         /\ Mask = Below(nBits)
BY DEF TypeOK, ReflectBytes, Entering, Mask, nBits

LEMMA FedNext ==
  ASSUME TypeOK, FedInv, [Next]_vars
  PROVE  FedInv'
<1>1. CASE Start
  BY <1>1 DEF Start, FedInv
<1>2. ASSUME NEW b \in Parts, Partial(b) PROVE FedInv'
  BY <1>2, PartialTaken
<1>3. CASE LoadByte
  <2>1. UNCHANGED <<fed, data, pc>>
    BY <1>3 DEF LoadByte
  <2>. QED
    BY <2>1, OtherTaken
<1>4. CASE DivideBit
  <2>1. pc = "partial" /\ data # <<>> /\ UNCHANGED <<pc, fed>>
        /\ (data' = Tail(data) \/ data' = data)
    BY <1>4 DEF DivideBit, Divide, TypeOK
  <2>. QED
    BY <2>1, TailTaken, OtherTaken
<1>5. CASE TableByte
  <2>1. pc = "partial" /\ data # <<>> /\ UNCHANGED <<pc, fed>> /\ data' = Tail(data)
    BY <1>5 DEF TableByte, TableByteWith
  <2>. QED
    BY <2>1, TailTaken
<1>6. CASE Return
  BY <1>6 DEF Return, FedInv
<1>7. CASE Stop
  BY <1>7 DEF Stop, StopWith, FedInv
<1>8. CASE UNCHANGED vars
  BY <1>8, OtherTaken DEF vars
<1>. QED
  BY <1>1, <1>2, <1>3, <1>4, <1>5, <1>6, <1>7, <1>8 DEF Next

\* Bit by bit.
LEMMA DivideTakes ==
  ASSUME TypeOK, WideEnough, ~obj.table, DataByteInv, FedInv, DividedInv, DivideBit
  PROVE  DividedInv'
<1>. DEFINE w == obj.width
            k == Taken
            x == Entering(obj, fed[k + 1])
            in == bit - 1 \in x
            r == RemainderNow
<1>1. /\ pc = "partial" /\ pc' = "partial" /\ bit \in 1 .. 8 /\ bit' = bit - 1
      /\ UNCHANGED <<obj, fed>> /\ data # <<>>
      /\ data' = IF bit = 1 THEN Tail(data) ELSE data
  BY DEF DivideBit, Divide, TypeOK
<1>2. k \in 0 .. Len(fed) - 1 /\ Head(data) = fed[k + 1] /\ Head(data) \in Bytes
  BY <1>1, TakenType
<1>3. obj \in Objects /\ fed \in Seq(Bytes) /\ ReflectBytes(Head(data)) = x
  BY <1>2, ByteBits
<1>4. bit - 1 \in ToGo <=> in
  <2>1. bit - 1 \in Below(bit) /\ bit # 0
    BY <1>1 DEF Below
  <2>. QED
    BY <1>3, <2>1 DEF ToGo
<1>5. r = Part(obj, fed, k, bit)
  <2>1. InMiddle /\ bit # 0
    BY <1>1 DEF InMiddle
  <2>. QED
    BY <2>1 DEF DividedInv
<1>6. r' = Xor(Shift(r, 1), IF w - 1 \in r <=> in THEN {} ELSE obj.poly) \cap Below(w)
  <2>1. Serial!Feed
    BY DivideFeeds
  <2>. HIDE DEF in
  <2>. QED
    BY <1>4, <2>1
       DEF Serial!Feed, Serial!Xor, Xor, Serial!Shift, Shift, Serial!Below, Below
<1>7. w \in Nat /\ w >= 1 /\ r \in SUBSET Below(w)
  <2>1. r \in SUBSET Below(w)
    BY DEF RemainderNow
  <2>. QED
    BY <1>3, <2>1, WidthType
<1>8. r' = Part(obj, fed, k, bit')
  <2>. DEFINE t == Enters(bit - 1, x, w)
              h == Feedback(r, bit - 1, x, w, obj.poly)
  <2>1. Part(obj, fed, k, bit - 1) = Remainder(Xor(Shift(r, 1), t), w + 1, w, obj.poly)
    BY <1>1, <1>2, <1>3, <1>5, PartNext DEF Enters
  <2>2. r' = Divided(r, h, w)
    BY <1>6 DEF Divided, Feedback
  <2>. HIDE DEF r, w, x
  <2>3. Divided(r, h, w) = Remainder(Xor(Shift(r, 1), t), w + 1, w, obj.poly)
    BY <1>7, StepInRegister
  <2>. QED
    BY <1>1, <2>1, <2>2, <2>3
<1>9. CASE bit = 1
  <2>1. bit' = 0 /\ Taken' = k + 1
    BY <1>1, <1>9, TailTaken
  <2>2. r' = RemainderTo(obj, fed, k + 1)
    BY <1>2, <1>3, <1>8, <2>1, PartEnd
  <2>. QED
    BY <1>1, <2>1, <2>2 DEF DividedInv
<1>10. CASE bit # 1
  <2>1. bit' # 0 /\ Taken' = k
    BY <1>1, <1>10 DEF Taken
  <2>. QED
    BY <1>1, <1>8, <2>1 DEF DividedInv
<1>. QED
  BY <1>9, <1>10

LEMMA StartTakes ==
  ASSUME TypeOK, Start
  PROVE  /\ InMiddle' /\ bit' = 0 /\ Taken' = 0 /\ fed' = <<>> /\ obj' = obj /\ Held' = obj.initial
         /\ RemainderNow' = obj.initial \cap Below(obj.width)
         /\ RemainderTo(obj, <<>>, 0) = obj.initial \cap Below(obj.width)
<1>1. pc' = "open" /\ bit' = 0 /\ fed' = <<>> /\ obj' = obj /\ crc' = obj.initial
  BY DEF Start, TypeOK
<1>2. Taken' = 0
  BY <1>1 DEF Taken
<1>3. RemainderNow' = obj.initial \cap Below(obj.width)
  BY <1>1 DEF RemainderNow
<1>4. RemainderTo(obj, <<>>, 0) = obj.initial \cap Below(obj.width)
  BY ByteBits, NothingFed
<1>. QED
  BY <1>1, <1>2, <1>3, <1>4 DEF InMiddle, Held

LEMMA DividedNext ==
  ASSUME TypeOK, WideEnough, DataByteInv, FedInv, DividedInv, [Next]_vars
  PROVE  DividedInv'
<1>. SUFFICES ASSUME ~obj.table, InMiddle'
              PROVE  DividedInv'
  BY ObjectKept DEF DividedInv
<1>0. obj' = obj
  BY ObjectKept
<1>1. CASE Start
  BY <1>1, StartTakes DEF DividedInv
<1>2. ASSUME NEW b \in Parts, Partial(b) PROVE DividedInv'
  <2>1. bit = 0 /\ bit' = 0 /\ pc = "open"
    BY <1>2 DEF Partial, TypeOK
  <2>2. RemainderNow' = RemainderNow
    BY <1>2, PartialUnseen DEF Serial!vars
  <2>3. RemainderNow = RemainderTo(obj, fed, Taken)
    BY <2>1 DEF DividedInv, InMiddle
  <2>4. Taken' = Taken /\ \A i \in 1 .. Taken : fed'[i] = fed[i]
    BY <1>2, PartialTaken
  <2>5. RemainderTo(obj, fed', Taken) = RemainderTo(obj, fed, Taken)
    BY <2>4, SameBytes
  <2>. QED
    BY <1>0, <2>1, <2>2, <2>3, <2>4, <2>5 DEF DividedInv
<1>3. CASE LoadByte
  <2>1. pc = "partial" /\ bit = 0 /\ bit' = 8 /\ data # <<>> /\ UNCHANGED <<pc, data, fed>>
    BY <1>3 DEF LoadByte
  <2>2. RemainderNow' = RemainderNow
    BY <1>3, LoadLoads DEF Serial!Load
  <2>3. RemainderNow = RemainderTo(obj, fed, Taken)
    BY <2>1 DEF DividedInv, InMiddle
  <2>4. Taken' = Taken /\ Taken \in 0 .. Len(fed) - 1
    BY <2>1, TakenType, OtherTaken
  <2>5. Part(obj, fed, Taken, 8) = RemainderTo(obj, fed, Taken)
    BY <2>4, ByteBits, PartStart
  <2>. QED
    BY <1>0, <2>1, <2>2, <2>3, <2>4, <2>5 DEF DividedInv
<1>4. CASE DivideBit
  BY <1>4, DivideTakes
<1>5. CASE TableByte
  BY <1>5 DEF TableByte, TableByteWith
<1>6. CASE Return
  <2>1. pc = "partial" /\ pc' = "open" /\ bit = 0 /\ bit' = 0 /\ data = <<>>
        /\ UNCHANGED <<data, fed>>
    BY <1>6 DEF Return
  <2>2. obj.width \in 1 .. 32
    BY ByteBits, ObjectType
  <2>3. RemainderNow' = RemainderNow
    BY <1>6, <2>2, ReturnUnseen DEF Serial!vars
  <2>4. RemainderNow = RemainderTo(obj, fed, Taken)
    BY <2>1 DEF DividedInv, InMiddle
  <2>5. Taken' = Taken
    BY <2>1, OtherTaken
  <2>. QED
    BY <1>0, <2>1, <2>3, <2>4, <2>5 DEF DividedInv
<1>7. CASE Stop
  BY <1>7 DEF Stop, StopWith, InMiddle
<1>8. CASE UNCHANGED vars
  <2>1. RemainderNow' = RemainderNow /\ Taken' = Taken /\ UNCHANGED <<obj, pc, bit, fed>>
    BY <1>8 DEF vars, RemainderNow, Taken, ToGo, ReflectBytes
  <2>. QED
    BY <2>1 DEF DividedInv, InMiddle
<1>. QED
  BY <1>1, <1>2, <1>3, <1>4, <1>5, <1>6, <1>7, <1>8 DEF Next

\* By the table.
LEMMA TableTakes ==
  ASSUME TypeOK, FedInv, LookedUpInv, TableByte
  PROVE  LookedUpInv'
<1>. DEFINE w == obj.width
            k == Taken
            x == Entering(obj, fed[k + 1])
            r == RemainderTo(obj, fed, k)
            s == RemainderTo(obj, fed, k + 1)
            T(i) == Remainder(Shift(i, w), w + 8, w, obj.poly)
<1>1. /\ pc = "partial" /\ pc' = "partial" /\ UNCHANGED <<obj, fed>> /\ data # <<>>
      /\ data' = Tail(data) /\ obj.table
  BY DEF TableByte, TableByteWith
<1>2. k \in 0 .. Len(fed) - 1 /\ Head(data) = fed[k + 1] /\ Head(data) \in Bytes
      /\ k \in 0 .. Len(fed) /\ Taken' = k + 1
  BY <1>1, TakenType, TailTaken
<1>3. obj \in Objects /\ fed \in Seq(Bytes) /\ ReflectBytes(Head(data)) = x
  BY <1>2, ByteBits
<1>4. x \in SUBSET Below(8) /\ w \in 1 .. 32 /\ w \in Nat /\ p_crc \in SUBSET Below(32)
  BY <1>2, <1>3, EnteringType, ObjectType, WidthType DEF TypeOK
<1>5. r \in SUBSET Below(w) /\ p_crc \cap Below(nBits) = Shift(r, nBits - w)
  <2>1. Held = p_crc /\ InMiddle
    BY <1>1 DEF Held, InMiddle
  <2>. QED
    BY <1>1, <1>2, <1>3, <2>1, DividendType DEF LookedUpInv
<1>6. s = Remainder(Xor(Shift(r, 8), Shift(x, w)), w + 8, w, obj.poly)
  BY <1>2, <1>3, ByteContinues
<1>7. s \in SUBSET Below(w) /\ s \in SUBSET Int
  BY <1>2, <1>3, InMiddleOfByte, DividendType
<1>8. Held' = p_crc' /\ nBits' = nBits
  BY <1>1, SameObject DEF Held
<1>9. p_crc' \cap Below(nBits) = Shift(s, nBits - w)
  <2>1. CASE w <= 8
    <3>. DEFINE i == Byte(Xor(x, p_crc))
    <3>1. nBits = 8 /\ w \in 1 .. 8
      BY <1>4, <2>1 DEF nBits
    <3>2. p_crc' = Word(Xor(CrcTable(i), {}))
      BY <1>3, <2>1 DEF TableByte, TableByteWith
    <3>3. Shift(i, w) = Xor(Shift(r, 8), Shift(x, w))
      BY <1>4, <1>5, <3>1, LookUpShort
    <3>4. CrcTable(i) = Shift(s, 8 - w)
      BY <1>6, <3>1, <3>3 DEF CrcTable
    <3>. HIDE DEF i, s, w
    <3>5. p_crc' = Shift(s, 8 - w) \cap Below(32)
      BY <3>2, <3>4, XorEmpty DEF Word
    <3>6. Shift(s, 8 - w) \in SUBSET Below(8)
      <4>. SUFFICES ASSUME NEW e \in s PROVE e + (8 - w) \in Below(8)
        BY DEF Shift
      <4>1. e \in 0 .. w - 1
        BY <1>7 DEF Below
      <4>. QED
        BY <3>1, <4>1 DEF Below
    <3>7. Below(8) \subseteq Below(32)
      BY DEF Below
    <3>. QED
      BY <3>1, <3>5, <3>6, <3>7
  <2>2. CASE ~(w <= 8)
    <3>. DEFINE i == Byte(Xor(x, Shift(p_crc, 8 - w)))
                low == Shift(p_crc, 8) \cap Below(w)
    <3>1. nBits = w /\ w \in 9 .. 32 /\ w - w = 0 /\ w \in Int
      BY <1>4, <2>2 DEF nBits
    <3>2. p_crc' = Word(Xor(CrcTable(i), Shift(p_crc, 8)))
      BY <1>3, <2>2 DEF TableByte, TableByteWith
    <3>3. r = p_crc \cap Below(w)
      <4>1. r \in SUBSET Int
        BY <1>5 DEF Below
      <4>. HIDE DEF r
      <4>. QED
        BY <1>5, <3>1, <4>1, ShiftZero
    <3>4. Xor(Shift(i, w), low) = Xor(Shift(r, 8), Shift(x, w))
      <4>. HIDE DEF w, x, r
      <4>1. Xor(Shift(i, w), low) = Xor(Shift(p_crc \cap Below(w), 8), Shift(x, w))
        BY <1>4, <3>1, LookUpLong
      <4>. QED
        BY <3>3, <4>1
    <3>5. i \in SUBSET Int /\ low \in SUBSET Below(w) /\ Shift(i, w) \in SUBSET Int
      <4>1. i \in SUBSET Int
        BY DEF Byte, Below
      <4>. HIDE DEF i
      <4>. QED
        BY <3>1, <4>1, ShiftInt
    <3>6. s = Xor(T(i), low)
      <4>. HIDE DEF i, low, r, s
      <4>. QED
        BY <1>4, <1>6, <3>4, <3>5, RestAdds
    <3>7. CrcTable(i) = T(i)
      <4>1. w + 8 \in Int /\ w <= w + 8
        BY <3>1
      <4>2. T(i) \in SUBSET Int
        BY <3>1, <3>5, <4>1, RemainderInt
      <4>. HIDE DEF i
      <4>. QED
        BY <3>1, <4>2, ShiftZero DEF CrcTable
    <3>. HIDE DEF i, s, w, T
    <3>8. \A e \in Below(w) : e \in Below(32)
      BY <3>1 DEF Below
    <3>9. ASSUME NEW e \in Below(w) PROVE e \in p_crc' <=> e \in s
      BY <3>2, <3>6, <3>7, <3>8, InXor DEF Word
    <3>10. p_crc' \cap Below(w) = s
      BY <1>7, <3>9
    <3>. QED
      BY <1>7, <3>1, <3>10, ShiftZero
  <2>. QED
    BY <2>1, <2>2
<1>. QED
  BY <1>1, <1>2, <1>8, <1>9 DEF LookedUpInv

LEMMA LookedUpNext ==
  ASSUME TypeOK, Supported, FedInv, LookedUpInv, [Next]_vars
  PROVE  LookedUpInv'
<1>. SUFFICES ASSUME obj.table, InMiddle'
              PROVE  LookedUpInv'
  BY ObjectKept DEF LookedUpInv
<1>0. obj' = obj /\ nBits' = nBits
  BY ObjectKept, SameObject
<1>1. CASE Start
  <2>. DEFINE r == obj.initial \cap Below(obj.width)
  <2>1. obj \in Objects /\ obj.width \in Nat /\ r \in SUBSET Int
    BY ByteBits, WidthType DEF Below
  <2>2. obj.initial \cap Below(nBits) = Shift(r, nBits - obj.width)
    <3>1. CASE obj.width < 8
      <4>1. obj.initial = {}
        BY <2>1, <3>1 DEF Supported
      <4>. QED
        BY <4>1, EmptyShift
    <3>2. CASE ~(obj.width < 8)
      <4>1. nBits = obj.width /\ nBits - obj.width = 0
        BY <2>1, <3>2 DEF nBits
      <4>. QED
        BY <2>1, <4>1, ShiftZero
    <3>. QED
      BY <3>1, <3>2
  <2>. QED
    BY <1>0, <1>1, <2>2, StartTakes DEF LookedUpInv
<1>2. ASSUME NEW b \in Parts, Partial(b) PROVE LookedUpInv'
  <2>1. pc = "open" /\ pc' = "partial" /\ p_crc' = crc
    BY <1>2 DEF Partial
  <2>2. Held' = Held /\ InMiddle
    BY <2>1 DEF Held, InMiddle
  <2>3. Taken' = Taken /\ \A i \in 1 .. Taken : fed'[i] = fed[i]
    BY <1>2, PartialTaken
  <2>4. RemainderTo(obj, fed', Taken) = RemainderTo(obj, fed, Taken)
    BY <2>3, SameBytes
  <2>. QED
    BY <1>0, <2>2, <2>3, <2>4 DEF LookedUpInv
<1>3. CASE LoadByte
  BY <1>3 DEF LoadByte
<1>4. CASE DivideBit
  BY <1>4 DEF DivideBit, Divide, TypeOK
<1>5. CASE TableByte
  BY <1>5, TableTakes
<1>6. CASE Return
  <2>1. pc = "partial" /\ pc' = "open" /\ data = <<>> /\ UNCHANGED <<data, fed>>
        /\ crc' = p_crc \cap Mask
    BY <1>6 DEF Return
  <2>2. Held' = Held \cap Below(nBits) /\ InMiddle
    BY <2>1, ByteBits DEF Held, InMiddle
  <2>3. Taken' = Taken
    BY <2>1, OtherTaken
  <2>. QED
    BY <1>0, <2>1, <2>2, <2>3 DEF LookedUpInv
<1>7. CASE Stop
  BY <1>7 DEF Stop, StopWith, InMiddle
<1>8. CASE UNCHANGED vars
  <2>1. Held' = Held /\ Taken' = Taken /\ UNCHANGED <<pc, fed>>
    BY <1>8 DEF vars, Held, Taken
  <2>. QED
    BY <1>0, <2>1 DEF LookedUpInv, InMiddle
<1>. QED
  BY <1>1, <1>2, <1>3, <1>4, <1>5, <1>6, <1>7, <1>8 DEF Next

-----------------------------------------------------------------------------
(***************************************************************************)
(* The definition, and what compute_partial_stop makes of the register.    *)
(***************************************************************************)
LEMMA DefinitionIs ==
  ASSUME TypeOK
  PROVE  Definition = RemainderTo(obj, fed, Len(fed))
<1>1. fed \in Seq(Bytes) /\ DOMAIN fed = 1 .. Len(fed)
  BY ByteBits
<1>2. \A b : Serial!InOrder(obj, b) = Entering(obj, b)
  BY DEF Serial!InOrder, Entering, Serial!Mirror, Mirror, Serial!Below, Below
<1>3. Message = MessageTo(obj, fed, Len(fed))
  BY <1>1, <1>2 DEF Message, MessageTo
<1>. QED
  BY <1>3 DEF Definition, RemainderTo, DividendTo

LEMMA TableReports ==
  ASSUME TypeOK, NEW p, NEW r, p \cap Below(nBits) = Shift(r, nBits - obj.width)
  PROVE  Xor(ReflectRemainder(p), obj.finalXor) \cap Mask = Serial!Checksum(obj, r)
<1>. DEFINE a == p \cap Below(nBits)
<1>1. Serial!Reported(obj) = nBits /\ Mask = Below(nBits)
  BY ByteBits DEF Serial!Reported, nBits
<1>2. Serial!Aligned(obj, r) = a
  BY <1>1 DEF Serial!Aligned, Serial!Shift, Shift
<1>3. Mirror(p, nBits) = Mirror(a, nBits)
  BY DEF Mirror
<1>. HIDE DEF a
<1>4. Serial!Checksum(obj, r)
        = Xor(IF obj.reflectRemainder THEN Mirror(a, nBits) ELSE a, obj.finalXor)
            \cap Below(nBits)
  BY <1>1, <1>2
     DEF Serial!Checksum, Serial!Xor, Xor, Serial!Mirror, Mirror, Serial!Below, Below
<1>5. CASE obj.reflectRemainder
  BY <1>1, <1>3, <1>4, <1>5 DEF ReflectRemainder
<1>6. CASE ~obj.reflectRemainder
  <2>1. Xor(p, obj.finalXor) \cap Below(nBits) = Xor(a, obj.finalXor) \cap Below(nBits)
    BY DEF a, Xor
  <2>. QED
    BY <1>1, <1>4, <1>6, <2>1 DEF ReflectRemainder
<1>. QED
  BY <1>5, <1>6

LEMMA StopRight ==
  ASSUME TypeOK, Supported, DividedInv, LookedUpInv, Stop
  PROVE  RightChecksum'
<1>. DEFINE w == obj.width
            r == RemainderTo(obj, fed, Len(fed))
<1>1. pc = "open" /\ bit = 0 /\ InMiddle /\ Taken = Len(fed) /\ Held = crc
      /\ UNCHANGED <<obj, fed>>
  BY DEF Stop, StopWith, TypeOK, InMiddle, Taken, Held
<1>2. Definition' = r
  <2>1. Definition' = Definition
    BY <1>1 DEF Definition, Message
  <2>. QED
    BY <2>1, DefinitionIs
<1>3. crc' = Serial!Checksum(obj, r)
  <2>1. CASE ~obj.table
    <3>1. crc \in SUBSET Below(32) /\ WideEnough
      BY DEF TypeOK, Supported
    <3>2. crc' = Xor(ReflectRemainder(IF w < 8 THEN Word(Shift(crc, 8 - w)) ELSE crc),
                     obj.finalXor) \cap Mask
      BY <2>1 DEF Stop, StopWith
    <3>3. crc' = Serial!Checksum(obj, crc \cap Below(w))
      BY <2>1, <3>1, <3>2, StopReports
    <3>4. RemainderNow = crc \cap Below(w)
      BY <1>1 DEF RemainderNow
    <3>5. RemainderNow = r
      BY <1>1, <2>1 DEF DividedInv
    <3>. QED
      BY <3>3, <3>4, <3>5
  <2>2. CASE obj.table
    <3>1. crc' = Xor(ReflectRemainder(crc), obj.finalXor) \cap Mask
      BY <2>2 DEF Stop, StopWith
    <3>2. crc \cap Below(nBits) = Shift(r, nBits - w)
      BY <1>1, <2>2 DEF LookedUpInv
    <3>. HIDE DEF r, w
    <3>. QED
      BY <3>1, <3>2, TableReports DEF w
  <2>. QED
    BY <2>1, <2>2
<1>. QED
  BY <1>1, <1>2, <1>3 DEF RightChecksum, Serial!Checksum, Serial!Aligned, Serial!Reported

LEMMA RightNext ==
  ASSUME TypeOK, Supported, DividedInv, LookedUpInv, RightChecksum, [Next]_vars
  PROVE  RightChecksum'
<1>1. CASE Stop
  BY <1>1, StopRight
<1>2. CASE UNCHANGED vars
  <2>1. UNCHANGED <<obj, crc, pc, fed>>
    BY <1>2 DEF vars
  <2>. QED
    BY <2>1 DEF RightChecksum, Definition, Message
<1>3. CASE ~Stop /\ Next
  <2>1. pc' # "final"
    BY <1>3 DEF Next, Start, Partial, LoadByte, DivideBit, Divide, TableByte,
                TableByteWith, Return
  <2>. QED
    BY <2>1 DEF RightChecksum
<1>. QED
  BY <1>1, <1>2, <1>3

\* compute(), and compute_partial_start, any number of compute_partial and
\* compute_partial_stop, report the checksum of the definition: the remainder of
\* the message as one long polynomial, whatever parts it came in and its length,
\* bit by bit or through a table, for every polynomial and every width from 7 up,
\* and below with a table and the initial value 0.
THEOREM ChecksumRight == Supported => (Spec => []RightChecksum)
<1>. SUFFICES ASSUME Supported PROVE Spec => []RightChecksum
  OBVIOUS
<1>. DEFINE Inv == DataByteInv /\ FedInv /\ DividedInv /\ LookedUpInv /\ RightChecksum
<1>1. WideEnough
  BY DEF Supported
<1>2. Init => Inv
  <2>1. Init => DataByteInv
    BY EmptyShift DEF Init, DataByteInv, ToGo
  <2>. QED
    BY <2>1 DEF Init, FedInv, DividedInv, LookedUpInv, InMiddle, RightChecksum
<1>3. TypeOK /\ Inv /\ [Next]_vars => Inv'
  <2>. SUFFICES ASSUME TypeOK, Inv, [Next]_vars PROVE Inv'
    OBVIOUS
  <2>1. DataByteInv'
    BY <1>1, DataByteNext, TableKeeps DEF DataByteInv
  <2>2. FedInv'
    BY FedNext
  <2>3. DividedInv'
    BY <1>1, DividedNext
  <2>4. LookedUpInv'
    BY LookedUpNext
  <2>5. RightChecksum'
    BY RightNext
  <2>. QED
    BY <2>1, <2>2, <2>3, <2>4, <2>5
<1>4. Inv => RightChecksum
  OBVIOUS
<1>. HIDE DEF Inv
<1>. QED
  BY <1>2, <1>3, <1>4, TypeCorrect, PTL DEF Spec
=============================================================================
