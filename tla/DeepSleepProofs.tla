-------------------------- MODULE DeepSleepProofs ---------------------------
(***************************************************************************)
(* For any handlers, PwmOuts, Tickers and range of the lock's count: what   *)
(* the sleep manager counts.                                                *)
(***************************************************************************)
EXTENDS DeepSleep, FiniteSetTheorems, TLAPS

\* No copy of a written PwmOut, and an empty Callback only for low power.
ProperUse == ~CopyWritten /\ Unset \subseteq LowPower

\* lock() calls that have counted and not returned.
Late == In({"construct", "lock_call"})

Counting ==
  /\ Quiet => lockCount = held + Late
  /\ ~alive => held = 0
  /\ ~alive /\ pc[0] # "construct" => lockCount = 0
  /\ \A c \in Contexts : /\ pc[c] = "construct" => c = 0 /\ ~alive
                         /\ pc[c] = "lock_call" => alive

SleepInv == TypeOK /\ Accounted /\ Counting

-----------------------------------------------------------------------------
LEMMA ContextsFinite == IsFiniteSet(Contexts) /\ 0 \in Contexts
<1>1. 0 \in Contexts
  BY SleepAssumption DEF Contexts
<1>2. IsFiniteSet(Contexts)
  BY SleepAssumption, FS_Interval DEF Contexts
<1>. QED
  BY <1>1, <1>2

LEMMA InType ==
  ASSUME NEW labels
  PROVE  In(labels) \in Nat
<1>. DEFINE A == {c \in Contexts : pc[c] \in labels}
<1>1. IsFiniteSet(A)
  BY ContextsFinite, FS_Subset
<1>2. Cardinality(A) \in Nat
  BY <1>1, FS_CardinalityType
<1>. QED
  BY <1>2 DEF In

\* One context's step moves it between the sets of labels.
LEMMA InStep ==
  ASSUME NEW labels, TypeOK, NEW c \in Contexts, NEW l, Goto(c, l)
  PROVE  In(labels)' = In(labels) + (IF l \in labels THEN 1 ELSE 0)
                                  - (IF pc[c] \in labels THEN 1 ELSE 0)
<1>. DEFINE A == {d \in Contexts : pc[d] \in labels}
            B == {d \in Contexts : pc'[d] \in labels}
<1>1. pc'[c] = l /\ \A d \in Contexts \ {c} : pc'[d] = pc[d]
  BY DEF Goto, TypeOK
<1>2. IsFiniteSet(A) /\ IsFiniteSet(B)
  BY ContextsFinite, FS_Subset
<1>3. Cardinality(A) \in Nat /\ Cardinality(B) \in Nat
  BY <1>2, FS_CardinalityType
<1>4. CASE l \in labels <=> pc[c] \in labels
  <2>1. A = B
    BY <1>1, <1>4
  <2>2. In(labels)' = In(labels)
    BY <2>1 DEF In
  <2>3. In(labels) \in Nat
    BY InType
  <2>. QED
    BY <1>4, <2>2, <2>3
<1>5. CASE l \in labels /\ pc[c] \notin labels
  <2>1. B = A \cup {c} /\ c \notin A
    BY <1>1, <1>5
  <2>2. Cardinality(B) = Cardinality(A) + 1
    BY <1>2, <2>1, FS_AddElement
  <2>. QED
    BY <1>3, <1>5, <2>2 DEF In
<1>6. CASE l \notin labels /\ pc[c] \in labels
  <2>1. A = B \cup {c} /\ c \notin B
    BY <1>1, <1>6
  <2>2. Cardinality(A) = Cardinality(B) + 1
    BY <1>2, <2>1, FS_AddElement
  <2>. QED
    BY <1>3, <1>6, <2>2 DEF In
<1>. QED
  BY <1>4, <1>5, <1>6

LEMMA GotoType ==
  ASSUME TypeOK, NEW c \in Contexts, NEW l \in Labels, Goto(c, l)
  PROVE  pc' \in [Contexts -> Labels]
BY DEF TypeOK, Goto

LEMMA CountType == Unlocking \in Nat /\ Locking \in Nat /\ Late \in Nat
BY InType DEF Unlocking, Locking, Late

LEMMA GotoCounts ==
  ASSUME TypeOK, NEW c \in Contexts, NEW l, Goto(c, l)
  PROVE  /\ Unlocking' = Unlocking + (IF l \in {"unlock_call", "overflow"} THEN 1 ELSE 0)
                         - (IF pc[c] \in {"unlock_call", "overflow"} THEN 1 ELSE 0)
         /\ Locking' = Locking + (IF l \in {"construct", "lock_call", "underflow"} THEN 1 ELSE 0)
                       - (IF pc[c] \in {"construct", "lock_call", "underflow"} THEN 1 ELSE 0)
         /\ Late' = Late + (IF l \in {"construct", "lock_call"} THEN 1 ELSE 0)
                    - (IF pc[c] \in {"construct", "lock_call"} THEN 1 ELSE 0)
BY InStep DEF Unlocking, Locking, Late

\* A set of clients that gains or loses one.
LEMMA ClientsType ==
  ASSUME TypeOK
  PROVE  /\ IsFiniteSet(Written) /\ IsFiniteSet(Ticking)
         /\ Cardinality(Written) \in Nat /\ Cardinality(Ticking) \in Nat
<1>1. Written \subseteq Pwms /\ Ticking \subseteq Tickers
  BY DEF Written, Ticking, TypeOK
<1>2. IsFiniteSet(Written) /\ IsFiniteSet(Ticking)
  BY <1>1, SleepAssumption, FS_Subset
<1>. QED
  BY <1>2, FS_CardinalityType

LEMMA GainsOne ==
  ASSUME NEW A, NEW B, IsFiniteSet(A), NEW x, x \notin A, B = A \cup {x}
  PROVE  Cardinality(B) = Cardinality(A) + 1
BY FS_AddElement

\* When main can act, no context is in a call.
LEMMA AllIdle ==
  ASSUME TypeOK, At(0, "idle")
  PROVE  /\ \A c \in Contexts : pc[c] = "idle"
         /\ Unlocking = 0 /\ Locking = 0 /\ Late = 0 /\ Quiet
<1>1. ASSUME NEW c \in Contexts PROVE pc[c] = "idle"
  <2>1. CASE c = 0
    BY <2>1 DEF At
  <2>2. CASE c # 0
    BY <2>2, SleepAssumption DEF At, Preempted, Contexts
  <2>. QED
    BY <2>1, <2>2
<1>2. ASSUME NEW labels, "idle" \notin labels PROVE In(labels) = 0
  <2>1. {c \in Contexts : pc[c] \in labels} = {}
    BY <1>1, <1>2
  <2>. QED
    BY <2>1, FS_EmptySet DEF In
<1>3. Unlocking = 0 /\ Locking = 0 /\ Late = 0
  BY <1>2 DEF Unlocking, Locking, Late
<1>4. Quiet
  BY <1>1 DEF Quiet
<1>. QED
  BY <1>1, <1>3, <1>4
-----------------------------------------------------------------------------
LEMMA SleepInit == Init => SleepInv
<1>. SUFFICES ASSUME Init PROVE SleepInv
  OBVIOUS
<1>1. TypeOK
  <2>1. 0 \in 0 .. CountRange - 1
    BY SleepAssumption
  <2>2. pc \in [Contexts -> Labels]
    BY DEF Init, Labels
  <2>3. pwm \in [Pwms -> {"none", "unlocked", "locked"}]
    BY DEF Init
  <2>4. manager = 0 /\ alive = FALSE /\ lockCount = 0 /\ held = 0 /\ attached = {}
    BY DEF Init
  <2>5. manager \in Int /\ held \in Nat
    BY <2>4
  <2>6. alive \in BOOLEAN
    BY <2>4
  <2>7. lockCount \in 0 .. CountRange - 1
    BY <2>1, <2>4
  <2>8. attached \subseteq Tickers
    BY <2>4
  <2>. QED
    BY <2>2, <2>3, <2>5, <2>6, <2>7, <2>8 DEF TypeOK
<1>2. At(0, "idle")
  <2>1. \A c \in Contexts : pc[c] = "idle"
    BY DEF Init
  <2>. QED
    BY <2>1, ContextsFinite DEF At, Preempted, Dead
<1>3. Unlocking = 0 /\ Locking = 0 /\ Late = 0
  BY <1>1, <1>2, AllIdle
<1>4. Written = {} /\ Ticking = {}
  BY DEF Init, Written, Ticking
<1>5. Cardinality({}) = 0
  BY FS_EmptySet
<1>6. Accounted
  BY <1>3, <1>4, <1>5 DEF Init, Accounted
<1>7. Counting
  BY <1>3 DEF Init, Counting
<1>. QED
  BY <1>1, <1>6, <1>7 DEF SleepInv

LEMMA ModSmall == \A a \in Nat, b \in Nat \ {0} : a < b => a % b = a
OBVIOUS

LEMMA ModOver == \A a \in Nat, b \in Nat \ {0} : (a < b => (a + b) % b = a) /\ b % b = 0
OBVIOUS

\* The 16-bit count goes up and down by one.
LEMMA CountSteps ==
  ASSUME NEW n \in 0 .. CountRange - 1
  PROVE  /\ (n + 1) % CountRange = IF n = CountRange - 1 THEN 0 ELSE n + 1
         /\ (n + CountRange - 1) % CountRange = IF n = 0 THEN CountRange - 1 ELSE n - 1
<1>2. (n + 1) % CountRange = IF n = CountRange - 1 THEN 0 ELSE n + 1
  <2>1. n # CountRange - 1 => n + 1 \in Nat /\ n + 1 < CountRange
    BY SleepAssumption
  <2>2. n = CountRange - 1 => n + 1 = CountRange
    BY SleepAssumption
  <2>. QED
    BY <2>1, <2>2, SleepAssumption, ModSmall, ModOver
<1>3. n + CountRange - 1 = (n - 1) + CountRange
  BY SleepAssumption
<1>4. (n + CountRange - 1) % CountRange = IF n = 0 THEN CountRange - 1 ELSE n - 1
  <2>1. CASE n = 0
    <3>1. n + CountRange - 1 = CountRange - 1 /\ CountRange - 1 \in Nat
      BY <2>1, SleepAssumption
    <3>. QED
      BY <2>1, <3>1, SleepAssumption, ModSmall
  <2>2. CASE n # 0
    <3>1. n - 1 \in Nat /\ n - 1 < CountRange
      BY <2>2, SleepAssumption
    <3>2. ((n - 1) + CountRange) % CountRange = n - 1
      BY <3>1, SleepAssumption, ModOver
    <3>. QED
      BY <1>3, <2>2, <3>2
  <2>. QED
    BY <2>1, <2>2
<1>. QED
  BY <1>2, <1>4
-----------------------------------------------------------------------------
(***************************************************************************)
(* DeepSleepLock.                                                          *)
(***************************************************************************)
\* A step of the lock in context c changes the manager by as much as the terms
\* of its account.
LEMMA LockInv ==
  ASSUME SleepInv, NEW c \in Contexts, NEW k \in Labels, NEW l \in Labels,
         At(c, k), Goto(c, l), UNCHANGED <<pwm, attached>>,
         manager' \in Int, lockCount' \in 0 .. CountRange - 1, held' \in Nat,
         alive' \in BOOLEAN,
         l # "error" =>
           manager' = manager + (IF lockCount' > 0 THEN 1 ELSE 0)
                              - (IF lockCount > 0 THEN 1 ELSE 0)
                      + (Unlocking' - Unlocking) - (Locking' - Locking),
         Counting'
  PROVE  SleepInv'
<1>1. TypeOK /\ pc' \in [Contexts -> Labels] /\ pc'[c] = l /\ ~Dead
  BY GotoType DEF SleepInv, At, Goto, TypeOK
<1>2. TypeOK'
  BY <1>1 DEF TypeOK
<1>3. Written' = Written /\ Ticking' = Ticking
  BY DEF Written, Ticking
<1>4. Cardinality(Written) \in Nat /\ Cardinality(Ticking) \in Nat
  BY <1>1, ClientsType
<1>5. Unlocking \in Nat /\ Locking \in Nat
  BY CountType
<1>6. Unlocking' \in Int /\ Locking' \in Int
  BY <1>1, GotoCounts, CountType
<1>7. manager = (IF lockCount > 0 THEN 1 ELSE 0) + Unlocking - Locking
                + Cardinality(Written) + Cardinality(Ticking)
  BY <1>1 DEF SleepInv, Accounted
<1>8. Accounted'
  <2>1. CASE l = "error"
    BY <1>1, <2>1 DEF Accounted, Dead
  <2>2. CASE l # "error"
    <3>1. manager' = (IF lockCount' > 0 THEN 1 ELSE 0) + Unlocking' - Locking'
                     + Cardinality(Written') + Cardinality(Ticking')
      BY <1>1, <1>3, <1>4, <1>5, <1>6, <1>7, <2>2 DEF TypeOK
    <3>. QED
      BY <3>1 DEF Accounted
  <2>. QED
    BY <2>1, <2>2
<1>. QED
  BY <1>2, <1>8 DEF SleepInv

LEMMA LockContext ==
  ASSUME SleepInv, NEW c \in Contexts, NEW k, NEW l \in Labels, At(c, k), Goto(c, l)
  PROVE  /\ TypeOK /\ Counting /\ ~Dead /\ pc[c] = k /\ pc'[c] = l
         /\ \A d \in Contexts \ {c} : pc'[d] = pc[d]
         /\ Unlocking \in Nat /\ Locking \in Nat /\ Late \in Nat
         /\ Quiet' => l \notin {"overflow", "underflow", "error"}
         /\ Quiet' /\ k \notin {"overflow", "underflow", "error"} => Quiet
<1>1. TypeOK /\ Counting /\ ~Dead /\ pc[c] = k /\ pc'[c] = l
      /\ \A d \in Contexts \ {c} : pc'[d] = pc[d]
  BY DEF SleepInv, At, Goto, TypeOK
<1>2. Quiet' => l \notin {"overflow", "underflow", "error"}
  BY <1>1 DEF Quiet
<1>3. Quiet' /\ k \notin {"overflow", "underflow", "error"} => Quiet
  BY <1>1 DEF Quiet
<1>. QED
  BY <1>1, <1>2, <1>3, CountType

LEMMA ConstructInv ==
  ASSUME SleepInv, Construct
  PROVE  SleepInv'
<1>1. At(0, "idle") /\ ~alive /\ lockCount' = 1 /\ Goto(0, "construct")
      /\ UNCHANGED <<manager, alive, held, pwm, attached>>
      /\ 0 \in Contexts /\ "idle" \in Labels /\ "construct" \in Labels
  BY ContextsFinite DEF Construct, Labels
<1>2. /\ TypeOK /\ Counting /\ ~Dead /\ pc[0] = "idle" /\ pc'[0] = "construct"
      /\ \A d \in Contexts \ {0} : pc'[d] = pc[d]
  BY <1>1, LockContext
<1>3. Unlocking = 0 /\ Locking = 0 /\ Late = 0 /\ \A d \in Contexts : pc[d] = "idle"
  BY <1>1, <1>2, AllIdle
<1>4. Unlocking' = 0 /\ Locking' = 1 /\ Late' = 1
  BY <1>1, <1>2, <1>3, GotoCounts
<1>5. lockCount = 0 /\ held = 0
  BY <1>1, <1>2 DEF Counting
<1>6. Counting'
  <2>1. pc'[0] = "construct" /\ \A d \in Contexts \ {0} : pc'[d] = "idle"
    BY <1>2, <1>3
  <2>2. lockCount' = 1 /\ held' = 0 /\ ~alive'
    BY <1>1, <1>5
  <2>. QED
    BY <1>4, <2>1, <2>2 DEF Counting
<1>7. 1 \in 0 .. CountRange - 1
  BY SleepAssumption
<1>8. manager \in Int /\ held \in Nat /\ alive \in BOOLEAN
  BY <1>2 DEF TypeOK
<1>9. manager' = manager + (IF lockCount' > 0 THEN 1 ELSE 0) - (IF lockCount > 0 THEN 1 ELSE 0)
                 + (Unlocking' - Unlocking) - (Locking' - Locking)
  BY <1>1, <1>3, <1>4, <1>5, <1>8
<1>. QED
  BY <1>1, <1>6, <1>7, <1>8, <1>9, LockInv

LEMMA ConstructedInv ==
  ASSUME SleepInv, Constructed
  PROVE  SleepInv'
<1>1. At(0, "construct") /\ manager' = manager + 1 /\ alive' = TRUE /\ held' = 1
      /\ Goto(0, "idle") /\ UNCHANGED <<lockCount, pwm, attached>>
      /\ 0 \in Contexts /\ "idle" \in Labels /\ "construct" \in Labels
  BY ContextsFinite DEF Constructed, ManagerLock, Labels
<1>2. /\ TypeOK /\ Counting /\ ~Dead /\ pc[0] = "construct" /\ pc'[0] = "idle"
      /\ \A d \in Contexts \ {0} : pc'[d] = pc[d]
      /\ Unlocking \in Nat /\ Locking \in Nat /\ Late \in Nat
      /\ Quiet' => Quiet
  BY <1>1, LockContext
<1>3. Unlocking' = Unlocking /\ Locking' = Locking - 1 /\ Late' = Late - 1
  BY <1>1, <1>2, GotoCounts
<1>4. ~alive /\ held = 0
  BY <1>1, <1>2 DEF Counting
<1>5. Counting'
  <2>1. Quiet' => lockCount' = held' + Late'
    BY <1>1, <1>2, <1>3, <1>4 DEF Counting
  <2>2. \A d \in Contexts : pc'[d] # "construct"
    BY <1>2 DEF Counting
  <2>. QED
    BY <1>1, <2>1, <2>2 DEF Counting
<1>6. manager \in Int /\ lockCount \in 0 .. CountRange - 1
  BY <1>2 DEF TypeOK
<1>7. manager' \in Int /\ held' \in Nat /\ alive' \in BOOLEAN
  BY <1>1, <1>6
<1>8. manager' = manager + (IF lockCount' > 0 THEN 1 ELSE 0) - (IF lockCount > 0 THEN 1 ELSE 0)
                 + (Unlocking' - Unlocking) - (Locking' - Locking)
  BY <1>1, <1>2, <1>3, <1>6
<1>. QED
  BY <1>1, <1>5, <1>6, <1>7, <1>8, LockInv

LEMMA DestroyInv ==
  ASSUME SleepInv, Destroy
  PROVE  SleepInv'
<1>. DEFINE l == IF lockCount # 0 THEN "unlock_call" ELSE "idle"
<1>1. At(0, "idle") /\ alive /\ alive' = FALSE /\ lockCount' = 0 /\ held' = 0
      /\ Goto(0, l) /\ UNCHANGED <<manager, pwm, attached>>
      /\ 0 \in Contexts /\ "idle" \in Labels /\ l \in Labels
  BY ContextsFinite DEF Destroy, DestroyWhen, Labels
<1>2. /\ TypeOK /\ Counting /\ ~Dead /\ pc[0] = "idle" /\ pc'[0] = l
      /\ \A d \in Contexts \ {0} : pc'[d] = pc[d]
  BY <1>1, LockContext
<1>3. Unlocking = 0 /\ Locking = 0 /\ Late = 0 /\ \A d \in Contexts : pc[d] = "idle"
  BY <1>1, <1>2, AllIdle
<1>4. Unlocking' = (IF lockCount # 0 THEN 1 ELSE 0) /\ Locking' = 0 /\ Late' = 0
  BY <1>1, <1>2, <1>3, GotoCounts
<1>5. Counting'
  <2>1. \A d \in Contexts : pc'[d] \in {"idle", "unlock_call"}
    BY <1>2, <1>3
  <2>. QED
    BY <1>1, <1>4, <2>1 DEF Counting
<1>6. manager \in Int /\ lockCount \in 0 .. CountRange - 1 /\ 0 \in 0 .. CountRange - 1
  BY <1>2, SleepAssumption DEF TypeOK
<1>7. manager' \in Int /\ held' \in Nat /\ alive' \in BOOLEAN /\ lockCount' \in 0 .. CountRange - 1
  BY <1>1, <1>6
<1>8. manager' = manager + (IF lockCount' > 0 THEN 1 ELSE 0) - (IF lockCount > 0 THEN 1 ELSE 0)
                 + (Unlocking' - Unlocking) - (Locking' - Locking)
  BY <1>1, <1>3, <1>4, <1>6
<1>. QED
  BY <1>1, <1>5, <1>7, <1>8, LockInv

LEMMA LockedInv ==
  ASSUME SleepInv, NEW c \in Contexts, Lock(c)
  PROVE  SleepInv'
<1>1. At(c, "idle") /\ alive /\ lockCount' = (lockCount + 1) % CountRange
      /\ UNCHANGED <<manager, alive, pwm, attached>>
  BY DEF Lock, LockTo
<1>2. PICK l \in Labels :
        /\ Goto(c, l)
        /\ \/ lockCount' = 1 /\ l = "lock_call" /\ held' = held
           \/ lockCount' = 0 /\ l = "overflow" /\ held' = held
           \/ lockCount' > 1 /\ l = "idle" /\ held' = held + 1
  <2>1. CASE lockCount' > 1 /\ UNCHANGED pc /\ held' = held + 1
    <3>1. Goto(c, "idle") /\ "idle" \in Labels
      BY <1>1, <2>1 DEF At, Goto, SleepInv, TypeOK, Labels
    <3>. QED
      BY <2>1, <3>1
  <2>2. CASE lockCount' = 1 /\ Goto(c, "lock_call") /\ UNCHANGED held
    BY <2>2 DEF Labels
  <2>3. CASE lockCount' = 0 /\ Goto(c, "overflow") /\ UNCHANGED held
    BY <2>3 DEF Labels
  <2>. QED
    BY <2>1, <2>2, <2>3 DEF Lock, LockTo
<1>3. /\ TypeOK /\ Counting /\ ~Dead /\ pc[c] = "idle" /\ pc'[c] = l
      /\ \A d \in Contexts \ {c} : pc'[d] = pc[d]
      /\ Unlocking \in Nat /\ Locking \in Nat /\ Late \in Nat
      /\ Quiet' => Quiet /\ l \notin {"overflow", "underflow", "error"}
  BY <1>1, <1>2, LockContext
<1>4. /\ Unlocking' = Unlocking + (IF l = "overflow" THEN 1 ELSE 0)
      /\ Locking' = Locking + (IF l = "lock_call" THEN 1 ELSE 0)
      /\ Late' = Late + (IF l = "lock_call" THEN 1 ELSE 0)
  BY <1>2, <1>3, GotoCounts
<1>5. manager \in Int /\ lockCount \in 0 .. CountRange - 1 /\ held \in Nat /\ alive \in BOOLEAN
  BY <1>3 DEF TypeOK
<1>6. lockCount' = IF lockCount = CountRange - 1 THEN 0 ELSE lockCount + 1
  BY <1>1, <1>5, CountSteps
<1>7. manager' \in Int /\ held' \in Nat /\ alive' \in BOOLEAN /\ lockCount' \in 0 .. CountRange - 1
  BY <1>1, <1>2, <1>5, <1>6, SleepAssumption
<1>8. manager' = manager + (IF lockCount' > 0 THEN 1 ELSE 0) - (IF lockCount > 0 THEN 1 ELSE 0)
                 + (Unlocking' - Unlocking) - (Locking' - Locking)
  BY <1>1, <1>2, <1>3, <1>4, <1>5, <1>6, SleepAssumption
<1>9. Counting'
  <2>1. Quiet' => lockCount' = held' + Late'
    BY <1>2, <1>3, <1>4, <1>5, <1>6, SleepAssumption DEF Counting
  <2>2. \A d \in Contexts : /\ pc'[d] = "construct" => d = 0 /\ ~alive
                            /\ pc'[d] = "lock_call" => alive
    BY <1>1, <1>2, <1>3 DEF Counting
  <2>. QED
    BY <1>1, <2>1, <2>2 DEF Counting
<1>. QED
  BY <1>1, <1>2, <1>3, <1>7, <1>8, <1>9, LockInv DEF Labels

LEMMA LockCallInv ==
  ASSUME SleepInv, NEW c \in Contexts, LockCall(c)
  PROVE  SleepInv'
<1>1. At(c, "lock_call") /\ manager' = manager + 1 /\ held' = held + 1 /\ Goto(c, "idle")
      /\ UNCHANGED <<alive, lockCount, pwm, attached>>
      /\ "idle" \in Labels /\ "lock_call" \in Labels
  BY DEF LockCall, ManagerLock, Labels
<1>2. /\ TypeOK /\ Counting /\ ~Dead /\ pc[c] = "lock_call" /\ pc'[c] = "idle"
      /\ \A d \in Contexts \ {c} : pc'[d] = pc[d]
      /\ Unlocking \in Nat /\ Locking \in Nat /\ Late \in Nat
      /\ Quiet' => Quiet
  BY <1>1, LockContext
<1>3. Unlocking' = Unlocking /\ Locking' = Locking - 1 /\ Late' = Late - 1
  BY <1>1, <1>2, GotoCounts
<1>4. alive
  BY <1>2 DEF Counting
<1>5. manager \in Int /\ lockCount \in 0 .. CountRange - 1 /\ held \in Nat /\ alive \in BOOLEAN
  BY <1>2 DEF TypeOK
<1>6. Counting'
  <2>1. Quiet' => lockCount' = held' + Late'
    BY <1>1, <1>2, <1>3, <1>5 DEF Counting
  <2>2. \A d \in Contexts : /\ pc'[d] = "construct" => d = 0 /\ ~alive
                            /\ pc'[d] = "lock_call" => alive
    BY <1>2, <1>4 DEF Counting
  <2>. QED
    BY <1>1, <1>4, <2>1, <2>2 DEF Counting
<1>7. manager' \in Int /\ held' \in Nat /\ alive' \in BOOLEAN /\ lockCount' \in 0 .. CountRange - 1
  BY <1>1, <1>5
<1>8. manager' = manager + (IF lockCount' > 0 THEN 1 ELSE 0) - (IF lockCount > 0 THEN 1 ELSE 0)
                 + (Unlocking' - Unlocking) - (Locking' - Locking)
  BY <1>1, <1>2, <1>3, <1>5
<1>. QED
  BY <1>1, <1>6, <1>7, <1>8, LockInv

LEMMA UnlockInv ==
  ASSUME SleepInv, NEW c \in Contexts, Unlock(c)
  PROVE  SleepInv'
<1>. DEFINE l == IF lockCount' = 0 THEN "unlock_call"
                 ELSE IF lockCount' = CountRange - 1 THEN "underflow" ELSE "idle"
<1>1. At(c, "idle") /\ alive /\ held > 0 /\ held' = held - 1
      /\ lockCount' = (lockCount + CountRange - 1) % CountRange
      /\ Goto(c, l) /\ UNCHANGED <<manager, alive, pwm, attached>>
      /\ l \in Labels /\ "idle" \in Labels
  BY DEF Unlock, UnlockAt, Labels
<1>2. /\ TypeOK /\ Counting /\ ~Dead /\ pc[c] = "idle" /\ pc'[c] = l
      /\ \A d \in Contexts \ {c} : pc'[d] = pc[d]
      /\ Unlocking \in Nat /\ Locking \in Nat /\ Late \in Nat
      /\ Quiet' => Quiet /\ l \notin {"overflow", "underflow", "error"}
  BY <1>1, LockContext
<1>3. /\ Unlocking' = Unlocking + (IF l = "unlock_call" THEN 1 ELSE 0)
      /\ Locking' = Locking + (IF l = "underflow" THEN 1 ELSE 0)
      /\ Late' = Late
  BY <1>1, <1>2, GotoCounts
<1>4. manager \in Int /\ lockCount \in 0 .. CountRange - 1 /\ held \in Nat /\ alive \in BOOLEAN
  BY <1>2 DEF TypeOK
<1>5. lockCount' = IF lockCount = 0 THEN CountRange - 1 ELSE lockCount - 1
  BY <1>1, <1>4, CountSteps
<1>6. /\ l = "unlock_call" <=> lockCount = 1
      /\ l = "underflow" <=> lockCount = 0
  BY <1>4, <1>5, SleepAssumption
<1>7. manager' \in Int /\ held' \in Nat /\ alive' \in BOOLEAN /\ lockCount' \in 0 .. CountRange - 1
  BY <1>1, <1>4, <1>5, SleepAssumption
<1>8. manager' = manager + (IF lockCount' > 0 THEN 1 ELSE 0) - (IF lockCount > 0 THEN 1 ELSE 0)
                 + (Unlocking' - Unlocking) - (Locking' - Locking)
  <2>. HIDE DEF l
  <2>. QED
    BY <1>1, <1>2, <1>3, <1>4, <1>5, <1>6, SleepAssumption
<1>9. Counting'
  <2>1. Quiet' => lockCount' = held' + Late'
    BY <1>1, <1>2, <1>3, <1>4, <1>5, <1>6 DEF Counting
  <2>2. \A d \in Contexts : /\ pc'[d] = "construct" => d = 0 /\ ~alive
                            /\ pc'[d] = "lock_call" => alive
    BY <1>1, <1>2 DEF Counting
  <2>. QED
    BY <1>1, <2>1, <2>2 DEF Counting
<1>. QED
  BY <1>1, <1>7, <1>8, <1>9, LockInv

LEMMA UnlockCallInv ==
  ASSUME SleepInv, NEW c \in Contexts, UnlockCall(c)
  PROVE  SleepInv'
<1>1. At(c, "unlock_call") /\ manager' = manager - 1 /\ Goto(c, "idle")
      /\ UNCHANGED <<alive, lockCount, held, pwm, attached>>
      /\ "idle" \in Labels /\ "unlock_call" \in Labels
  BY DEF UnlockCall, ManagerUnlock, Labels
<1>2. /\ TypeOK /\ Counting /\ ~Dead /\ pc[c] = "unlock_call" /\ pc'[c] = "idle"
      /\ \A d \in Contexts \ {c} : pc'[d] = pc[d]
      /\ Unlocking \in Nat /\ Locking \in Nat /\ Late \in Nat
      /\ Quiet' => Quiet
  BY <1>1, LockContext
<1>3. Unlocking' = Unlocking - 1 /\ Locking' = Locking /\ Late' = Late
  BY <1>1, <1>2, GotoCounts
<1>4. manager \in Int /\ lockCount \in 0 .. CountRange - 1 /\ held \in Nat /\ alive \in BOOLEAN
  BY <1>2 DEF TypeOK
<1>5. Counting'
  <2>1. Quiet' => lockCount' = held' + Late'
    BY <1>1, <1>2, <1>3 DEF Counting
  <2>2. ~alive' /\ pc'[0] # "construct" => lockCount' = 0
    BY <1>1, <1>2, ContextsFinite DEF Counting
  <2>3. \A d \in Contexts : /\ pc'[d] = "construct" => d = 0 /\ ~alive
                            /\ pc'[d] = "lock_call" => alive
    BY <1>2 DEF Counting
  <2>. QED
    BY <1>1, <1>2, <2>1, <2>2, <2>3 DEF Counting
<1>6. manager' \in Int /\ held' \in Nat /\ alive' \in BOOLEAN /\ lockCount' \in 0 .. CountRange - 1
  BY <1>1, <1>4
<1>7. manager' = manager + (IF lockCount' > 0 THEN 1 ELSE 0) - (IF lockCount > 0 THEN 1 ELSE 0)
                 + (Unlocking' - Unlocking) - (Locking' - Locking)
  BY <1>1, <1>2, <1>3, <1>4
<1>. QED
  BY <1>1, <1>5, <1>6, <1>7, LockInv

LEMMA ErrorInv ==
  ASSUME SleepInv, NEW c \in Contexts, Error(c)
  PROVE  SleepInv'
<1>1. PICK k \in Labels : At(c, k) /\ k \in {"overflow", "underflow"}
  BY DEF Error, Labels
<1>2. Goto(c, "error") /\ UNCHANGED <<manager, alive, lockCount, held, pwm, attached>>
      /\ "error" \in Labels
  BY DEF Error, Labels
<1>3. /\ TypeOK /\ Counting /\ pc[c] = k /\ pc'[c] = "error"
      /\ \A d \in Contexts \ {c} : pc'[d] = pc[d]
      /\ ~Quiet'
  BY <1>1, <1>2, LockContext
<1>4. Counting'
  <2>1. ~alive' /\ pc'[0] # "construct" => lockCount' = 0
    BY <1>1, <1>2, <1>3, ContextsFinite DEF Counting
  <2>2. \A d \in Contexts : /\ pc'[d] = "construct" => d = 0 /\ ~alive
                            /\ pc'[d] = "lock_call" => alive
    BY <1>3 DEF Counting
  <2>. QED
    BY <1>2, <1>3, <2>1, <2>2 DEF Counting
<1>5. manager' \in Int /\ held' \in Nat /\ alive' \in BOOLEAN /\ lockCount' \in 0 .. CountRange - 1
  BY <1>2, <1>3 DEF TypeOK
<1>. QED
  BY <1>1, <1>2, <1>4, <1>5, LockInv
-----------------------------------------------------------------------------
(***************************************************************************)
(* PwmOut and Ticker.                                                      *)
(***************************************************************************)
\* A client's step leaves the lock alone and changes the manager by as much as
\* the number of clients that hold deep sleep off.
LEMMA ClientInv ==
  ASSUME SleepInv, UNCHANGED lock, ~Dead,
         pwm' \in [Pwms -> {"none", "unlocked", "locked"}], attached' \subseteq Tickers,
         NEW dw \in Int, NEW dt \in Int,
         Cardinality(Written') = Cardinality(Written) + dw,
         Cardinality(Ticking') = Cardinality(Ticking) + dt,
         manager' = manager + dw + dt
  PROVE  SleepInv'
<1>1. TypeOK /\ Accounted /\ Counting
  BY DEF SleepInv
<1>2. UNCHANGED <<alive, lockCount, held, pc>>
  BY DEF lock
<1>3. manager \in Int
  BY <1>1 DEF TypeOK
<1>4. TypeOK'
  BY <1>1, <1>2, <1>3 DEF TypeOK
<1>5. Unlocking' = Unlocking /\ Locking' = Locking /\ Late' = Late /\ (Quiet' <=> Quiet)
  BY <1>2 DEF Unlocking, Locking, Late, In, Quiet
<1>6. Counting'
  BY <1>1, <1>2, <1>5 DEF Counting
<1>7. Accounted'
  <2>1. Cardinality(Written) \in Nat /\ Cardinality(Ticking) \in Nat
    BY <1>1, ClientsType
  <2>2. manager = (IF lockCount > 0 THEN 1 ELSE 0) + Unlocking - Locking
                  + Cardinality(Written) + Cardinality(Ticking)
    BY <1>1 DEF Accounted
  <2>3. manager' = (IF lockCount > 0 THEN 1 ELSE 0) + Unlocking - Locking
                   + Cardinality(Written') + Cardinality(Ticking')
    BY <1>3, <2>1, <2>2, CountType
  <2>. QED
    BY <1>2, <1>5, <2>3 DEF Accounted
<1>. QED
  BY <1>4, <1>6, <1>7 DEF SleepInv

LEMMA ClientContext ==
  ASSUME SleepInv, NEW c, At(c, "idle")
  PROVE  /\ ~Dead /\ TypeOK /\ manager \in Int
         /\ pwm \in [Pwms -> {"none", "unlocked", "locked"}] /\ attached \subseteq Tickers
         /\ IsFiniteSet(Written) /\ IsFiniteSet(Ticking)
         /\ Cardinality(Written) \in Nat /\ Cardinality(Ticking) \in Nat
BY ClientsType DEF SleepInv, TypeOK, At

\* Ticker: attaching and detaching, for any t, when they do to the set what
\* they do to the manager.
LEMMA TickerInv ==
  ASSUME SleepInv, NEW c, At(c, "idle"), NEW t \in Tickers, UNCHANGED <<lock, pwm>>,
         \/ /\ attached' = attached \cup {t}
            /\ manager' = IF t \notin attached /\ t \notin LowPower THEN manager + 1 ELSE manager
         \/ /\ attached' = attached \ {t}
            /\ manager' = IF t \in attached /\ t \notin LowPower THEN manager - 1 ELSE manager
  PROVE  SleepInv'
<1>1. /\ ~Dead /\ TypeOK /\ manager \in Int
      /\ pwm \in [Pwms -> {"none", "unlocked", "locked"}] /\ attached \subseteq Tickers
      /\ IsFiniteSet(Written) /\ IsFiniteSet(Ticking)
      /\ Cardinality(Written) \in Nat /\ Cardinality(Ticking) \in Nat
  BY ClientContext
<1>2. UNCHANGED lock /\ UNCHANGED pwm /\ Written' = Written
  BY DEF Written
<1>3. attached' \subseteq Tickers
  BY <1>1
<1>4. CASE t \notin attached /\ t \notin LowPower /\ attached' = attached \cup {t}
           /\ manager' = manager + 1
  <2>1. Ticking' = Ticking \cup {t} /\ t \notin Ticking
    BY <1>4 DEF Ticking
  <2>2. Cardinality(Ticking') = Cardinality(Ticking) + 1
    BY <1>1, <2>1, GainsOne
  <2>3. Cardinality(Written') = Cardinality(Written) + 0 /\ manager' = manager + 0 + 1
    BY <1>1, <1>2, <1>4
  <2>. QED
    BY <1>1, <1>2, <1>3, <2>2, <2>3, ClientInv
<1>5. CASE t \in attached /\ t \notin LowPower /\ attached' = attached \ {t}
           /\ manager' = manager - 1
  <2>1. Ticking = Ticking' \cup {t} /\ t \notin Ticking' /\ Ticking' \subseteq Ticking
    BY <1>5 DEF Ticking
  <2>2. IsFiniteSet(Ticking')
    BY <1>1, <2>1, FS_Subset
  <2>3. Cardinality(Ticking) = Cardinality(Ticking') + 1 /\ Cardinality(Ticking') \in Nat
    BY <2>1, <2>2, GainsOne, FS_CardinalityType
  <2>4. Cardinality(Ticking') = Cardinality(Ticking) + (-1)
    BY <2>3
  <2>5. Cardinality(Written') = Cardinality(Written) + 0 /\ manager' = manager + 0 + (-1)
    BY <1>1, <1>2, <1>5
  <2>. QED
    BY <1>1, <1>2, <1>3, <2>4, <2>5, ClientInv
<1>6. CASE Ticking' = Ticking /\ manager' = manager
  <2>1. Cardinality(Ticking') = Cardinality(Ticking) + 0
        /\ Cardinality(Written') = Cardinality(Written) + 0 /\ manager' = manager + 0 + 0
    BY <1>1, <1>2, <1>6
  <2>. QED
    BY <1>1, <1>2, <1>3, <2>1, ClientInv
<1>. QED
  BY <1>4, <1>5, <1>6 DEF Ticking

LEMMA AttachInv ==
  ASSUME ProperUse, SleepInv, NEW c, NEW t \in Tickers,
         Attach(c, t) \/ AttachNothing(c, t) \/ Detach(c, t)
  PROVE  SleepInv'
<1>1. CASE Attach(c, t)
  BY <1>1, TickerInv DEF Attach, AttachWhen, ManagerLock
<1>2. CASE AttachNothing(c, t)
  <2>1. At(c, "idle") /\ t \in LowPower /\ manager' = manager /\ attached' = attached \ {t}
        /\ UNCHANGED <<lock, pwm>>
    BY <1>2 DEF AttachNothing, ProperUse
  <2>. QED
    BY <2>1, TickerInv
<1>3. CASE Detach(c, t)
  BY <1>3, TickerInv DEF Detach, ManagerUnlock
<1>. QED
  BY <1>1, <1>2, <1>3

\* PwmOut, the same way: to is what becomes of one object's flag.
Becomes(p, to) ==
  /\ pwm' = [pwm EXCEPT ![p] = to]
  /\ manager' = manager + (IF to = "locked" THEN 1 ELSE 0) - (IF pwm[p] = "locked" THEN 1 ELSE 0)

LEMMA PwmInv ==
  ASSUME SleepInv, NEW c, At(c, "idle"), NEW p \in Pwms, NEW to \in {"none", "unlocked", "locked"},
         UNCHANGED <<lock, attached>>, Becomes(p, to)
  PROVE  SleepInv'
<1>1. /\ ~Dead /\ TypeOK /\ manager \in Int
      /\ pwm \in [Pwms -> {"none", "unlocked", "locked"}] /\ attached \subseteq Tickers
      /\ IsFiniteSet(Written) /\ IsFiniteSet(Ticking)
      /\ Cardinality(Written) \in Nat /\ Cardinality(Ticking) \in Nat
  BY ClientContext
<1>2. UNCHANGED lock /\ UNCHANGED attached /\ Ticking' = Ticking
  BY DEF Ticking
<1>3. /\ pwm' \in [Pwms -> {"none", "unlocked", "locked"}]
      /\ pwm'[p] = to /\ \A q \in Pwms \ {p} : pwm'[q] = pwm[q]
  BY <1>1 DEF Becomes
<1>4. CASE to = "locked" /\ pwm[p] # "locked"
  <2>1. Written' = Written \cup {p} /\ p \notin Written
    BY <1>3, <1>4 DEF Written
  <2>2. Cardinality(Written') = Cardinality(Written) + 1
    BY <1>1, <2>1, GainsOne
  <2>3. Cardinality(Ticking') = Cardinality(Ticking) + 0 /\ manager' = manager + 1 + 0
    BY <1>1, <1>2, <1>4 DEF Becomes
  <2>. QED
    BY <1>1, <1>2, <1>3, <2>2, <2>3, ClientInv
<1>5. CASE to # "locked" /\ pwm[p] = "locked"
  <2>1. Written = Written' \cup {p} /\ p \notin Written' /\ Written' \subseteq Written
    BY <1>3, <1>5 DEF Written
  <2>2. IsFiniteSet(Written')
    BY <1>1, <2>1, FS_Subset
  <2>3. Cardinality(Written) = Cardinality(Written') + 1 /\ Cardinality(Written') \in Nat
    BY <2>1, <2>2, GainsOne, FS_CardinalityType
  <2>4. Cardinality(Written') = Cardinality(Written) + (-1)
    BY <2>3
  <2>5. Cardinality(Ticking') = Cardinality(Ticking) + 0 /\ manager' = manager + (-1) + 0
    BY <1>1, <1>2, <1>5 DEF Becomes
  <2>. QED
    BY <1>1, <1>2, <1>3, <2>4, <2>5, ClientInv
<1>6. CASE to = "locked" <=> pwm[p] = "locked"
  <2>1. Written' = Written /\ manager' = manager
    BY <1>1, <1>3, <1>6 DEF Written, Becomes
  <2>2. Cardinality(Ticking') = Cardinality(Ticking) + 0
        /\ Cardinality(Written') = Cardinality(Written) + 0 /\ manager' = manager + 0 + 0
    BY <1>1, <1>2, <2>1
  <2>. QED
    BY <1>1, <1>2, <1>3, <2>2, ClientInv
<1>. QED
  BY <1>4, <1>5, <1>6

LEMMA PwmStepInv ==
  ASSUME ProperUse, SleepInv, NEW p \in Pwms, NEW q \in Pwms, NEW c,
         PwmConstruct(p) \/ PwmCopy(q, p) \/ PwmWrite(c, p) \/ PwmDestroy(p)
  PROVE  SleepInv'
<1>1. manager \in Int /\ pwm \in [Pwms -> {"none", "unlocked", "locked"}]
  BY DEF SleepInv, TypeOK
<1>2. CASE PwmConstruct(p)
  <2>1. At(0, "idle") /\ UNCHANGED <<lock, attached>> /\ Becomes(p, "unlocked")
    BY <1>1, <1>2 DEF PwmConstruct, Becomes
  <2>. QED
    BY <2>1, PwmInv
<1>3. CASE PwmCopy(q, p)
  <2>1. pwm[q] # "locked" /\ pwm[q] \in {"none", "unlocked", "locked"} /\ pwm[p] = "none"
    BY <1>1, <1>3 DEF PwmCopy, ProperUse
  <2>2. At(0, "idle") /\ UNCHANGED <<lock, attached>> /\ Becomes(p, pwm[q])
    BY <1>1, <1>3, <2>1 DEF PwmCopy, Becomes
  <2>. QED
    BY <2>1, <2>2, PwmInv
<1>4. CASE PwmWrite(c, p)
  <2>1. pwm[p] \in {"unlocked", "locked"}
    BY <1>1, <1>4 DEF PwmWrite
  <2>2. At(c, "idle") /\ UNCHANGED <<lock, attached>> /\ Becomes(p, "locked")
    BY <1>1, <1>4, <2>1 DEF PwmWrite, ManagerLock, Becomes
  <2>. QED
    BY <2>2, PwmInv
<1>5. CASE PwmDestroy(p)
  <2>1. At(0, "idle") /\ UNCHANGED <<lock, attached>> /\ Becomes(p, "none")
    BY <1>1, <1>5 DEF PwmDestroy, ManagerUnlock, Becomes
  <2>. QED
    BY <2>1, PwmInv
<1>. QED
  BY <1>2, <1>3, <1>4, <1>5
-----------------------------------------------------------------------------
LEMMA SleepNext == ProperUse /\ SleepInv /\ [Next]_vars => SleepInv'
<1>. SUFFICES ASSUME ProperUse, SleepInv, [Next]_vars PROVE SleepInv'
  OBVIOUS
<1>1. CASE Construct \/ Constructed \/ Destroy
  BY <1>1, ConstructInv, ConstructedInv, DestroyInv
<1>2. CASE \E c \in Contexts : Lock(c) \/ Unlock(c) \/ Continue(c)
  BY <1>2, LockedInv, UnlockInv, LockCallInv, UnlockCallInv, ErrorInv DEF Continue
<1>3. CASE \E c \in Contexts, t \in Tickers : Attach(c, t) \/ AttachNothing(c, t) \/ Detach(c, t)
  BY <1>3, AttachInv
<1>4. CASE \/ \E c \in Contexts, p \in Pwms : PwmWrite(c, p)
           \/ \E p \in Pwms : PwmConstruct(p) \/ PwmDestroy(p) \/ \E q \in Pwms : PwmCopy(p, q)
  BY <1>4, PwmStepInv
<1>5. CASE UNCHANGED vars
  BY <1>5 DEF vars, SleepInv, TypeOK, Accounted, Counting, Dead, Quiet, Late, Unlocking, Locking,
              In, Written, Ticking
<1>. QED
  BY <1>1, <1>2, <1>3, <1>4, <1>5 DEF Next

LEMMA SleepInvHolds == ProperUse => (Spec => []SleepInv)
<1>. SUFFICES ASSUME ProperUse PROVE Spec => []SleepInv
  OBVIOUS
<1>1. SleepInv /\ [Next]_vars => SleepInv'
  BY SleepNext
<1>. QED
  BY <1>1, SleepInit, PTL DEF Spec

\* The counters and the objects keep their types.
THEOREM TypeCorrect == ProperUse => (Spec => []TypeOK)
<1>1. SleepInv => TypeOK
  BY DEF SleepInv
<1>. QED
  BY <1>1, SleepInvHolds, PTL

\* However handlers preempt lock() and unlock() between their count and their
\* call, the manager has counted exactly what is held and what is under way.
THEOREM ManagerAccounted == ProperUse => (Spec => []Accounted)
<1>1. SleepInv => Accounted
  BY DEF SleepInv
<1>. QED
  BY <1>1, SleepInvHolds, PTL

\* What main finds when it can sleep.
LEMMA AtRest ==
  ASSUME SleepInv, At(0, "idle")
  PROVE  manager = (IF held > 0 THEN 1 ELSE 0) + Cardinality(Written) + Cardinality(Ticking)
<1>1. TypeOK /\ ~Dead
  BY DEF SleepInv, At
<1>2. Unlocking = 0 /\ Locking = 0 /\ Late = 0 /\ Quiet
  BY <1>1, AllIdle
<1>3. lockCount = held
  BY <1>1, <1>2 DEF SleepInv, Counting, TypeOK
<1>4. Cardinality(Written) \in Nat /\ Cardinality(Ticking) \in Nat
  BY <1>1, ClientsType
<1>. QED
  BY <1>1, <1>2, <1>3, <1>4 DEF SleepInv, Accounted, TypeOK

\* The program never sleeps deeply while a lock, a PwmOut or a Ticker forbids
\* it.
THEOREM NeverTooDeep == ProperUse => (Spec => []NoDeepSleepWhileHeld)
<1>1. SleepInv => NoDeepSleepWhileHeld
  <2>. SUFFICES ASSUME SleepInv, At(0, "idle"), manager = 0 PROVE ~Awake
    BY DEF NoDeepSleepWhileHeld
  <2>1. TypeOK
    BY DEF SleepInv
  <2>2. Cardinality(Written) \in Nat /\ Cardinality(Ticking) \in Nat
        /\ IsFiniteSet(Written) /\ IsFiniteSet(Ticking)
    BY <2>1, ClientsType
  <2>3. held = 0 /\ Cardinality(Written) = 0 /\ Cardinality(Ticking) = 0
    BY <2>1, <2>2, AtRest DEF TypeOK
  <2>4. Written = {} /\ Ticking = {}
    BY <2>2, <2>3, FS_EmptySet
  <2>. QED
    BY <2>3, <2>4 DEF Awake, Written, Ticking
<1>. QED
  BY <1>1, SleepInvHolds, PTL

\* And once all of them are gone, it can again.
THEOREM DeepSleepReturns == ProperUse => (Spec => []DeepSleepRestored)
<1>1. SleepInv => DeepSleepRestored
  <2>. SUFFICES ASSUME SleepInv, At(0, "idle"), ~Awake PROVE manager = 0
    BY DEF DeepSleepRestored
  <2>1. held = 0
    BY DEF Awake, SleepInv, TypeOK
  <2>2. Written = {} /\ Ticking = {}
    BY DEF Awake, Written, Ticking
  <2>. QED
    BY <2>1, <2>2, AtRest, FS_EmptySet
<1>. QED
  BY <1>1, SleepInvHolds, PTL

-----------------------------------------------------------------------------
(***************************************************************************)
(* Of the calls under way at most one has yet to lock the manager: while it *)
(* has not returned the count is not zero, and no other lock() is a first.  *)
(***************************************************************************)
OneLate == Quiet => Late <= 1

LEMMA OneLateStep ==
  ASSUME SleepInv, OneLate, NEW c \in Contexts, NEW l \in Labels, Goto(c, l),
         NEW k \in {"idle", "construct", "lock_call", "unlock_call"}, At(c, k),
         l \in {"construct", "lock_call"} => Late = 0
  PROVE  OneLate'
<1>1. TypeOK /\ pc[c] = k /\ Late \in Nat /\ (Quiet' => Quiet)
  BY LockContext
<1>2. Late' = Late + (IF l \in {"construct", "lock_call"} THEN 1 ELSE 0)
                   - (IF k \in {"construct", "lock_call"} THEN 1 ELSE 0)
  BY <1>1, GotoCounts
<1>. QED
  BY <1>1, <1>2 DEF OneLate

\* The first lock() finds the count at zero, so that no other call is late.
LEMMA FirstLock ==
  ASSUME SleepInv, Quiet, NEW c \in Contexts, Lock(c), lockCount' = 1
  PROVE  Late = 0
<1>1. lockCount \in 0 .. CountRange - 1 /\ held \in Nat /\ Late \in Nat
  BY CountType DEF SleepInv, TypeOK
<1>2. lockCount = 0
  BY <1>1, CountSteps, SleepAssumption DEF Lock, LockTo
<1>. QED
  BY <1>1, <1>2 DEF SleepInv, Counting

LEMMA LockOneLate ==
  ASSUME SleepInv, OneLate, NEW c \in Contexts, Lock(c)
  PROVE  OneLate'
<1>1. CASE ~Quiet
  <2>1. PICK d \in Contexts : pc[d] \in {"overflow", "underflow", "error"}
    BY <1>1 DEF Quiet
  <2>2. pc[c] = "idle" /\ pc'[d] = pc[d]
    BY <2>1 DEF Lock, LockTo, At, Goto, SleepInv, TypeOK
  <2>3. ~Quiet'
    BY <2>1, <2>2 DEF Quiet
  <2>. QED
    BY <2>3 DEF OneLate
<1>2. CASE Quiet /\ lockCount' = 1
  <2>1. At(c, "idle") /\ Goto(c, "lock_call")
    BY <1>2 DEF Lock, LockTo
  <2>. QED
    BY <1>2, <2>1, FirstLock, OneLateStep DEF Labels
<1>3. CASE lockCount' = 0
  <2>1. At(c, "idle") /\ Goto(c, "overflow")
    BY <1>3 DEF Lock, LockTo
  <2>. QED
    BY <2>1, OneLateStep DEF Labels
<1>4. CASE lockCount' > 1 /\ UNCHANGED pc
  BY <1>4 DEF OneLate, Quiet, Late, In
<1>. QED
  BY <1>1, <1>2, <1>3, <1>4 DEF Lock, LockTo

LEMMA OneLateNext == SleepInv /\ OneLate /\ [Next]_vars => OneLate'
<1>. SUFFICES ASSUME SleepInv, OneLate, [Next]_vars PROVE OneLate'
  OBVIOUS
<1>1. CASE Construct
  <2>1. Late = 0 /\ At(0, "idle") /\ Goto(0, "construct")
    BY <1>1, AllIdle DEF Construct, SleepInv
  <2>. QED
    BY <2>1, ContextsFinite, OneLateStep DEF Labels
<1>2. CASE Constructed
  BY <1>2, ContextsFinite, OneLateStep DEF Constructed, Labels
<1>3. CASE Destroy
  <2>1. PICK l \in {"unlock_call", "idle"} : Goto(0, l)
    BY <1>3 DEF Destroy, DestroyWhen
  <2>. QED
    BY <1>3, <2>1, ContextsFinite, OneLateStep DEF Destroy, DestroyWhen, Labels
<1>4. ASSUME NEW c \in Contexts, Unlock(c) PROVE OneLate'
  <2>1. PICK l \in {"unlock_call", "underflow", "idle"} : Goto(c, l)
    BY <1>4 DEF Unlock, UnlockAt
  <2>. QED
    BY <1>4, <2>1, OneLateStep DEF Unlock, UnlockAt, Labels
<1>5. ASSUME NEW c \in Contexts, Continue(c) PROVE OneLate'
  <2>1. CASE LockCall(c)
    BY <2>1, OneLateStep DEF LockCall, Labels
  <2>2. CASE UnlockCall(c)
    BY <2>2, OneLateStep DEF UnlockCall, Labels
  <2>3. CASE Error(c)
    <3>1. pc'[c] = "error"
      BY <2>3 DEF Error, Goto, SleepInv, TypeOK
    <3>2. ~Quiet'
      BY <3>1 DEF Quiet
    <3>. QED
      BY <3>2 DEF OneLate
  <2>. QED
    BY <1>5, <2>1, <2>2, <2>3 DEF Continue
<1>6. CASE UNCHANGED pc
  BY <1>6 DEF OneLate, Quiet, Late, In
<1>7. ASSUME NEW c, NEW t, Attach(c, t) \/ AttachNothing(c, t) \/ Detach(c, t)
      PROVE  UNCHANGED pc
  BY <1>7 DEF Attach, AttachWhen, AttachNothing, Detach, lock
<1>8. ASSUME NEW c, NEW p, NEW q, PwmConstruct(p) \/ PwmCopy(p, q) \/ PwmWrite(c, p) \/ PwmDestroy(p)
      PROVE  UNCHANGED pc
  BY <1>8 DEF PwmConstruct, PwmCopy, PwmWrite, PwmDestroy, lock
<1>9. CASE UNCHANGED vars
  BY <1>6, <1>9 DEF vars
<1>. QED
  BY <1>1, <1>2, <1>3, <1>4, <1>5, <1>6, <1>7, <1>8, <1>9, LockOneLate DEF Next

\* For any number of handlers, however they overtake one another, the manager
\* is not unlocked more often than locked as long as the lock's count fits.
THEOREM NeverUnderflows == ProperUse => (Spec => []NeverBelowZero)
<1>. SUFFICES ASSUME ProperUse PROVE Spec => []NeverBelowZero
  OBVIOUS
<1>1. Init => OneLate
  <2>. SUFFICES ASSUME Init PROVE Late = 0
    BY DEF OneLate
  <2>1. {c \in Contexts : pc[c] \in {"construct", "lock_call"}} = {}
    BY DEF Init
  <2>. QED
    BY <2>1, FS_EmptySet DEF Late, In
<1>2. SleepInv /\ OneLate => NeverBelowZero
  <2>. SUFFICES ASSUME SleepInv, OneLate, Quiet PROVE manager >= 0
    BY DEF NeverBelowZero
  <2>1. {c \in Contexts : pc[c] \in {"construct", "lock_call", "underflow"}}
        = {c \in Contexts : pc[c] \in {"construct", "lock_call"}}
    BY DEF Quiet
  <2>2. Locking = Late
    BY <2>1 DEF Locking, Late, In
  <2>3. ~Dead /\ TypeOK
    BY DEF Quiet, Dead, SleepInv
  <2>4. Cardinality(Written) \in Nat /\ Cardinality(Ticking) \in Nat
    BY <2>3, ClientsType
  <2>5. lockCount = held + Late /\ held \in Nat /\ lockCount \in Nat /\ Late <= 1
    BY <2>3, SleepAssumption DEF SleepInv, Counting, TypeOK, OneLate
  <2>6. (IF lockCount > 0 THEN 1 ELSE 0) >= Late
    BY <2>5, CountType
  <2>. QED
    BY <2>2, <2>3, <2>4, <2>5, <2>6, CountType DEF SleepInv, Accounted
<1>3. SleepInv /\ OneLate /\ [Next]_vars => OneLate'
  BY OneLateNext
<1>. QED
  BY <1>1, <1>2, <1>3, SleepInvHolds, PTL DEF Spec
=============================================================================
