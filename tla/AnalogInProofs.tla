--------------------------- MODULE AnalogInProofs ---------------------------
(***************************************************************************)
(* For any number of threads and pins: one mutex, one thread at the         *)
(* converter.                                                               *)
(***************************************************************************)
EXTENDS AnalogIn, TLAPS

\* Where a thread holds the singleton lock, and where the mutex. A thread that
\* unlocks the mutex looks at the pointer first, and finds it set.
Singular == {"check", "construct", "publish", "singleton_unlock"}
Inside(t) == pc[t] \in {"select", "convert", "unlock"} \/ (pc[t] = "get" /\ after[t] = "unlock")

\* What a thread knows of the pointer and the mutex from where it is.
Knows(t) ==
  /\ singleton = t <=> pc[t] \in Singular
  /\ mutex = t <=> Inside(t)
  /\ pc[t] = "construct" => built = 0
  /\ pc[t] = "publish" => ~ptr /\ built = 1
  /\ pc[t] \in {"singleton_unlock", "lock"} \/ Inside(t) => ptr
  /\ pc[t] \in {"singleton_lock", "check", "construct", "publish", "singleton_unlock"}
       => after[t] = "lock"
  /\ pc[t] = "convert" => channel = task[t]
  /\ after[t] = "unlock" /\ pc[t] # "idle" => result[t] = task[t]
  /\ pc[t] = "lock" => after[t] = "lock"
  /\ pc[t] = "unlock" => after[t] = "unlock"
  /\ pc[t] \in {"select", "convert"} => after[t] = "lock"

\* The mutex has been constructed once, or is under no thread's construction.
OneMutex ==
  /\ ptr => built = 1
  /\ ~ptr => /\ mutex = NoThread
             /\ \/ built = 0
                \/ built = 1 /\ \E t \in Threads : pc[t] = "publish"

AnalogInv == TypeOK /\ OneMutex /\ \A t \in Threads : Knows(t)
-----------------------------------------------------------------------------
LEMMA AnalogInit == Init => AnalogInv
<1>. SUFFICES ASSUME Init PROVE AnalogInv
  OBVIOUS
<1>1. TypeOK
  BY DEF Init, TypeOK, Channels
<1>2. OneMutex
  BY DEF Init, OneMutex
<1>3. ASSUME NEW t \in Threads PROVE Knows(t)
  <2>1. pc[t] = "idle" /\ after[t] = "lock" /\ singleton # t /\ mutex # t
    BY NoThreadAssumption DEF Init
  <2>. QED
    BY <2>1 DEF Knows, Inside, Singular
<1>. QED
  BY <1>1, <1>2, <1>3 DEF AnalogInv

\* A step of thread t moves its own pc and, in its own rows, what it changes.
LEMMA StepInv ==
  ASSUME AnalogInv, NEW t \in Threads, Start(t) \/ Blocking(t) \/ Running(t)
  PROVE  AnalogInv'
<1>. USE NoThreadAssumption
<1>1. TypeOK /\ OneMutex /\ Knows(t)
  BY DEF AnalogInv
<1>2. \A u \in Threads \ {t} : Knows(u) /\ (u # t)
  BY DEF AnalogInv
<1>. DEFINE Step == TypeOK' /\ OneMutex' /\ Knows(t)' /\ \A u \in Threads \ {t} : Knows(u)'
<1>3. SUFFICES Step
  BY DEF AnalogInv
<1>4. CASE Start(t)
  <2>1. TypeOK'
    BY <1>1, <1>4 DEF Start, Goto, TypeOK, Channels
  <2>2. Knows(t)'
    BY <1>1, <1>4 DEF Start, Goto, TypeOK, OneMutex, Knows, Inside, Singular
  <2>3. ASSUME NEW u \in Threads \ {t} PROVE Knows(u)'
    BY <1>1, <1>2, <1>4 DEF Start, Goto, TypeOK, OneMutex, Knows, Inside, Singular
  <2>4. OneMutex'
    BY <1>1, <1>4 DEF Start, Goto, TypeOK, OneMutex, Knows, Inside, Singular
  <2>. QED
    BY <2>1, <2>2, <2>3, <2>4
<1>5. CASE Get(t)
  <2>1. TypeOK'
    BY <1>1, <1>5 DEF Get, Goto, TypeOK, Channels
  <2>2. Knows(t)'
    BY <1>1, <1>5 DEF Get, Goto, TypeOK, OneMutex, Knows, Inside, Singular
  <2>3. ASSUME NEW u \in Threads \ {t} PROVE Knows(u)'
    BY <1>1, <1>2, <1>5 DEF Get, Goto, TypeOK, OneMutex, Knows, Inside, Singular
  <2>4. OneMutex'
    BY <1>1, <1>5 DEF Get, Goto, TypeOK, OneMutex, Knows, Inside, Singular
  <2>. QED
    BY <2>1, <2>2, <2>3, <2>4
<1>6. CASE SingletonLock(t)
  <2>1. TypeOK'
    BY <1>1, <1>6 DEF SingletonLock, Goto, TypeOK, Channels
  <2>2. Knows(t)'
    BY <1>1, <1>6 DEF SingletonLock, Goto, TypeOK, OneMutex, Knows, Inside, Singular
  <2>3. ASSUME NEW u \in Threads \ {t} PROVE Knows(u)'
    BY <1>1, <1>2, <1>6 DEF SingletonLock, Goto, TypeOK, OneMutex, Knows, Inside, Singular
  <2>4. OneMutex'
    BY <1>1, <1>6 DEF SingletonLock, Goto, TypeOK, OneMutex, Knows, Inside, Singular
  <2>. QED
    BY <2>1, <2>2, <2>3, <2>4
<1>7. CASE Check(t)
  <2>1. TypeOK'
    BY <1>1, <1>7 DEF Check, CheckThen, Goto, TypeOK, Channels
  <2>2. Knows(t)'
    <3>1. ~ptr => built = 0
      BY <1>1, <1>2, <1>7 DEF Check, CheckThen, OneMutex, Knows, Singular
    <3>. QED
      BY <1>1, <1>7, <3>1 DEF Check, CheckThen, Goto, TypeOK, Knows, Inside, Singular
  <2>3. ASSUME NEW u \in Threads \ {t} PROVE Knows(u)'
    BY <1>1, <1>2, <1>7 DEF Check, CheckThen, Goto, TypeOK, OneMutex, Knows, Inside, Singular
  <2>4. OneMutex'
    BY <1>1, <1>7 DEF Check, CheckThen, Goto, TypeOK, OneMutex, Knows, Inside, Singular
  <2>. QED
    BY <2>1, <2>2, <2>3, <2>4
<1>8. CASE Construct(t)
  <2>1. TypeOK'
    BY <1>1, <1>8 DEF Construct, Goto, TypeOK, Channels
  <2>2. Knows(t)'
    BY <1>1, <1>8 DEF Construct, Goto, TypeOK, OneMutex, Knows, Inside, Singular
  <2>3. ASSUME NEW u \in Threads \ {t} PROVE Knows(u)'
    BY <1>1, <1>2, <1>8 DEF Construct, Goto, TypeOK, OneMutex, Knows, Inside, Singular
  <2>4. OneMutex'
    BY <1>1, <1>8 DEF Construct, Goto, TypeOK, OneMutex, Knows, Inside, Singular
  <2>. QED
    BY <2>1, <2>2, <2>3, <2>4
<1>9. CASE Publish(t)
  <2>1. TypeOK'
    BY <1>1, <1>9 DEF Publish, Goto, TypeOK, Channels
  <2>2. Knows(t)'
    BY <1>1, <1>9 DEF Publish, Goto, TypeOK, OneMutex, Knows, Inside, Singular
  <2>3. ASSUME NEW u \in Threads \ {t} PROVE Knows(u)'
    BY <1>1, <1>2, <1>9 DEF Publish, Goto, TypeOK, OneMutex, Knows, Inside, Singular
  <2>4. OneMutex'
    BY <1>1, <1>9 DEF Publish, Goto, TypeOK, OneMutex, Knows, Inside, Singular
  <2>. QED
    BY <2>1, <2>2, <2>3, <2>4
<1>10. CASE SingletonUnlock(t)
  <2>1. TypeOK'
    BY <1>1, <1>10 DEF SingletonUnlock, SingletonUnlockIf, Goto, TypeOK, Channels
  <2>2. Knows(t)'
    BY <1>1, <1>10 DEF SingletonUnlock, SingletonUnlockIf, Goto, TypeOK, OneMutex, Knows, Inside, Singular
  <2>3. ASSUME NEW u \in Threads \ {t} PROVE Knows(u)'
    BY <1>1, <1>2, <1>10 DEF SingletonUnlock, SingletonUnlockIf, Goto, TypeOK, OneMutex, Knows, Inside, Singular
  <2>4. OneMutex'
    BY <1>1, <1>10 DEF SingletonUnlock, SingletonUnlockIf, Goto, TypeOK, OneMutex, Knows, Inside, Singular
  <2>. QED
    BY <2>1, <2>2, <2>3, <2>4
<1>11. CASE Lock(t)
  <2>1. TypeOK'
    BY <1>1, <1>11 DEF Lock, LockWhen, Goto, TypeOK, Channels
  <2>2. Knows(t)'
    BY <1>1, <1>11 DEF Lock, LockWhen, Goto, TypeOK, OneMutex, Knows, Inside, Singular
  <2>3. ASSUME NEW u \in Threads \ {t} PROVE Knows(u)'
    BY <1>1, <1>2, <1>11 DEF Lock, LockWhen, Goto, TypeOK, OneMutex, Knows, Inside, Singular
  <2>4. OneMutex'
    BY <1>1, <1>11 DEF Lock, LockWhen, Goto, TypeOK, OneMutex, Knows, Inside, Singular
  <2>. QED
    BY <2>1, <2>2, <2>3, <2>4
<1>12. CASE Select(t)
  <2>1. TypeOK'
    BY <1>1, <1>12 DEF Select, Goto, TypeOK, Channels
  <2>2. Knows(t)'
    BY <1>1, <1>12 DEF Select, Goto, TypeOK, OneMutex, Knows, Inside, Singular
  <2>3. ASSUME NEW u \in Threads \ {t} PROVE Knows(u)'
    BY <1>1, <1>2, <1>12 DEF Select, Goto, TypeOK, OneMutex, Knows, Inside, Singular
  <2>4. OneMutex'
    BY <1>1, <1>12 DEF Select, Goto, TypeOK, OneMutex, Knows, Inside, Singular
  <2>. QED
    BY <2>1, <2>2, <2>3, <2>4
<1>13. CASE Convert(t)
  <2>1. TypeOK'
    BY <1>1, <1>13 DEF Convert, Goto, TypeOK, Channels
  <2>2. Knows(t)'
    BY <1>1, <1>13 DEF Convert, Goto, TypeOK, OneMutex, Knows, Inside, Singular
  <2>3. ASSUME NEW u \in Threads \ {t} PROVE Knows(u)'
    BY <1>1, <1>2, <1>13 DEF Convert, Goto, TypeOK, OneMutex, Knows, Inside, Singular
  <2>4. OneMutex'
    BY <1>1, <1>13 DEF Convert, Goto, TypeOK, OneMutex, Knows, Inside, Singular
  <2>. QED
    BY <2>1, <2>2, <2>3, <2>4
<1>14. CASE Unlock(t)
  <2>1. TypeOK'
    BY <1>1, <1>14 DEF Unlock, Goto, TypeOK, Channels
  <2>2. Knows(t)'
    BY <1>1, <1>14 DEF Unlock, Goto, TypeOK, OneMutex, Knows, Inside, Singular
  <2>3. ASSUME NEW u \in Threads \ {t} PROVE Knows(u)'
    BY <1>1, <1>2, <1>14 DEF Unlock, Goto, TypeOK, OneMutex, Knows, Inside, Singular
  <2>4. OneMutex'
    BY <1>1, <1>14 DEF Unlock, Goto, TypeOK, OneMutex, Knows, Inside, Singular
  <2>. QED
    BY <2>1, <2>2, <2>3, <2>4
<1>. QED
  BY <1>4, <1>5, <1>6, <1>7, <1>8, <1>9, <1>10, <1>11, <1>12, <1>13, <1>14 DEF Blocking, Running

LEMMA AnalogNext == AnalogInv /\ [Next]_vars => AnalogInv'
<1>. SUFFICES ASSUME AnalogInv, [Next]_vars PROVE AnalogInv'
  OBVIOUS
<1>1. CASE Next
  BY <1>1, StepInv DEF Next
<1>2. CASE UNCHANGED vars
  BY <1>2 DEF AnalogInv, TypeOK, OneMutex, Knows, Inside, vars
<1>. QED
  BY <1>1, <1>2

LEMMA AnalogInvHolds == Spec => []AnalogInv
BY AnalogInit, AnalogNext, PTL DEF Spec

\* The pointer, the mutexes, the converter and the threads keep their types.
THEOREM TypeCorrect == Spec => []TypeOK
<1>1. AnalogInv => TypeOK
  BY DEF AnalogInv
<1>. QED
  BY <1>1, AnalogInvHolds, PTL

\* Double-checked locking constructs the mutex once, however many threads use
\* it first.
THEOREM ConstructsOnce == Spec => []BuiltOnce
<1>1. AnalogInv => BuiltOnce
  BY DEF AnalogInv, OneMutex, BuiltOnce
<1>. QED
  BY <1>1, AnalogInvHolds, PTL

\* And no thread uses it before it is constructed, though the pointer is read
\* without a lock.
THEOREM ConstructsFirst == Spec => []UsesBuilt
<1>1. AnalogInv => UsesBuilt
  BY DEF AnalogInv, OneMutex, Knows, Inside, UsesBuilt
<1>. QED
  BY <1>1, AnalogInvHolds, PTL

\* So one thread at a time is at the converter, and every read returns the
\* voltage of its own pin.
THEOREM ReadsOwn == Spec => []ReadsOwnPin
<1>1. AnalogInv => ReadsOwnPin
  BY DEF AnalogInv, Knows, ReadsOwnPin
<1>. QED
  BY <1>1, AnalogInvHolds, PTL
=============================================================================
