----------------------------- MODULE DeepSleep ------------------------------
(***************************************************************************)
(* Who keeps the microcontroller out of deep sleep: one mbed::DeepSleepLock *)
(* shared by main and the interrupt handlers, the PwmOuts and the Tickers,  *)
(* over the one counter of the sleep manager.                               *)
(*                                                                          *)
(* Contexts are 0 (main) and the interrupt priorities above it, on a single *)
(* core without an RTOS.  lock() and unlock() count atomically and call the *)
(* manager afterwards: a handler may run in between.  PwmOut and Ticker act *)
(* inside critical sections, so that each of their calls is one action.     *)
(***************************************************************************)
EXTENDS Integers, FiniteSets

CONSTANTS
  MaxPriority, \* priorities of the handlers: 1 .. this
  Pwms,        \* the PwmOut objects
  Tickers,     \* the Ticker and Timeout objects
  LowPower,    \* those that run from the low power ticker
  Unset,       \* those to which an empty Callback is attached, too
  CopyWritten, \* PwmOuts are copied after they were written, too
  CountRange,  \* _lock_count counts modulo this: USHRT_MAX + 1
  MaxHeld      \* bound: calls of lock() not unlocked

ASSUME SleepAssumption ==
  /\ MaxPriority \in Nat
  /\ LowPower \subseteq Tickers /\ Unset \subseteq Tickers /\ CopyWritten \in BOOLEAN
  /\ CountRange \in Nat /\ CountRange > 2 /\ MaxHeld \in Nat
  /\ IsFiniteSet(Pwms) /\ IsFiniteSet(Tickers)

Contexts == 0 .. MaxPriority

VARIABLES
  manager,    \* the sleep manager's counter; deep sleep is allowed at 0
  alive,      \* the DeepSleepLock exists
  lockCount,  \* its _lock_count
  held,       \* lock() calls that returned and have not been unlocked
  pc,         \* pc[c]: where context c is in a call of the lock
  pwm,        \* pwm[p]: none, or its _deep_sleep_locked
  attached    \* the tickers whose _function is set

vars == <<manager, alive, lockCount, held, pc, pwm, attached>>
lock == <<alive, lockCount, held, pc>>

-----------------------------------------------------------------------------
\* error() has stopped the program.
Dead == \E c \in Contexts : pc[c] = "error"

Preempted(c) == \E d \in Contexts : d > c /\ pc[d] # "idle"
At(c, label) == pc[c] = label /\ ~Preempted(c) /\ ~Dead
Goto(c, label) == pc' = [pc EXCEPT ![c] = label]

\* The sleep manager, as the classes use it: a counter.
ManagerLock   == manager' = manager + 1
ManagerUnlock == manager' = manager - 1

Init ==
  /\ manager = 0
  /\ alive = FALSE /\ lockCount = 0 /\ held = 0
  /\ pc = [c \in Contexts |-> "idle"]
  /\ pwm = [p \in Pwms |-> "none"]
  /\ attached = {}

-----------------------------------------------------------------------------
(***************************************************************************)
(* DeepSleepLock.  main owns the object; any context may lock it, and       *)
(* unlock what some context has locked.                                     *)
(***************************************************************************)
\* The constructor counts itself, then calls the manager; until it returns
\* nobody else knows the object.
Construct ==
  /\ At(0, "idle") /\ ~alive
  /\ lockCount' = 1
  /\ Goto(0, "construct")
  /\ UNCHANGED <<manager, alive, held, pwm, attached>>

Constructed ==
  /\ At(0, "construct")
  /\ ManagerLock
  /\ alive' = TRUE /\ held' = 1
  /\ Goto(0, "idle")
  /\ UNCHANGED <<lockCount, pwm, attached>>

\* The destructor: no context is using the lock any more.
DestroyWhen(counted) ==
  /\ At(0, "idle") /\ alive
  /\ alive' = FALSE /\ lockCount' = 0 /\ held' = 0
  /\ Goto(0, IF counted THEN "unlock_call" ELSE "idle")
  /\ UNCHANGED <<manager, pwm, attached>>

Destroy_Always == DestroyWhen(TRUE)
Destroy == DestroyWhen(lockCount # 0)

\* lock(): count = core_util_atomic_incr_u16(&_lock_count, 1).
LockTo(c, count) ==
  /\ At(c, "idle") /\ alive /\ held < MaxHeld
  /\ lockCount' = count
  /\ \/ lockCount' = 1 /\ Goto(c, "lock_call") /\ UNCHANGED held
     \/ lockCount' = 0 /\ Goto(c, "overflow") /\ UNCHANGED held
     \/ lockCount' > 1 /\ UNCHANGED pc /\ held' = held + 1
  /\ UNCHANGED <<manager, alive, pwm, attached>>

Lock_NeverWraps(c) == LockTo(c, lockCount + 1)
Lock(c) == LockTo(c, (lockCount + 1) % CountRange)

LockCall(c) ==
  /\ At(c, "lock_call")
  /\ ManagerLock
  /\ held' = held + 1
  /\ Goto(c, "idle")
  /\ UNCHANGED <<alive, lockCount, pwm, attached>>

\* unlock(): count = core_util_atomic_decr_u16(&_lock_count, 1).
UnlockAt(c, last) ==
  /\ At(c, "idle") /\ alive /\ held > 0
  /\ held' = held - 1
  /\ lockCount' = (lockCount + CountRange - 1) % CountRange
  /\ Goto(c, IF lockCount' = last THEN "unlock_call"
             ELSE IF lockCount' = CountRange - 1 THEN "underflow" ELSE "idle")
  /\ UNCHANGED <<manager, alive, pwm, attached>>

Unlock_OneTooEarly(c) == UnlockAt(c, 1)
Unlock(c) == UnlockAt(c, 0)

UnlockCall_Forgotten(c) ==
  /\ At(c, "unlock_call")
  /\ Goto(c, "idle")
  /\ UNCHANGED <<manager, alive, lockCount, held, pwm, attached>>
UnlockCall(c) ==
  /\ At(c, "unlock_call")
  /\ ManagerUnlock
  /\ Goto(c, "idle")
  /\ UNCHANGED <<alive, lockCount, held, pwm, attached>>

\* error("DeepSleepLock overflow"), error("DeepSleepLock underflow").
Error(c) ==
  /\ At(c, "overflow") \/ At(c, "underflow")
  /\ Goto(c, "error")
  /\ UNCHANGED <<manager, alive, lockCount, held, pwm, attached>>

-----------------------------------------------------------------------------
(***************************************************************************)
(* PwmOut: keeps deep sleep locked from its first write() to its           *)
(* destruction.                                                            *)
(***************************************************************************)
PwmConstruct(p) ==
  /\ At(0, "idle") /\ pwm[p] = "none"
  /\ pwm' = [pwm EXCEPT ![p] = "unlocked"]
  /\ UNCHANGED <<manager, lock, attached>>

\* The copy constructor is the compiler's: it copies the flag.
PwmCopy(p, q) ==
  /\ At(0, "idle") /\ pwm[p] # "none" /\ pwm[q] = "none"
  /\ pwm[p] = "locked" => CopyWritten
  /\ pwm' = [pwm EXCEPT ![q] = pwm[p]]
  /\ UNCHANGED <<manager, lock, attached>>

PwmWrite(c, p) ==
  /\ At(c, "idle") /\ pwm[p] # "none"
  /\ IF pwm[p] = "unlocked" THEN ManagerLock ELSE UNCHANGED manager
  /\ pwm' = [pwm EXCEPT ![p] = "locked"]
  /\ UNCHANGED <<lock, attached>>

PwmDestroy(p) ==
  /\ At(0, "idle") /\ pwm[p] # "none"
  /\ IF pwm[p] = "locked" THEN ManagerUnlock ELSE UNCHANGED manager
  /\ pwm' = [pwm EXCEPT ![p] = "none"]
  /\ UNCHANGED <<lock, attached>>

-----------------------------------------------------------------------------
(***************************************************************************)
(* Ticker: keeps deep sleep locked while a function is attached, unless it *)
(* runs from the low power ticker.                                         *)
(***************************************************************************)
AttachWhen(c, t, first) ==
  /\ At(c, "idle")
  /\ IF first THEN ManagerLock ELSE UNCHANGED manager
  /\ attached' = attached \cup {t}
  /\ UNCHANGED <<lock, pwm>>

Attach_Again(c, t) == AttachWhen(c, t, t \notin LowPower)
Attach(c, t) == AttachWhen(c, t, t \notin attached /\ t \notin LowPower)

\* An empty Callback sets up the ticker like any other, and leaves _function
\* empty.
AttachNothing(c, t) ==
  /\ At(c, "idle") /\ t \in Unset
  /\ IF t \notin attached /\ t \notin LowPower THEN ManagerLock
                                               ELSE UNCHANGED manager
  /\ attached' = attached \ {t}
  /\ UNCHANGED <<lock, pwm>>

\* detach(), from a program, a destructor or the handler of a Timeout.
Detach(c, t) ==
  /\ At(c, "idle")
  /\ IF t \in attached /\ t \notin LowPower THEN ManagerUnlock
                                            ELSE UNCHANGED manager
  /\ attached' = attached \ {t}
  /\ UNCHANGED <<lock, pwm>>

-----------------------------------------------------------------------------
Continue(c) == LockCall(c) \/ UnlockCall(c) \/ Error(c)

Next ==
  \/ Construct \/ Constructed \/ Destroy
  \/ \E c \in Contexts :
       \/ Lock(c) \/ Unlock(c) \/ Continue(c)
       \/ \E p \in Pwms : PwmWrite(c, p)
       \/ \E t \in Tickers : Attach(c, t) \/ AttachNothing(c, t) \/ Detach(c, t)
  \/ \E p \in Pwms : PwmConstruct(p) \/ PwmDestroy(p) \/ \E q \in Pwms : PwmCopy(p, q)

Spec == Init /\ [][Next]_vars
-----------------------------------------------------------------------------
Labels == {"idle", "construct", "lock_call", "unlock_call", "overflow", "underflow", "error"}

TypeOK ==
  /\ manager \in Int /\ alive \in BOOLEAN
  /\ lockCount \in 0 .. CountRange - 1 /\ held \in Nat
  /\ pc \in [Contexts -> Labels]
  /\ pwm \in [Pwms -> {"none", "unlocked", "locked"}]
  /\ attached \subseteq Tickers

\* What keeps the program awake.
Awake == \/ held > 0
         \/ \E p \in Pwms : pwm[p] = "locked"
         \/ attached \ LowPower # {}

\* Whenever main can sleep, that is, between calls and with no handler
\* running, deep sleep is off for as long as somebody holds it off, however
\* the handlers' lock() and unlock() fell between main's count and its call.
NoDeepSleepWhileHeld == At(0, "idle") /\ manager = 0 => ~Awake

\* "Deep sleep mode will be restored": once all is released the counter is
\* back at zero, and no client has taken it below.
DeepSleepRestored == At(0, "idle") /\ ~Awake => manager = 0

\* The contexts that have counted an unlock, or a lock, and not yet called the
\* manager; a count that wrapped keeps the one it had.
In(labels) == Cardinality({c \in Contexts : pc[c] \in labels})
Unlocking == In({"unlock_call", "overflow"})
Locking == In({"construct", "lock_call", "underflow"})

\* The other clients that hold deep sleep off.
Written == {p \in Pwms : pwm[p] = "locked"}
Ticking == attached \ LowPower

\* Exactly what the manager counts, in the middle of any calls: one for the
\* lock if it is taken, less the calls not made yet, plus the calls of unlock
\* not made yet, and one for each other client.
Accounted ==
  ~Dead => manager = (IF lockCount > 0 THEN 1 ELSE 0) + Unlocking - Locking
                     + Cardinality(Written) + Cardinality(Ticking)

\* The lock's count has not wrapped.  When it has, error() is the next thing the
\* context does, but three handlers more can first take the manager below zero.
Quiet == \A c \in Contexts : pc[c] \notin {"overflow", "underflow", "error"}

\* The lock never asks the manager for more unlocks than locks, whichever
\* handler's calls overtake it: the manager's counter is unsigned too.
NeverBelowZero == Quiet => manager >= 0
=============================================================================
