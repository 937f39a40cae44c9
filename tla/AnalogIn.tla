------------------------------ MODULE AnalogIn ------------------------------
(***************************************************************************)
(* Threads that create and read AnalogIn objects, when there is an RTOS     *)
(* (MBED_CONF_RTOS_PRESENT). There is one converter; analogin_init() and    *)
(* the reads run under one PlatformMutex for all objects, which a           *)
(* SingletonPtr constructs the first time any thread asks for it.           *)
(*                                                                          *)
(* A thread is preempted between any two steps. The mutexes of the RTOS and *)
(* the converter are modelled from their use.                               *)
(***************************************************************************)
EXTENDS Naturals

CONSTANTS
  Threads,
  Pins,      \* what an AnalogIn can be connected to
  NoThread,  \* the owner of a free mutex
  NoPin      \* the channel of a converter that was reset

ASSUME NoThreadAssumption == NoThread \notin Threads
ASSUME NoPinAssumption == NoPin \notin Pins

VARIABLES
  ptr,        \* SingletonPtr::_ptr is set
  built,      \* history: how often the mutex in _data was constructed
  singleton,  \* owner of singleton_mutex_id
  mutex,      \* owner of *_mutex
  channel,    \* the pin the converter samples
  pc,         \* where each thread is
  after,      \* what it wants of the mutex: operator-> runs get() first
  task,       \* the pin it reads, or NoPin when it initialises an AnalogIn
  result      \* the pin whose voltage its last conversion was

vars == <<ptr, built, singleton, mutex, channel, pc, after, task, result>>

Channels == Pins \cup {NoPin}

Goto(t, label) == pc' = [pc EXCEPT ![t] = label]

Init ==
  /\ ptr = FALSE /\ built = 0
  /\ singleton = NoThread /\ mutex = NoThread /\ channel = NoPin
  /\ pc = [t \in Threads |-> "idle"]
  /\ after = [t \in Threads |-> "lock"]
  /\ task = [t \in Threads |-> NoPin]
  /\ result = [t \in Threads |-> NoPin]

\* AnalogIn(pin), or read() or read_u16() of one that is connected to pin.
Start(t) ==
  /\ pc[t] = "idle"
  /\ \E job \in Channels : task' = [task EXCEPT ![t] = job]
  /\ after' = [after EXCEPT ![t] = "lock"]
  /\ result' = [result EXCEPT ![t] = NoPin]
  /\ Goto(t, "get")
  /\ UNCHANGED <<ptr, built, singleton, mutex, channel>>

-----------------------------------------------------------------------------
(***************************************************************************)
(* SingletonPtr::get().                                                     *)
(***************************************************************************)
\* The first test, which holds no lock.
Get(t) ==
  /\ pc[t] = "get"
  /\ Goto(t, IF ptr THEN after[t] ELSE "singleton_lock")
  /\ UNCHANGED <<ptr, built, singleton, mutex, channel, after, task, result>>

SingletonLock(t) ==
  /\ pc[t] = "singleton_lock" /\ singleton = NoThread
  /\ singleton' = t
  /\ Goto(t, "check")
  /\ UNCHANGED <<ptr, built, mutex, channel, after, task, result>>

CheckThen(t, found, set) ==
  /\ pc[t] = "check"
  /\ ptr' = set
  /\ Goto(t, IF found THEN "singleton_unlock" ELSE "construct")
  /\ UNCHANGED <<built, singleton, mutex, channel, after, task, result>>

Check_Once(t) == CheckThen(t, FALSE, ptr)
Check_PublishesFirst(t) == CheckThen(t, ptr, TRUE)
Check(t) == CheckThen(t, ptr, ptr)

\* new (_data) T() makes a mutex that nobody owns.
Construct(t) ==
  /\ pc[t] = "construct"
  /\ built' = built + 1 /\ mutex' = NoThread
  /\ Goto(t, "publish")
  /\ UNCHANGED <<ptr, singleton, channel, after, task, result>>

Publish(t) ==
  /\ pc[t] = "publish"
  /\ ptr' = TRUE
  /\ Goto(t, "singleton_unlock")
  /\ UNCHANGED <<built, singleton, mutex, channel, after, task, result>>

SingletonUnlockIf(t, constructed) ==
  /\ pc[t] = "singleton_unlock"
  /\ singleton' = IF constructed THEN NoThread ELSE singleton
  /\ Goto(t, after[t])
  /\ UNCHANGED <<ptr, built, mutex, channel, after, task, result>>

SingletonUnlock_Forgotten(t) == SingletonUnlockIf(t, FALSE)
SingletonUnlock(t) == SingletonUnlockIf(t, TRUE)

-----------------------------------------------------------------------------
(***************************************************************************)
(* The mutex and the converter.                                             *)
(***************************************************************************)
LockWhen(t, free) ==
  /\ pc[t] = "lock" /\ free
  /\ mutex' = t
  /\ Goto(t, "select")
  /\ UNCHANGED <<ptr, built, singleton, channel, after, task, result>>

Lock_Stub(t) == LockWhen(t, TRUE)
Lock(t) == LockWhen(t, mutex = NoThread)

\* analogin_init() resets the converter; a read selects the pin and starts it.
Select(t) ==
  /\ pc[t] = "select"
  /\ channel' = task[t]
  /\ Goto(t, "convert")
  /\ UNCHANGED <<ptr, built, singleton, mutex, after, task, result>>

\* What a read takes from the converter when the conversion has ended.
Convert(t) ==
  /\ pc[t] = "convert"
  /\ result' = [result EXCEPT ![t] = channel]
  /\ after' = [after EXCEPT ![t] = "unlock"]
  /\ Goto(t, "get")
  /\ UNCHANGED <<ptr, built, singleton, mutex, channel, task>>

\* Only the owner can release.
Unlock(t) ==
  /\ pc[t] = "unlock"
  /\ mutex' = IF mutex = t THEN NoThread ELSE mutex
  /\ Goto(t, "idle")
  /\ UNCHANGED <<ptr, built, singleton, channel, after, task, result>>

-----------------------------------------------------------------------------
Blocking(t) == SingletonLock(t) \/ Lock(t)
Running(t) ==
  \/ Get(t) \/ Check(t) \/ Construct(t) \/ Publish(t) \/ SingletonUnlock(t)
  \/ Select(t) \/ Convert(t) \/ Unlock(t)

Next == \E t \in Threads : Start(t) \/ Blocking(t) \/ Running(t)

\* The RTOS runs every thread, and serves those that wait for a mutex in turn.
Fairness ==
  \A t \in Threads : WF_vars(Running(t)) /\ SF_vars(SingletonLock(t)) /\ SF_vars(Lock(t))

Spec == Init /\ [][Next]_vars /\ Fairness
-----------------------------------------------------------------------------
TypeOK ==
  /\ ptr \in BOOLEAN /\ built \in Nat
  /\ singleton \in Threads \cup {NoThread} /\ mutex \in Threads \cup {NoThread}
  /\ channel \in Channels
  /\ pc \in [Threads -> {"idle", "get", "singleton_lock", "check", "construct", "publish",
                         "singleton_unlock", "lock", "select", "convert", "unlock"}]
  /\ after \in [Threads -> {"lock", "unlock"}]
  /\ task \in [Threads -> Channels] /\ result \in [Threads -> Channels]

\* However the first uses interleave, the mutex is constructed once: a second
\* construction would free it while a thread owns it.
BuiltOnce == built <= 1

\* A thread that found the pointer set, with no lock held, finds a mutex
\* that has been constructed.
UsesBuilt == \A t \in Threads : pc[t] \in {"lock", "unlock"} => built > 0

\* A read returns the voltage of its own pin, whatever other threads read or
\* initialise meanwhile.
ReadsOwnPin == \A t \in Threads : pc[t] = "unlock" => result[t] = task[t]

\* No thread stays in a constructor or a read for ever.
UsesReturn == \A t \in Threads : pc[t] # "idle" ~> pc[t] = "idle"
=============================================================================
