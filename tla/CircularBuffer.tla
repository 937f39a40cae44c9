--------------------------- MODULE CircularBuffer ---------------------------
(***************************************************************************)
(* mbed::CircularBuffer<T, BufferSize, CounterType> shared by main and the *)
(* interrupt handlers of a single-core microcontroller.  The contexts are  *)
(* 0 (main) and the interrupt priorities above it: a context runs until it *)
(* returns or a higher one preempts it, which the processor allows only    *)
(* outside critical sections.  One action is one statement of the C++.     *)
(***************************************************************************)
EXTENDS Naturals, Sequences

CONSTANTS
  MaxPriority,  \* priorities of the handlers that use the buffer: 1 .. this
  Data,         \* the elements pushed
  BufferSize,
  CounterRange, \* CounterType counts modulo this power of two
  NoCall, Nothing

Contexts == 0 .. MaxPriority

Operations == {"push", "pop", "empty", "full", "size", "reset"}
Calls == ({"push"} \X Data) \cup ((Operations \ {"push"}) \X {Nothing})

\* The constructor's static assertion, for the counter types narrower than
\* 32 bits; a BufferSize is a uint32_t, which gives it for the others.
ASSUME BufferAssumption ==
  /\ MaxPriority \in Nat
  /\ BufferSize \in Nat \ {0} /\ CounterRange \in Nat /\ BufferSize < CounterRange
  /\ Nothing \notin Data /\ NoCall \notin Calls

VARIABLES
  head, tail, full, pool,  \* the members of the object
  nest,       \* depth of nested critical sections; interrupts are off if > 0
  pc,         \* pc[c]: the statement c is at
  call,       \* call[c]: the operation c is in and its argument
  test,       \* test[c]: what the nested full() or empty() returned to c
  answer,     \* answer[c]: the return value, or data popped
  committed   \* the elements when interrupts were last on (a history variable)

members == <<head, tail, full, pool>>
vars == <<head, tail, full, pool, nest, pc, call, test, answer, committed>>

-----------------------------------------------------------------------------
\* The elements the members stand for, oldest first.
Count(h, t, f) == IF f THEN BufferSize
                  ELSE (BufferSize + h - t) % BufferSize
Elements(h, t, f, p) ==
  [i \in 1 .. Count(h, t, f) |-> p[(t + i - 1) % BufferSize]]

\* No higher context is in a call: c runs when it is in one.
Preempted(c) == \E d \in Contexts : d > c /\ pc[d] # "idle"

At(c, label) == pc[c] = label /\ ~Preempted(c)
Goto(c, label) == pc' = [pc EXCEPT ![c] = label]
Op(c) == call[c][1]

Init ==
  /\ head = 0 /\ tail = 0 /\ full = FALSE
  /\ pool = [i \in 0 .. BufferSize - 1 |-> Nothing]
  /\ nest = 0
  /\ pc = [c \in Contexts |-> "idle"]
  /\ call = [c \in Contexts |-> NoCall]
  /\ test = [c \in Contexts |-> FALSE]
  /\ answer = [c \in Contexts |-> Nothing]
  /\ committed = <<>>

\* c calls an operation: main from its loop, a handler when its interrupt is
\* taken, which needs interrupts on and no handler of its priority or above.
Call(c, k) ==
  /\ nest = 0 /\ At(c, "idle")
  /\ call' = [call EXCEPT ![c] = k]
  /\ answer' = [answer EXCEPT ![c] = Nothing]
  /\ Goto(c, "enter")
  /\ UNCHANGED <<members, nest, test, committed>>

-----------------------------------------------------------------------------
(***************************************************************************)
(* Critical sections.  push calls full() and pop calls empty() inside      *)
(* theirs, so sections nest two deep.                                      *)
(***************************************************************************)
EnterWith(c, depth) ==
  /\ At(c, "enter")
  /\ nest' = depth
  /\ Goto(c, CASE Op(c) \in {"push", "pop"}          -> "test"
               [] Op(c) \in {"empty", "full", "size"} -> "read"
               [] Op(c) = "reset"                     -> "zero_head")
  /\ UNCHANGED <<members, call, test, answer, committed>>

Enter_LeavesInterruptsOn(c) == EnterWith(c, nest)
Enter(c) == EnterWith(c, nest + 1)

TestEnter(c) ==
  /\ At(c, "test")
  /\ nest' = nest + 1
  /\ Goto(c, "tested")
  /\ UNCHANGED <<members, call, test, answer, committed>>

IsEmpty == head = tail /\ ~full

Test(c) ==
  /\ At(c, "tested")
  /\ test' = [test EXCEPT ![c] = IF Op(c) = "push" THEN full ELSE IsEmpty]
  /\ Goto(c, "test_exit")
  /\ UNCHANGED <<members, nest, call, answer, committed>>

TestExitWith(c, depth, ifEmpty) ==
  /\ At(c, "test_exit")
  /\ nest' = depth
  /\ Goto(c, CASE Op(c) = "push" /\ test[c]  -> "drop"
               [] Op(c) = "push" /\ ~test[c] -> "store"
               [] Op(c) = "pop" /\ test[c]   -> ifEmpty
               [] Op(c) = "pop" /\ ~test[c]  -> "take")
  /\ UNCHANGED <<members, call, test, answer, committed>>

TestExit_EndsBothSections(c) == TestExitWith(c, 0, "exit")
TestExit_ReturnsWhenEmpty(c) == TestExitWith(c, nest - 1, "idle")
TestExit(c) == TestExitWith(c, nest - 1, "exit")

\* The end of the outer section, and of the call: from here on the other
\* contexts see what it did.
Exit(c) ==
  /\ At(c, "exit")
  /\ nest' = nest - 1
  /\ Goto(c, "idle")
  /\ call' = [call EXCEPT ![c] = NoCall]
  /\ committed' = IF nest' = 0 THEN Elements(head, tail, full, pool)
                  ELSE committed
  /\ test' = [test EXCEPT ![c] = FALSE]
  /\ UNCHANGED <<members, answer>>

-----------------------------------------------------------------------------
(***************************************************************************)
(* The statements of the operations.                                       *)
(***************************************************************************)

\* if (full()) { _tail++; _tail %= BufferSize; }
Drop(c) ==
  /\ At(c, "drop")
  /\ tail' = (tail + 1) % CounterRange
  /\ Goto(c, "drop_mod")
  /\ UNCHANGED <<head, full, pool, nest, call, test, answer, committed>>

DropMod(c) ==
  /\ At(c, "drop_mod")
  /\ tail' = tail % BufferSize
  /\ Goto(c, "store")
  /\ UNCHANGED <<head, full, pool, nest, call, test, answer, committed>>

\* _pool[_head++] = data;
Store(c) ==
  /\ At(c, "store")
  /\ pool' = [pool EXCEPT ![head] = call[c][2]]
  /\ head' = (head + 1) % CounterRange
  /\ Goto(c, "store_mod")
  /\ UNCHANGED <<tail, full, nest, call, test, answer, committed>>

\* _head %= BufferSize;
StoreMod(c) ==
  /\ At(c, "store_mod")
  /\ head' = head % BufferSize
  /\ Goto(c, "mark")
  /\ UNCHANGED <<tail, full, pool, nest, call, test, answer, committed>>

\* if (_head == _tail) _full = true;
Mark(c) ==
  /\ At(c, "mark")
  /\ full' = (full \/ head = tail)
  /\ Goto(c, "exit")
  /\ UNCHANGED <<head, tail, pool, nest, call, test, answer, committed>>

\* data = _pool[_tail++];
Take(c) ==
  /\ At(c, "take")
  /\ answer' = [answer EXCEPT ![c] = pool[tail]]
  /\ tail' = (tail + 1) % CounterRange
  /\ Goto(c, "take_mod")
  /\ UNCHANGED <<head, full, pool, nest, call, test, committed>>

\* _tail %= BufferSize;
TakeMod(c) ==
  /\ At(c, "take_mod")
  /\ tail' = tail % BufferSize
  /\ Goto(c, "clear")
  /\ UNCHANGED <<head, full, pool, nest, call, test, answer, committed>>

Clear_Forgotten(c) ==
  /\ At(c, "clear")
  /\ Goto(c, "exit")
  /\ UNCHANGED <<members, nest, call, test, answer, committed>>
\* _full = false; data_popped = true;
Clear(c) ==
  /\ At(c, "clear")
  /\ full' = FALSE
  /\ Goto(c, "exit")
  /\ UNCHANGED <<head, tail, pool, nest, call, test, answer, committed>>

\* empty(), full() and size(): unsigned arithmetic, cut to CounterType.
Sizeof_NoWrap(h, t, f) ==
  IF f THEN BufferSize % CounterRange ELSE (CounterRange + h - t) % CounterRange
Sizeof(h, t, f) ==
  IF f THEN BufferSize % CounterRange
  ELSE IF h < t THEN (BufferSize + h - t) % CounterRange ELSE h - t

Read(c) ==
  /\ At(c, "read")
  /\ answer' = [answer EXCEPT ![c] =
       CASE Op(c) = "empty" -> IsEmpty
         [] Op(c) = "full"  -> full
         [] Op(c) = "size"  -> Sizeof(head, tail, full)]
  /\ Goto(c, "exit")
  /\ UNCHANGED <<members, nest, call, test, committed>>

\* reset()
ZeroHead(c) ==
  /\ At(c, "zero_head") /\ head' = 0 /\ Goto(c, "zero_tail")
  /\ UNCHANGED <<tail, full, pool, nest, call, test, answer, committed>>

ZeroTail(c) ==
  /\ At(c, "zero_tail") /\ tail' = 0 /\ Goto(c, "clear")
  /\ UNCHANGED <<head, full, pool, nest, call, test, answer, committed>>

-----------------------------------------------------------------------------
Step(c) ==
  \/ Enter(c) \/ TestEnter(c) \/ Test(c) \/ TestExit(c) \/ Exit(c)
  \/ Drop(c) \/ DropMod(c) \/ Store(c) \/ StoreMod(c) \/ Mark(c)
  \/ Take(c) \/ TakeMod(c) \/ Clear(c)
  \/ Read(c) \/ ZeroHead(c) \/ ZeroTail(c)

Next == \E c \in Contexts : Step(c) \/ \E k \in Calls : Call(c, k)

Spec == Init /\ [][Next]_vars

\* The processor keeps executing the context that runs.
FairSpec == Spec /\ WF_vars(\E c \in Contexts : Step(c))

-----------------------------------------------------------------------------
\* The labels of each operation, between its call and its return.
LabelsOf(op) ==
  {"enter", "exit"} \cup
  CASE op = "push"  -> {"test", "tested", "test_exit", "drop", "drop_mod",
                        "store", "store_mod", "mark"}
    [] op = "pop"   -> {"test", "tested", "test_exit", "take", "take_mod", "clear"}
    [] op = "reset" -> {"zero_head", "zero_tail", "clear"}
    [] OTHER        -> {"read"}

TypeOK ==
  /\ head \in 0 .. BufferSize /\ tail \in 0 .. BufferSize /\ full \in BOOLEAN
  /\ pool \in [0 .. BufferSize - 1 -> Data \cup {Nothing}]
  /\ nest \in 0 .. 2
  /\ DOMAIN pc = Contexts /\ test \in [Contexts -> BOOLEAN]
  /\ call \in [Contexts -> Calls \cup {NoCall}]
  /\ \A c \in Contexts : IF pc[c] = "idle" THEN call[c] = NoCall
                         ELSE call[c] \in Calls /\ pc[c] \in LabelsOf(Op(c))

\* How deep a context at a label is inside critical sections.
Depth(label) == IF label \in {"idle", "enter"} THEN 0
                ELSE IF label \in {"tested", "test_exit"} THEN 2 ELSE 1

\* One context at a time is between enter and exit, it is the one that runs,
\* and nest counts its sections exactly, the nested full() and empty() too.
SectionInv ==
  /\ \A c \in Contexts : Depth(pc[c]) > 0 => nest = Depth(pc[c]) /\ ~Preempted(c)
  /\ nest > 0 => \E c \in Contexts : Depth(pc[c]) > 0

\* Whenever interrupts are on the members describe a queue: the indices are
\* inside the pool, and full only where they meet.  Inside a section they may
\* not, until the statement that repairs them; no access leaves the pool.
Some(labels) == \E c \in Contexts : pc[c] \in labels
Next1(i) == IF i + 1 = BufferSize THEN 0 ELSE i + 1
QueueInv ==
  /\ head < BufferSize \/ Some({"store_mod"})
  /\ tail < BufferSize \/ Some({"drop_mod", "take_mod"})
  /\ full /\ head # tail =>
       Some({"drop_mod", "store", "store_mod", "take_mod", "clear", "zero_tail"})
  /\ full => /\ Some({"drop_mod"}) => tail = head + 1
             /\ Some({"store"}) => tail = Next1(head)
             /\ Some({"store_mod"}) => head = tail \/ (head = BufferSize /\ tail = 0)

\* What push learned from full(), and pop from empty(), is still so when they
\* act on it: the nested call's exit does not end their own section.
TestInv ==
  \A c \in Contexts : pc[c] = "test_exit" =>
    test[c] = IF Op(c) = "push" THEN full ELSE IsEmpty

\* Interrupts that a call turns off come on again, by whatever path it leaves.
InterruptsComeBack == nest > 0 ~> nest = 0

\* Each call, preempted or not, acts as one step of a bounded queue.
Queue == INSTANCE Fifo WITH Callers <- Contexts, Capacity <- BufferSize,
                            queue <- committed,
                            answer <- [c \in Contexts |->
                              IF call[c] = NoCall THEN answer[c] ELSE Nothing]
ActsAsFifo == Queue!Spec
=============================================================================
