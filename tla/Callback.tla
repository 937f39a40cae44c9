------------------------------ MODULE Callback ------------------------------
(***************************************************************************)
(* mbed::Callback<R()>, the objects of a program that hold one, and the one *)
(* a Ticker calls from its interrupt handler.                               *)
(*                                                                          *)
(* A Callback is three words, in which a function object lives, and _ops,   *)
(* which knows its type. main constructs, copies, assigns and destroys      *)
(* Callbacks and attaches them to the Ticker; the handler may run wherever  *)
(* interrupts are enabled. Only the storage of the Ticker is shared.        *)
(***************************************************************************)
EXTENDS Integers, Sequences

CONSTANTS
  Variables,  \* the program's Callback variables
  Functions,  \* what can be attached: a kind, and the words of the object
  Junk        \* what a word of the stack may hold before it is written

\* Ticker::_function and the parameter func of attach_us().
Storage == Variables \cup {"_function", "func"}

\* How many words the object of each kind takes.
Size == [null |-> 0, static |-> 1, functor |-> 1, bound |-> 2, method |-> 3]
Kinds == {"null", "static", "functor", "bound", "method"}
Nothing == [kind |-> "null", words |-> <<>>]

ASSUME VariablesAssumption == Variables \cap {"_function", "func"} = {}

ASSUME FunctionsAssumption ==
  \A f \in Functions : /\ f \in [kind : Kinds \ {"null"}, words : Seq(Int)]
                       /\ Len(f.words) = Size[f.kind]

ASSUME JunkAssumption == Junk \subseteq Int

VARIABLES
  data,      \* data[s]: the words
  ops,       \* ops[s]: _ops, as the kind it serves
  alive,     \* the storage that holds a Callback
  object,    \* history: the function object that lives in each storage
  misused,   \* history: the calls by which an object was destroyed twice, lost or
             \* read when dead
  attached,  \* history: what the Ticker should call
  masked,    \* interrupts are disabled
  pc         \* where main is in attach_us()

vars == <<data, ops, alive, object, misused, attached, masked, pc>>
ticker == <<attached, masked, pc>>

-----------------------------------------------------------------------------
\* The words an object of this kind does not cover keep what they held.
Over_OneWord(words, old) ==
  [i \in 1 .. 3 |-> IF i \in DOMAIN words /\ i = 1 THEN words[i] ELSE old[i]]
Over(words, old) == [i \in 1 .. 3 |-> IF i \in DOMAIN words THEN words[i] ELSE old[i]]
Zero == [i \in 1 .. 3 |-> 0]

\* What call() runs: the type's operation on the words it takes.
Called(s) == [kind |-> ops[s], words |-> [i \in 1 .. Size[ops[s]] |-> data[s][i]]]

\* The objects left when the Callback in s is destroyed; its words and _ops
\* stay.
Without(s) == IF ops[s] = "null" THEN object ELSE [object EXCEPT ![s] = Nothing]

\* ~Callback() destroys an object that lives; move() reads one that lives, and
\* constructs where none does.
DtorMisuse(s) == ops[s] # "null" /\ object[s] = Nothing
MoveMisuse(objects, d, s) ==
  ops[s] # "null" /\ (objects[s] = Nothing \/ objects[d] # Nothing)

Init ==
  /\ data = [s \in Storage |-> Zero] /\ ops = [s \in Storage |-> "null"]
  /\ alive = {"_function"}
  /\ object = [s \in Storage |-> Nothing] /\ misused = {}
  /\ attached = Nothing /\ masked = FALSE /\ pc = "idle"

Misuse(call, wrong) == misused' = IF wrong THEN misused \cup {call} ELSE misused

\* new (d) Callback(*s), where objects are those alive before and old the words
\* of d. The copy of an object that is dead is what its words still say.
CopyInto(d, s, objects, old) ==
  /\ data' = [data EXCEPT ![d] = Over(Called(s).words, old)]
  /\ ops' = [ops EXCEPT ![d] = ops[s]]
  /\ object' = [objects EXCEPT ![d] = IF ops[s] = "null" THEN objects[d] ELSE Called(s)]

-----------------------------------------------------------------------------
(***************************************************************************)
(* The program's own Callbacks; main touches them alone.                    *)
(***************************************************************************)
\* A Callback of nothing, of a function, or of an object and its method.
Construct(v, f) ==
  /\ pc = "idle" /\ v \notin alive
  /\ data' = [data EXCEPT ![v] = Over(f.words, Zero)]
  /\ ops' = [ops EXCEPT ![v] = f.kind]
  /\ object' = [object EXCEPT ![v] = f]
  /\ Misuse("Callback", object[v] # Nothing)
  /\ alive' = alive \cup {v}
  /\ UNCHANGED ticker

ConstructCopy(v, s) ==
  /\ pc = "idle" /\ v \notin alive /\ s \in alive \cap Variables
  /\ \E old \in [1 .. 3 -> Junk] : CopyInto(v, s, object, old)
  /\ Misuse("Callback", MoveMisuse(object, v, s))
  /\ alive' = alive \cup {v}
  /\ UNCHANGED ticker

\* operator=, and attach() of a Callback, which has no test for itself; attach()
\* of a function is Destroy and then Construct.
AssignUnless(same, call, d, s) ==
  /\ pc = "idle" /\ {d, s} \subseteq alive \cap Variables
  /\ IF same THEN UNCHANGED <<data, ops, object, misused>>
     ELSE /\ CopyInto(d, s, Without(d), data[d])
          /\ Misuse(call, DtorMisuse(d) \/ MoveMisuse(Without(d), d, s))
  /\ UNCHANGED <<alive, ticker>>

Assign_Always(d, s) == AssignUnless(FALSE, "operator=", d, s)
Assign(d, s) == AssignUnless(d = s, "operator=", d, s)
Attach(d, s) == AssignUnless(FALSE, IF d = s THEN "attach itself" ELSE "attach", d, s)

Destroy(v) ==
  /\ pc = "idle" /\ v \in alive \cap Variables
  /\ object' = Without(v)
  /\ Misuse("~Callback", DtorMisuse(v))
  /\ alive' = alive \ {v}
  /\ UNCHANGED <<data, ops, ticker>>

-----------------------------------------------------------------------------
(***************************************************************************)
(* Ticker::attach_us(func): main copies its argument, disables interrupts   *)
(* and assigns, destroying what was attached and copying object and _ops.   *)
(***************************************************************************)
Pass(s) ==
  /\ pc = "idle" /\ s \in alive \cap Variables
  /\ \E old \in [1 .. 3 -> Junk] : CopyInto("func", s, object, old)
  /\ Misuse("attach_us", MoveMisuse(object, "func", s))
  /\ alive' = alive \cup {"func"}
  /\ pc' = "passed"
  /\ UNCHANGED <<attached, masked>>

EnterWith(mask) ==
  /\ pc = "passed"
  /\ masked' = mask
  /\ pc' = "entered"
  /\ UNCHANGED <<data, ops, alive, object, misused, attached>>

Enter_Unmasked == EnterWith(FALSE)
Enter == EnterWith(TRUE)

AssignDtor ==
  /\ pc = "entered"
  /\ object' = Without("_function")
  /\ Misuse("attach_us", DtorMisuse("_function"))
  /\ pc' = "destroyed"
  /\ UNCHANGED <<data, ops, alive, attached, masked>>

AssignMove ==
  /\ pc = "destroyed"
  /\ data' = [data EXCEPT !["_function"] = Over(Called("func").words, @)]
  /\ object' = IF ops["func"] = "null" THEN object
               ELSE [object EXCEPT !["_function"] = object["func"]]
  /\ Misuse("attach_us", MoveMisuse(object, "_function", "func"))
  /\ pc' = "moved"
  /\ UNCHANGED <<ops, alive, attached, masked>>

AssignOps ==
  /\ pc = "moved"
  /\ ops' = [ops EXCEPT !["_function"] = ops["func"]]
  /\ attached' = object["func"]
  /\ pc' = "assigned"
  /\ UNCHANGED <<data, alive, object, misused, masked>>

ExitTo(label) ==
  /\ pc = "assigned"
  /\ masked' = FALSE
  /\ pc' = label
  /\ UNCHANGED <<data, ops, alive, object, misused, attached>>

Exit_KeepsFunc == ExitTo("idle")
Exit == ExitTo("exited")

\* The parameter goes.
Leave ==
  /\ pc = "exited"
  /\ object' = Without("func")
  /\ Misuse("attach_us", DtorMisuse("func"))
  /\ alive' = alive \ {"func"}
  /\ pc' = "idle"
  /\ UNCHANGED <<data, ops, attached, masked>>

\* detach(), from main or from a function the handler calls: _function = 0, in
\* a critical section of its own.
Detach ==
  /\ ~masked
  /\ ops' = [ops EXCEPT !["_function"] = "null"]
  /\ object' = Without("_function")
  /\ Misuse("detach", DtorMisuse("_function"))
  /\ attached' = Nothing
  /\ UNCHANGED <<data, alive, masked, pc>>

-----------------------------------------------------------------------------
AttachUs ==
  (\E s \in Variables : Pass(s))
    \/ Enter \/ AssignDtor \/ AssignMove \/ AssignOps \/ Exit \/ Leave

Next ==
  \/ \E v \in Variables :
       \/ \E f \in Functions \cup {Nothing} : Construct(v, f)
       \/ \E s \in Variables : ConstructCopy(v, s) \/ Assign(v, s) \/ Attach(v, s)
       \/ Destroy(v)
  \/ AttachUs \/ Detach

Spec == Init /\ [][Next]_vars
-----------------------------------------------------------------------------
Calls == {"Callback", "~Callback", "operator=", "attach", "attach itself", "attach_us",
          "detach"}

TypeOK ==
  /\ data \in [Storage -> [1 .. 3 -> Int]]
  /\ ops \in [Storage -> Kinds]
  /\ alive \subseteq Storage /\ ("func" \in alive <=> pc # "idle")
  /\ object \in [Storage -> Functions \cup {Nothing}]
  /\ misused \subseteq Calls /\ masked \in BOOLEAN
  /\ attached \in Functions \cup {Nothing}
  /\ pc \in {"idle", "passed", "entered", "destroyed", "moved", "assigned", "exited"}

\* Every function object is destroyed exactly once, never read when it is
\* dead, and never overwritten while it lives, whichever Callbacks are copied,
\* assigned, also to themselves, attached and destroyed: except by attach() of a
\* Callback to itself, which destroys the object and then copies it
\* (Callback.h:286).
LifetimesRespected == misused \subseteq {"attach itself"}

\* Wherever the handler may interrupt main, the storage it calls holds, whole,
\* the function last attached, and its object lives: never the operations of
\* one function on the words of another.
HandlerCallsWhole ==
  ~masked => Called("_function") = attached /\ object["_function"] = attached

\* The Callbacks are values: each calls what it was made, copied or assigned
\* from, whatever becomes of the other, also after attach() to itself, and the
\* Ticker calls what attach_us() and detach() last gave it. Between the move and
\* the assignment of _ops the words in _function are those of the parameter
\* already.
Values == INSTANCE Delegates WITH
  Names <- Variables \cup {"func"},
  value <- [s \in alive \ {"_function"} |-> Called(s)],
  ticker <- Called(IF pc = "moved" THEN "func" ELSE "_function")
ActsAsValues == Values!Spec
=============================================================================
