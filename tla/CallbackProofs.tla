--------------------------- MODULE CallbackProofs ---------------------------
(***************************************************************************)
(* For any variables, functions and stack contents: function objects live   *)
(* and die once, except where attach() is given the Callback itself, each   *)
(* Callback calls what it was given, and the handler finds a whole function.*)
(***************************************************************************)
EXTENDS Callback, TLAPS

F == "_function"

\* A Callback in use holds the object it can call, one that is not holds none.
Owned(s) == IF s \in alive THEN object[s] = Called(s) ELSE object[s] = Nothing

\* What the Ticker's storage holds while main assigns to it.
TickerInv ==
  /\ pc \notin {"destroyed", "moved"} => Called(F) = object[F] /\ attached = object[F]
  /\ pc = "destroyed" => object[F] = Nothing
  /\ pc = "moved" => /\ object[F] = object["func"]
                     /\ \A i \in 1 .. Size[ops["func"]] : data[F][i] = data["func"][i]

CallbackInv ==
  /\ TypeOK
  /\ LifetimesRespected
  /\ \A s \in Storage \ {F} : Owned(s)
  /\ TickerInv
  /\ masked <=> pc \in {"entered", "destroyed", "moved", "assigned"}

-----------------------------------------------------------------------------
LEMMA SizeType ==
  /\ \A k \in Kinds : Size[k] \in 0 .. 3
  /\ Size["null"] = 0
BY DEF Size, Kinds

LEMMA StorageType == F \in Storage /\ "func" \in Storage /\ Variables \subseteq Storage
BY DEF Storage, F

LEMMA VariableType ==
  ASSUME NEW v \in Variables
  PROVE  v \in Storage /\ v # F /\ v # "func"
BY VariablesAssumption DEF Storage, F

LEMMA FunctionType ==
  ASSUME NEW f \in Functions \cup {Nothing}
  PROVE  /\ f = [kind |-> f.kind, words |-> [i \in 1 .. Size[f.kind] |-> f.words[i]]]
         /\ f.kind \in Kinds /\ f.words \in Seq(Int)
         /\ DOMAIN f.words = 1 .. Size[f.kind]
         /\ f # Nothing => f.kind # "null"
<1>1. CASE f = Nothing
  BY <1>1 DEF Nothing, Size, Kinds
<1>2. CASE f \in Functions
  <2>1. f \in [kind : Kinds \ {"null"}, words : Seq(Int)] /\ Len(f.words) = Size[f.kind]
    BY <1>2, FunctionsAssumption
  <2>2. DOMAIN f.words = 1 .. Size[f.kind]
    BY <2>1
  <2>3. f.words = [i \in 1 .. Size[f.kind] |-> f.words[i]]
    BY <2>1, <2>2
  <2>. QED
    BY <2>1, <2>2, <2>3 DEF Nothing
<1>. QED
  BY <1>1, <1>2

\* A Callback calls nothing exactly when its _ops is null.
LEMMA CallsNothing ==
  ASSUME NEW s
  PROVE  Called(s) = Nothing <=> ops[s] = "null"
<1>1. ASSUME ops[s] = "null" PROVE Called(s) = Nothing
  BY <1>1, SizeType DEF Called, Nothing
<1>2. ASSUME Called(s) = Nothing PROVE ops[s] = "null"
  BY <1>2 DEF Called, Nothing
<1>. QED
  BY <1>1, <1>2

LEMMA OverType ==
  ASSUME NEW w, NEW old \in [1 .. 3 -> Int], \A i \in DOMAIN w : w[i] \in Int
  PROVE  Over(w, old) \in [1 .. 3 -> Int]
BY DEF Over

LEMMA CalledWords ==
  ASSUME TypeOK, NEW s \in Storage
  PROVE  /\ DOMAIN Called(s).words = 1 .. Size[ops[s]]
         /\ \A i \in 1 .. Size[ops[s]] : Called(s).words[i] = data[s][i]
         /\ \A i \in DOMAIN Called(s).words : Called(s).words[i] \in Int
         /\ Size[ops[s]] \in 0 .. 3
BY SizeType DEF Called, TypeOK

\* A copy calls what the original calls.
LEMMA CopyCalls ==
  ASSUME TypeOK, NEW d \in Storage, NEW s \in Storage,
         Called(s) \in Functions \cup {Nothing},
         NEW objects \in [Storage -> Functions \cup {Nothing}],
         NEW old \in [1 .. 3 -> Int], CopyInto(d, s, objects, old)
  PROVE  /\ data' \in [Storage -> [1 .. 3 -> Int]] /\ ops' \in [Storage -> Kinds]
         /\ object' \in [Storage -> Functions \cup {Nothing}]
         /\ Called(d)' = Called(s)
         /\ \A t \in Storage \ {d} : Called(t)' = Called(t) /\ object'[t] = objects[t]
         /\ object'[d] = IF ops[s] = "null" THEN objects[d] ELSE Called(s)
<1>1. Over(Called(s).words, old) \in [1 .. 3 -> Int]
  BY CalledWords, OverType
<1>2. \A i \in 1 .. Size[ops[s]] : Over(Called(s).words, old)[i] = data[s][i]
  BY CalledWords DEF Over
<1>3. data'[d] = Over(Called(s).words, old) /\ ops'[d] = ops[s]
  BY DEF CopyInto, TypeOK
<1>4. \A t \in Storage \ {d} : data'[t] = data[t] /\ ops'[t] = ops[t]
  BY DEF CopyInto, TypeOK
<1>5. Called(d)' = Called(s)
  BY <1>2, <1>3 DEF Called
<1>6. \A t \in Storage \ {d} : Called(t)' = Called(t)
  BY <1>4 DEF Called
<1>. QED
  BY <1>1, <1>5, <1>6 DEF CopyInto, TypeOK

LEMMA WithoutType ==
  ASSUME TypeOK, NEW s \in Storage
  PROVE  /\ Without(s) \in [Storage -> Functions \cup {Nothing}]
         /\ \A t \in Storage \ {s} : Without(s)[t] = object[t]
         /\ object[s] = Called(s) => Without(s)[s] = Nothing
BY CallsNothing DEF Without, TypeOK
-----------------------------------------------------------------------------
\* main's steps on its own Callbacks leave the Ticker's storage alone.
LEMMA ProgramStep ==
  ASSUME CallbackInv, NEW v \in Variables, v # F, v # "func", v \in Storage,
         pc = "idle", UNCHANGED ticker, LifetimesRespected',
         alive' \subseteq Storage, "func" \notin alive',
         data' \in [Storage -> [1 .. 3 -> Int]], ops' \in [Storage -> Kinds],
         object' \in [Storage -> Functions \cup {Nothing}],
         Owned(v)',
         \A t \in Storage \ {v} :
           Called(t)' = Called(t) /\ object'[t] = object[t] /\ (t \in alive' <=> t \in alive)
  PROVE  CallbackInv'
<1>1. TypeOK'
  <2>1. pc' = "idle" /\ masked' = masked /\ attached' = attached /\ TypeOK
    BY DEF CallbackInv, ticker
  <2>2. "func" \in alive' <=> pc' # "idle"
    BY <2>1
  <2>. QED
    BY <2>1, <2>2 DEF TypeOK, LifetimesRespected, Calls
<1>2. \A s \in Storage \ {F} : Owned(s)'
  BY DEF CallbackInv, Owned
<1>3. TickerInv'
  BY StorageType DEF CallbackInv, TickerInv, ticker, F
<1>. QED
  BY <1>1, <1>2, <1>3 DEF CallbackInv, ticker

LEMMA ProgramContext ==
  ASSUME CallbackInv, NEW v \in Variables
  PROVE  v # F /\ v # "func" /\ v \in Storage /\ Owned(v)
BY VariableType DEF CallbackInv

\* A Callback of the program calls one of the functions, or nothing.
LEMMA CalledType ==
  ASSUME CallbackInv, NEW s \in alive, s \in Storage \ {F}
  PROVE  Called(s) \in Functions \cup {Nothing}
BY DEF CallbackInv, Owned, TypeOK

LEMMA JunkWords == [1 .. 3 -> Junk] \subseteq [1 .. 3 -> Int]
BY JunkAssumption

LEMMA ConstructInv ==
  ASSUME CallbackInv, NEW v \in Variables, NEW f \in Functions \cup {Nothing},
         Construct(v, f)
  PROVE  CallbackInv'
<1>1. v # F /\ v # "func" /\ v \in Storage /\ Owned(v)
  BY ProgramContext
<1>2. f.kind \in Kinds /\ DOMAIN f.words = 1 .. Size[f.kind]
      /\ \A i \in DOMAIN f.words : f.words[i] \in Int
  BY FunctionType
<1>3. Zero \in [1 .. 3 -> Int]
  BY DEF Zero
<1>4. Over(f.words, Zero) \in [1 .. 3 -> Int]
  BY <1>2, <1>3, OverType
<1>5. data'[v] = Over(f.words, Zero) /\ ops'[v] = f.kind /\ object'[v] = f /\ v \in alive'
  BY <1>1 DEF Construct, CallbackInv, TypeOK
<1>6. \A i \in 1 .. Size[f.kind] : Over(f.words, Zero)[i] = f.words[i]
  BY <1>2, SizeType DEF Over
<1>7. Called(v)' = f
  <2>1. f = [kind |-> f.kind, words |-> [i \in 1 .. Size[f.kind] |-> f.words[i]]]
    BY FunctionType
  <2>. QED
    BY <1>5, <1>6, <2>1 DEF Called
<1>8. Owned(v)'
  BY <1>5, <1>7 DEF Owned
<1>9. \A t \in Storage \ {v} :
        Called(t)' = Called(t) /\ object'[t] = object[t] /\ (t \in alive' <=> t \in alive)
  BY DEF Construct, Called, CallbackInv, TypeOK
<1>10. LifetimesRespected'
  BY <1>1 DEF Construct, CallbackInv, Owned, Misuse, LifetimesRespected
<1>11. /\ data' \in [Storage -> [1 .. 3 -> Int]] /\ ops' \in [Storage -> Kinds]
       /\ object' \in [Storage -> Functions \cup {Nothing}]
       /\ alive' \subseteq Storage /\ "func" \notin alive' /\ pc = "idle" /\ UNCHANGED ticker
  BY <1>1, <1>2, <1>4 DEF Construct, CallbackInv, TypeOK
<1>. QED
  BY <1>1, <1>8, <1>9, <1>10, <1>11, ProgramStep

LEMMA ConstructCopyInv ==
  ASSUME CallbackInv, NEW v \in Variables, NEW s \in Variables, ConstructCopy(v, s)
  PROVE  CallbackInv'
<1>1. v # F /\ v # "func" /\ v \in Storage /\ Owned(v) /\ s \in Storage /\ Owned(s)
  BY ProgramContext
<1>2. v # s /\ v \notin alive /\ s \in alive /\ TypeOK
  BY DEF ConstructCopy, CallbackInv
<1>3. PICK old \in [1 .. 3 -> Int] : CopyInto(v, s, object, old)
  BY JunkWords DEF ConstructCopy
<1>4. object \in [Storage -> Functions \cup {Nothing}]
  BY <1>2 DEF TypeOK
<1>5. object[v] = Nothing /\ object[s] = Called(s)
  BY <1>1, <1>2 DEF Owned
<1>6. /\ data' \in [Storage -> [1 .. 3 -> Int]] /\ ops' \in [Storage -> Kinds]
      /\ object' \in [Storage -> Functions \cup {Nothing}]
      /\ Called(v)' = Called(s)
      /\ \A t \in Storage \ {v} : Called(t)' = Called(t) /\ object'[t] = object[t]
      /\ object'[v] = IF ops[s] = "null" THEN object[v] ELSE Called(s)
  <2>1. s \in Storage \ {F} /\ old \in [1 .. 3 -> Int]
    BY <1>1, <1>3, VariableType
  <2>2. Called(s) \in Functions \cup {Nothing}
    BY <1>2, <2>1, CalledType
  <2>. QED
    BY <1>1, <1>2, <1>3, <1>4, <2>2, CopyCalls
<1>7. Owned(v)'
  BY <1>5, <1>6, CallsNothing DEF Owned, ConstructCopy
<1>8. LifetimesRespected'
  BY <1>5, CallsNothing DEF ConstructCopy, MoveMisuse, CallbackInv, Misuse, LifetimesRespected
<1>9. /\ alive' \subseteq Storage /\ "func" \notin alive' /\ pc = "idle" /\ UNCHANGED ticker
      /\ \A t \in Storage \ {v} : t \in alive' <=> t \in alive
  BY <1>1 DEF ConstructCopy, CallbackInv, TypeOK
<1>. QED
  BY <1>1, <1>6, <1>7, <1>8, <1>9, ProgramStep

\* Destroying a Callback and copying another into it, or itself.
LEMMA ReplaceInv ==
  ASSUME CallbackInv, NEW d \in Variables, NEW s \in Variables, d \in alive, s \in alive,
         pc = "idle", UNCHANGED <<alive, ticker>>,
         CopyInto(d, s, Without(d), data[d]),
         NEW call, Misuse(call, DtorMisuse(d) \/ MoveMisuse(Without(d), d, s)),
         d = s => call = "attach itself"
  PROVE  CallbackInv'
<1>1. d # F /\ d # "func" /\ d \in Storage /\ Owned(d) /\ s # F /\ s \in Storage /\ Owned(s)
  BY ProgramContext
<1>2. TypeOK /\ Called(s) \in Functions \cup {Nothing}
  BY <1>1, CalledType DEF CallbackInv
<1>3. object[d] = Called(d) /\ object[s] = Called(s)
  BY <1>1 DEF Owned
<1>4. /\ Without(d) \in [Storage -> Functions \cup {Nothing}] /\ Without(d)[d] = Nothing
      /\ \A t \in Storage \ {d} : Without(d)[t] = object[t]
  BY <1>1, <1>2, <1>3, WithoutType
<1>5. data[d] \in [1 .. 3 -> Int]
  BY <1>1, <1>2 DEF TypeOK
<1>6. /\ data' \in [Storage -> [1 .. 3 -> Int]] /\ ops' \in [Storage -> Kinds]
      /\ object' \in [Storage -> Functions \cup {Nothing}]
      /\ Called(d)' = Called(s)
      /\ \A t \in Storage \ {d} : Called(t)' = Called(t) /\ object'[t] = Without(d)[t]
      /\ object'[d] = IF ops[s] = "null" THEN Without(d)[d] ELSE Called(s)
  BY <1>1, <1>2, <1>4, <1>5, CopyCalls
<1>7. Owned(d)'
  BY <1>4, <1>6, CallsNothing DEF Owned
<1>8. LifetimesRespected'
  <2>1. CASE d = s
    BY <2>1 DEF Misuse, LifetimesRespected, CallbackInv
  <2>2. CASE d # s
    <3>1. ~DtorMisuse(d) /\ ~MoveMisuse(Without(d), d, s)
      BY <1>1, <1>3, <1>4, <2>2, CallsNothing DEF DtorMisuse, MoveMisuse
    <3>. QED
      BY <3>1 DEF Misuse, LifetimesRespected, CallbackInv
  <2>. QED
    BY <2>1, <2>2
<1>9. alive' \subseteq Storage /\ "func" \notin alive' /\ UNCHANGED ticker
  BY <1>2 DEF TypeOK
<1>10. \A t \in Storage \ {d} :
         Called(t)' = Called(t) /\ object'[t] = object[t] /\ (t \in alive' <=> t \in alive)
  BY <1>4, <1>6
<1>. QED
  BY <1>1, <1>6, <1>7, <1>8, <1>9, <1>10, ProgramStep

LEMMA AssignInv ==
  ASSUME CallbackInv, NEW d \in Variables, NEW s \in Variables, Assign(d, s)
  PROVE  CallbackInv'
<1>1. CASE d = s
  <2>1. UNCHANGED vars
    BY <1>1 DEF Assign, AssignUnless, vars, ticker
  <2>. QED
    BY <2>1 DEF CallbackInv, TypeOK, Owned, TickerInv, Called, LifetimesRespected, vars
<1>2. CASE d # s
  <2>1. /\ CopyInto(d, s, Without(d), data[d])
        /\ Misuse("operator=", DtorMisuse(d) \/ MoveMisuse(Without(d), d, s))
        /\ d \in alive /\ s \in alive /\ pc = "idle" /\ UNCHANGED <<alive, ticker>>
    BY <1>2 DEF Assign, AssignUnless
  <2>. QED
    BY <1>2, <2>1, ReplaceInv
<1>. QED
  BY <1>1, <1>2

LEMMA AttachInv ==
  ASSUME CallbackInv, NEW d \in Variables, NEW s \in Variables, Attach(d, s)
  PROVE  CallbackInv'
<1>. DEFINE call == IF d = s THEN "attach itself" ELSE "attach"
<1>1. /\ CopyInto(d, s, Without(d), data[d])
      /\ Misuse(call, DtorMisuse(d) \/ MoveMisuse(Without(d), d, s))
      /\ d \in alive /\ s \in alive /\ pc = "idle" /\ UNCHANGED <<alive, ticker>>
  BY DEF Attach, AssignUnless
<1>2. d = s => call = "attach itself"
  OBVIOUS
<1>. HIDE DEF call
<1>. QED
  BY <1>1, <1>2, ReplaceInv

LEMMA DestroyInv ==
  ASSUME CallbackInv, NEW v \in Variables, Destroy(v)
  PROVE  CallbackInv'
<1>1. v # F /\ v # "func" /\ v \in Storage /\ Owned(v) /\ v \in alive /\ TypeOK
  BY ProgramContext DEF Destroy, CallbackInv
<1>2. object[v] = Called(v)
  BY <1>1 DEF Owned
<1>3. /\ object' \in [Storage -> Functions \cup {Nothing}] /\ object'[v] = Nothing
      /\ \A t \in Storage \ {v} : object'[t] = object[t]
  BY <1>1, <1>2, WithoutType DEF Destroy
<1>4. v \notin alive' /\ \A t \in Storage \ {v} : t \in alive' <=> t \in alive
  BY DEF Destroy
<1>5. Owned(v)'
  BY <1>3, <1>4 DEF Owned
<1>6. LifetimesRespected'
  BY <1>2, CallsNothing DEF Destroy, DtorMisuse, CallbackInv, Misuse, LifetimesRespected
<1>7. \A t \in Storage \ {v} : Called(t)' = Called(t)
  BY DEF Destroy, Called
<1>8. /\ data' \in [Storage -> [1 .. 3 -> Int]] /\ ops' \in [Storage -> Kinds]
      /\ alive' \subseteq Storage /\ "func" \notin alive' /\ pc = "idle" /\ UNCHANGED ticker
  BY <1>1 DEF Destroy, TypeOK
<1>. QED
  BY <1>1, <1>3, <1>4, <1>5, <1>6, <1>7, <1>8, ProgramStep
-----------------------------------------------------------------------------
\* The steps of attach_us() and detach().
LEMMA FuncContext ==
  ASSUME CallbackInv, pc # "idle"
  PROVE  /\ object["func"] = Called("func")
         /\ "func" \in Storage /\ F \in Storage /\ F # "func" /\ TypeOK
BY StorageType DEF CallbackInv, Owned, TypeOK, F

LEMMA PassInv ==
  ASSUME CallbackInv, NEW s \in Variables, Pass(s)
  PROVE  CallbackInv'
<1>1. s # F /\ s # "func" /\ s \in Storage /\ Owned(s) /\ s \in alive
      /\ F \in Storage /\ "func" \in Storage /\ F # "func"
  BY ProgramContext, StorageType DEF Pass, F
<1>2. TypeOK /\ pc = "idle" /\ pc' = "passed" /\ attached' = attached /\ masked' = masked
      /\ alive' = alive \cup {"func"}
  BY DEF Pass, CallbackInv
<1>3. PICK old \in [1 .. 3 -> Int] : CopyInto("func", s, object, old)
  BY JunkWords DEF Pass
<1>4. object \in [Storage -> Functions \cup {Nothing}] /\ "func" \notin alive
  BY <1>2 DEF TypeOK
<1>5. object["func"] = Nothing /\ object[s] = Called(s)
  BY <1>1, <1>4 DEF Owned, CallbackInv
<1>6. /\ data' \in [Storage -> [1 .. 3 -> Int]] /\ ops' \in [Storage -> Kinds]
      /\ object' \in [Storage -> Functions \cup {Nothing}]
      /\ Called("func")' = Called(s)
      /\ \A t \in Storage \ {"func"} : Called(t)' = Called(t) /\ object'[t] = object[t]
      /\ object'["func"] = IF ops[s] = "null" THEN object["func"] ELSE Called(s)
  BY <1>1, <1>2, <1>3, <1>4, CalledType, CopyCalls
<1>7. object'["func"] = Called("func")'
  BY <1>5, <1>6, CallsNothing
<1>8. LifetimesRespected'
  BY <1>5, CallsNothing DEF Pass, MoveMisuse, CallbackInv, Misuse, LifetimesRespected
<1>9. TypeOK'
  BY <1>1, <1>2, <1>6, <1>8 DEF TypeOK, LifetimesRespected, Calls
<1>10. ASSUME NEW t \in Storage \ {F} PROVE Owned(t)'
  BY <1>2, <1>6, <1>7 DEF Owned, CallbackInv
<1>11. TickerInv'
  BY <1>1, <1>2, <1>6 DEF TickerInv, CallbackInv
<1>. QED
  BY <1>2, <1>8, <1>9, <1>10, <1>11 DEF CallbackInv

LEMMA EnterInv ==
  ASSUME CallbackInv, Enter
  PROVE  CallbackInv'
<1>1. pc = "passed" /\ pc' = "entered" /\ masked' = TRUE
      /\ UNCHANGED <<data, ops, alive, object, misused, attached>>
  BY DEF Enter, EnterWith
<1>. QED
  BY <1>1 DEF CallbackInv, TypeOK, Owned, TickerInv, Called, LifetimesRespected

LEMMA ExitInv ==
  ASSUME CallbackInv, Exit
  PROVE  CallbackInv'
<1>1. pc = "assigned" /\ pc' = "exited" /\ masked' = FALSE
      /\ UNCHANGED <<data, ops, alive, object, misused, attached>>
  BY DEF Exit, ExitTo
<1>. QED
  BY <1>1 DEF CallbackInv, TypeOK, Owned, TickerInv, Called, LifetimesRespected

LEMMA AssignDtorInv ==
  ASSUME CallbackInv, AssignDtor
  PROVE  CallbackInv'
<1>1. /\ pc = "entered" /\ pc' = "destroyed" /\ object' = Without(F)
      /\ Misuse("attach_us", DtorMisuse(F))
      /\ UNCHANGED <<data, ops, alive, attached, masked>>
  BY DEF AssignDtor, F
<1>2. F \in Storage /\ F # "func" /\ TypeOK
  BY <1>1, FuncContext
<1>3. Called(F) = object[F]
  BY <1>1 DEF CallbackInv, TickerInv
<1>4. /\ object' \in [Storage -> Functions \cup {Nothing}] /\ object'[F] = Nothing
      /\ \A t \in Storage \ {F} : object'[t] = object[t]
  BY <1>1, <1>2, <1>3, WithoutType
<1>5. LifetimesRespected'
  BY <1>1, <1>3, CallsNothing DEF DtorMisuse, CallbackInv, Misuse, LifetimesRespected
<1>6. TypeOK'
  BY <1>1, <1>2, <1>4, <1>5 DEF TypeOK, LifetimesRespected, Calls
<1>7. ASSUME NEW t \in Storage \ {F} PROVE Owned(t)'
  BY <1>1, <1>4 DEF Owned, CallbackInv, Called
<1>8. TickerInv'
  BY <1>1, <1>4 DEF TickerInv
<1>. QED
  BY <1>1, <1>5, <1>6, <1>7, <1>8 DEF CallbackInv

LEMMA AssignMoveInv ==
  ASSUME CallbackInv, AssignMove
  PROVE  CallbackInv'
<1>1. /\ pc = "destroyed" /\ pc' = "moved"
      /\ data' = [data EXCEPT ![F] = Over(Called("func").words, @)]
      /\ object' = IF ops["func"] = "null" THEN object
                   ELSE [object EXCEPT ![F] = object["func"]]
      /\ Misuse("attach_us", MoveMisuse(object, F, "func"))
      /\ UNCHANGED <<ops, alive, attached, masked>>
  BY DEF AssignMove, F
<1>2. /\ object["func"] = Called("func")
      /\ "func" \in Storage /\ F \in Storage /\ F # "func" /\ TypeOK
  BY <1>1, FuncContext
<1>3. object[F] = Nothing
  BY <1>1 DEF CallbackInv, TickerInv
<1>4. Over(Called("func").words, data[F]) \in [1 .. 3 -> Int]
  <2>1. data[F] \in [1 .. 3 -> Int]
    BY <1>2 DEF TypeOK
  <2>. QED
    BY <1>2, <2>1, CalledWords, OverType
<1>5. /\ data' \in [Storage -> [1 .. 3 -> Int]]
      /\ data'[F] = Over(Called("func").words, data[F])
      /\ \A t \in Storage \ {F} : data'[t] = data[t]
  BY <1>1, <1>2, <1>4 DEF TypeOK
<1>6. \A i \in 1 .. Size[ops["func"]] : data'[F][i] = data["func"][i]
  <2>1. /\ DOMAIN Called("func").words = 1 .. Size[ops["func"]]
        /\ \A i \in 1 .. Size[ops["func"]] : Called("func").words[i] = data["func"][i]
        /\ Size[ops["func"]] \in 0 .. 3
    BY <1>2, CalledWords
  <2>2. ASSUME NEW i \in 1 .. Size[ops["func"]]
        PROVE  Over(Called("func").words, data[F])[i] = data["func"][i]
    BY <2>1 DEF Over
  <2>. QED
    BY <1>5, <2>2
<1>7. /\ object' \in [Storage -> Functions \cup {Nothing}]
      /\ \A t \in Storage \ {F} : object'[t] = object[t]
  BY <1>1, <1>2 DEF TypeOK
<1>8. object'[F] = object["func"]
  BY <1>1, <1>2, <1>3, CallsNothing DEF TypeOK
<1>9. LifetimesRespected'
  BY <1>1, <1>2, <1>3, CallsNothing DEF MoveMisuse, CallbackInv, Misuse, LifetimesRespected
<1>10. TypeOK'
  BY <1>1, <1>2, <1>5, <1>7, <1>9 DEF TypeOK, LifetimesRespected, Calls
<1>11. ASSUME NEW t \in Storage \ {F} PROVE Owned(t)'
  <2>1. Called(t)' = Called(t)
    BY <1>1, <1>5 DEF Called
  <2>. QED
    BY <1>1, <1>7, <2>1 DEF Owned, CallbackInv
<1>12. TickerInv'
  <2>1. object'["func"] = object["func"] /\ data'["func"] = data["func"] /\ ops' = ops
    BY <1>1, <1>2, <1>5, <1>7
  <2>. QED
    BY <1>1, <1>6, <1>8, <2>1 DEF TickerInv
<1>. QED
  BY <1>1, <1>9, <1>10, <1>11, <1>12 DEF CallbackInv

LEMMA AssignOpsInv ==
  ASSUME CallbackInv, AssignOps
  PROVE  CallbackInv'
<1>1. /\ pc = "moved" /\ pc' = "assigned"
      /\ ops' = [ops EXCEPT ![F] = ops["func"]] /\ attached' = object["func"]
      /\ UNCHANGED <<data, alive, object, misused, masked>>
  BY DEF AssignOps, F
<1>2. /\ object["func"] = Called("func")
      /\ "func" \in Storage /\ F \in Storage /\ F # "func" /\ TypeOK
  BY <1>1, FuncContext
<1>3. /\ object[F] = object["func"]
      /\ \A i \in 1 .. Size[ops["func"]] : data[F][i] = data["func"][i]
  BY <1>1 DEF CallbackInv, TickerInv
<1>4. ops' \in [Storage -> Kinds] /\ ops'[F] = ops["func"]
      /\ \A t \in Storage \ {F} : ops'[t] = ops[t]
  BY <1>1, <1>2 DEF TypeOK
<1>5. Called(F)' = Called("func")
  BY <1>1, <1>3, <1>4 DEF Called
<1>6. TypeOK'
  BY <1>1, <1>2, <1>4 DEF TypeOK
<1>7. ASSUME NEW t \in Storage \ {F} PROVE Owned(t)'
  BY <1>1, <1>4 DEF Owned, CallbackInv, Called
<1>8. TickerInv'
  BY <1>1, <1>2, <1>3, <1>5 DEF TickerInv
<1>. QED
  BY <1>1, <1>6, <1>7, <1>8 DEF CallbackInv, LifetimesRespected

LEMMA LeaveInv ==
  ASSUME CallbackInv, Leave
  PROVE  CallbackInv'
<1>1. /\ pc = "exited" /\ pc' = "idle" /\ object' = Without("func")
      /\ Misuse("attach_us", DtorMisuse("func")) /\ alive' = alive \ {"func"}
      /\ UNCHANGED <<data, ops, attached, masked>>
  BY DEF Leave
<1>2. /\ object["func"] = Called("func")
      /\ "func" \in Storage /\ F \in Storage /\ F # "func" /\ TypeOK
  BY <1>1, FuncContext
<1>3. /\ object' \in [Storage -> Functions \cup {Nothing}] /\ object'["func"] = Nothing
      /\ \A t \in Storage \ {"func"} : object'[t] = object[t]
  BY <1>1, <1>2, WithoutType
<1>4. LifetimesRespected'
  BY <1>1, <1>2, CallsNothing DEF DtorMisuse, CallbackInv, Misuse, LifetimesRespected
<1>5. TypeOK'
  BY <1>1, <1>2, <1>3, <1>4 DEF TypeOK, LifetimesRespected, Calls
<1>6. ASSUME NEW t \in Storage \ {F} PROVE Owned(t)'
  BY <1>1, <1>3 DEF Owned, CallbackInv, Called
<1>7. TickerInv'
  BY <1>1, <1>2, <1>3 DEF TickerInv, Called, CallbackInv
<1>. QED
  BY <1>1, <1>4, <1>5, <1>6, <1>7 DEF CallbackInv

LEMMA DetachInv ==
  ASSUME CallbackInv, Detach
  PROVE  CallbackInv'
<1>1. /\ ~masked /\ ops' = [ops EXCEPT ![F] = "null"] /\ object' = Without(F)
      /\ Misuse("detach", DtorMisuse(F)) /\ attached' = Nothing
      /\ UNCHANGED <<data, alive, masked, pc>>
  BY DEF Detach, F
<1>2. F \in Storage /\ F # "func" /\ TypeOK
  BY StorageType DEF CallbackInv, F
<1>3. pc \notin {"destroyed", "moved"} /\ Called(F) = object[F]
  BY <1>1 DEF CallbackInv, TickerInv
<1>4. /\ object' \in [Storage -> Functions \cup {Nothing}] /\ object'[F] = Nothing
      /\ \A t \in Storage \ {F} : object'[t] = object[t]
  BY <1>1, <1>2, <1>3, WithoutType
<1>5. ops' \in [Storage -> Kinds] /\ ops'[F] = "null"
      /\ \A t \in Storage \ {F} : ops'[t] = ops[t]
  BY <1>1, <1>2 DEF TypeOK, Kinds
<1>6. Called(F)' = Nothing
  BY <1>5, SizeType DEF Called, Nothing
<1>7. LifetimesRespected'
  BY <1>1, <1>3, CallsNothing DEF DtorMisuse, CallbackInv, Misuse, LifetimesRespected
<1>8. TypeOK'
  BY <1>1, <1>2, <1>4, <1>5, <1>7 DEF TypeOK, LifetimesRespected, Calls
<1>9. ASSUME NEW t \in Storage \ {F} PROVE Owned(t)'
  BY <1>1, <1>4, <1>5 DEF Owned, CallbackInv, Called
<1>10. TickerInv'
  BY <1>1, <1>3, <1>4, <1>6 DEF TickerInv
<1>. QED
  BY <1>1, <1>7, <1>8, <1>9, <1>10 DEF CallbackInv
-----------------------------------------------------------------------------
LEMMA CallbackInit == Init => CallbackInv
<1>. SUFFICES ASSUME Init PROVE CallbackInv
  OBVIOUS
<1>1. F \in Storage /\ "func" \in Storage /\ F # "func"
  BY StorageType DEF F
<1>2. TypeOK
  <2>1. data \in [Storage -> [1 .. 3 -> Int]]
    BY DEF Init, Zero
  <2>2. ops \in [Storage -> Kinds] /\ object \in [Storage -> Functions \cup {Nothing}]
    BY DEF Init, Kinds
  <2>3. alive \subseteq Storage /\ "func" \notin alive
    BY <1>1 DEF Init, F
  <2>. QED
    BY <2>1, <2>2, <2>3 DEF Init, TypeOK
<1>3. Called(F) = Nothing /\ object[F] = Nothing
  BY <1>1, CallsNothing DEF Init
<1>4. ASSUME NEW t \in Storage \ {F} PROVE Owned(t)
  BY DEF Init, Owned, F
<1>5. TickerInv
  BY <1>3 DEF Init, TickerInv
<1>. QED
  BY <1>2, <1>4, <1>5 DEF Init, CallbackInv, LifetimesRespected

LEMMA CallbackNext == CallbackInv /\ [Next]_vars => CallbackInv'
<1>. SUFFICES ASSUME CallbackInv, [Next]_vars PROVE CallbackInv'
  OBVIOUS
<1>1. CASE \E v \in Variables, f \in Functions \cup {Nothing} : Construct(v, f)
  BY <1>1, ConstructInv
<1>2. CASE \E v, s \in Variables : ConstructCopy(v, s)
  BY <1>2, ConstructCopyInv
<1>3. CASE \E v, s \in Variables : Assign(v, s) \/ Attach(v, s)
  BY <1>3, AssignInv, AttachInv
<1>4. CASE \E v \in Variables : Destroy(v)
  BY <1>4, DestroyInv
<1>5. CASE \E s \in Variables : Pass(s)
  BY <1>5, PassInv
<1>6. CASE Enter \/ AssignDtor \/ AssignMove \/ AssignOps \/ Exit \/ Leave \/ Detach
  BY <1>6, EnterInv, AssignDtorInv, AssignMoveInv, AssignOpsInv, ExitInv, LeaveInv, DetachInv
<1>7. CASE UNCHANGED vars
  BY <1>7 DEF CallbackInv, TypeOK, Owned, TickerInv, Called, LifetimesRespected, vars
<1>. QED
  BY <1>1, <1>2, <1>3, <1>4, <1>5, <1>6, <1>7 DEF Next, AttachUs

LEMMA CallbackInvHolds == Spec => []CallbackInv
BY CallbackInit, CallbackNext, PTL DEF Spec

\* The words, the operations, the objects and main's place in attach_us() keep
\* their types.
THEOREM TypeCorrect == Spec => []TypeOK
<1>1. CallbackInv => TypeOK
  BY DEF CallbackInv
<1>. QED
  BY <1>1, CallbackInvHolds, PTL

\* Whatever is stored in Callbacks and however they are copied, assigned and
\* attached: only attach() of a Callback to itself reads a dead object, or destroys
\* one twice or leaves one undestroyed.
THEOREM Lifetimes == Spec => []LifetimesRespected
<1>1. CallbackInv => LifetimesRespected
  BY DEF CallbackInv
<1>. QED
  BY <1>1, CallbackInvHolds, PTL

\* Between any two steps of attach_us() or detach() at which the handler can
\* run, the Ticker's storage holds the whole of the function last attached.
THEOREM HandlerWhole == Spec => []HandlerCallsWhole
<1>1. CallbackInv => HandlerCallsWhole
  BY DEF CallbackInv, HandlerCallsWhole, TickerInv, F
<1>. QED
  BY <1>1, CallbackInvHolds, PTL
-----------------------------------------------------------------------------
(***************************************************************************)
(* The refinement of Delegates.                                             *)
(***************************************************************************)
ValueOf == [s \in alive \ {F} |-> Called(s)]
TickerOf == Called(IF pc = "moved" THEN "func" ELSE F)

Abstract == <<ValueOf, TickerOf>>

\* Outside attach_us()'s move, what becomes of the Ticker is what becomes of
\* its storage.
LEMMA TickerKept ==
  ASSUME pc # "moved", pc' # "moved", Called(F)' = Called(F)
  PROVE  TickerOf' = TickerOf
BY DEF TickerOf

\* Two stages have the same values when the same Callbacks exist and call the
\* same.
LEMMA ValuesKept ==
  ASSUME alive' = alive, \A s \in alive \ {F} : Called(s)' = Called(s)
  PROVE  ValueOf' = ValueOf
BY DEF ValueOf

\* A Callback that comes to exist is a value made.
LEMMA Made ==
  ASSUME NEW v, v # F, v \notin alive, alive' = alive \cup {v},
         NEW f, Called(v)' = f, TickerOf' = TickerOf,
         \A s \in alive \ {F} : Called(s)' = Called(s)
  PROVE  Values!Make(v, f)
<1>1. DOMAIN ValueOf = alive \ {F} /\ alive' \ {F} = (alive \ {F}) \cup {v}
  BY DEF ValueOf
<1>2. ASSUME NEW m \in (alive \ {F}) \cup {v}
      PROVE  Called(m)' = IF m = v THEN f ELSE ValueOf[m]
  BY DEF ValueOf
<1>3. ValueOf' = [m \in (alive \ {F}) \cup {v} |-> IF m = v THEN f ELSE ValueOf[m]]
  BY <1>1, <1>2 DEF ValueOf
<1>. QED
  BY <1>1, <1>3 DEF Values!Make, Values!Callbacks, ValueOf, TickerOf, F

LEMMA Destroyed ==
  ASSUME NEW v, v # F, v \in alive, alive' = alive \ {v}, TickerOf' = TickerOf,
         \A s \in alive \ {F} : Called(s)' = Called(s)
  PROVE  Values!Destroy(v)
<1>1. DOMAIN ValueOf = alive \ {F} /\ alive' \ {F} = (alive \ {F}) \ {v}
  BY DEF ValueOf
<1>2. ValueOf' = [m \in (alive \ {F}) \ {v} |-> ValueOf[m]]
  BY <1>1 DEF ValueOf
<1>. QED
  BY <1>1, <1>2 DEF Values!Destroy, Values!Callbacks, ValueOf, TickerOf, F
-----------------------------------------------------------------------------
LEMMA ConstructMakes ==
  ASSUME CallbackInv, NEW v \in Variables, NEW f \in Functions \cup {Nothing},
         Construct(v, f)
  PROVE  Values!Make(v, f)
<1>1. v # F /\ v \in Storage /\ TypeOK
  BY ProgramContext DEF CallbackInv
<1>2. f.kind \in Kinds /\ DOMAIN f.words = 1 .. Size[f.kind]
      /\ f = [kind |-> f.kind, words |-> [i \in 1 .. Size[f.kind] |-> f.words[i]]]
  BY FunctionType
<1>3. data'[v] = Over(f.words, Zero) /\ ops'[v] = f.kind
  BY <1>1 DEF Construct, TypeOK
<1>4. \A i \in 1 .. Size[f.kind] : Over(f.words, Zero)[i] = f.words[i]
  BY <1>2, SizeType DEF Over
<1>5. Called(v)' = f
  BY <1>2, <1>3, <1>4 DEF Called
<1>6. \A t \in Storage \ {v} : Called(t)' = Called(t)
  BY <1>1 DEF Construct, Called, TypeOK
<1>7. /\ v \notin alive /\ alive' = alive \cup {v} /\ alive \subseteq Storage
      /\ pc = "idle" /\ pc' = "idle"
  BY <1>1 DEF Construct, ticker, TypeOK
<1>8. TickerOf' = TickerOf
  BY <1>1, <1>6, <1>7, StorageType, TickerKept
<1>. QED
  BY <1>1, <1>5, <1>6, <1>7, <1>8, Made

\* What a copy calls, made in d while objects live.
LEMMA CopyMakes ==
  ASSUME CallbackInv, NEW d \in Storage, NEW s \in Storage, d # F, s # F, d # s,
         s \in alive, d \notin alive, alive' = alive \cup {d},
         NEW old \in [1 .. 3 -> Int], CopyInto(d, s, object, old),
         pc # "moved", pc' # "moved"
  PROVE  Values!Copy(d, s)
<1>1. TypeOK /\ object \in [Storage -> Functions \cup {Nothing}] /\ alive \subseteq Storage
  BY DEF CallbackInv, TypeOK
<1>2. Called(d)' = Called(s) /\ \A t \in Storage \ {d} : Called(t)' = Called(t)
  BY <1>1, CalledType, CopyCalls
<1>3. TickerOf' = TickerOf
  BY <1>2, StorageType, TickerKept
<1>4. Values!Make(d, Called(s))
  BY <1>1, <1>2, <1>3, Made
<1>5. s \in DOMAIN ValueOf /\ ValueOf[s] = Called(s)
  BY DEF ValueOf
<1>. QED
  BY <1>4, <1>5 DEF Values!Copy, Values!Callbacks, ValueOf, F

LEMMA ConstructCopyCopies ==
  ASSUME CallbackInv, NEW v \in Variables, NEW s \in Variables, ConstructCopy(v, s)
  PROVE  Values!Copy(v, s)
<1>1. v # F /\ v \in Storage /\ s # F /\ s \in Storage
  BY ProgramContext
<1>2. PICK old \in [1 .. 3 -> Int] : CopyInto(v, s, object, old)
  BY JunkWords DEF ConstructCopy
<1>3. s \in alive /\ v \notin alive /\ alive' = alive \cup {v} /\ pc = "idle" /\ pc' = "idle"
  BY DEF ConstructCopy, ticker
<1>. QED
  BY <1>1, <1>2, <1>3, CopyMakes

LEMMA PassCopies ==
  ASSUME CallbackInv, NEW s \in Variables, Pass(s)
  PROVE  Values!Copy("func", s)
<1>1. s # F /\ s # "func" /\ s \in Storage /\ "func" \in Storage /\ "func" # F
  BY ProgramContext, StorageType DEF F
<1>2. PICK old \in [1 .. 3 -> Int] : CopyInto("func", s, object, old)
  BY JunkWords DEF Pass
<1>3. /\ s \in alive /\ "func" \notin alive /\ alive' = alive \cup {"func"}
      /\ pc = "idle" /\ pc' = "passed"
  BY DEF Pass, CallbackInv, TypeOK
<1>. QED
  BY <1>1, <1>2, <1>3, CopyMakes

\* Destroying a Callback and copying into it assigns, and nothing else: also when
\* it is copied into itself.
LEMMA Replaced ==
  ASSUME CallbackInv, NEW d \in Variables, NEW s \in Variables, d \in alive, s \in alive,
         pc = "idle", UNCHANGED <<alive, ticker>>,
         (d = s /\ UNCHANGED <<data, ops>>) \/ CopyInto(d, s, Without(d), data[d])
  PROVE  Values!Assign(d, s)
<1>1. d # F /\ d \in Storage /\ Owned(d) /\ s # F /\ s \in Storage
  BY ProgramContext
<1>2. TypeOK /\ alive \subseteq Storage /\ pc' = "idle"
  BY DEF CallbackInv, ticker, TypeOK
<1>3. Called(d)' = Called(s) /\ \A t \in Storage \ {d} : Called(t)' = Called(t)
  <2>1. CASE d = s /\ UNCHANGED <<data, ops>>
    BY <2>1 DEF Called
  <2>2. CASE CopyInto(d, s, Without(d), data[d])
    <3>1. data[d] \in [1 .. 3 -> Int] /\ Called(s) \in Functions \cup {Nothing}
      BY <1>1, <1>2, CalledType DEF TypeOK
    <3>2. Without(d) \in [Storage -> Functions \cup {Nothing}]
      BY <1>1, <1>2, WithoutType
    <3>. QED
      BY <1>1, <1>2, <2>2, <3>1, <3>2, CopyCalls
  <2>. QED
    BY <2>1, <2>2
<1>4. TickerOf' = TickerOf
  BY <1>1, <1>2, <1>3, StorageType, TickerKept
<1>5. ValueOf' = [ValueOf EXCEPT ![d] = ValueOf[s]]
  BY <1>1, <1>2, <1>3 DEF ValueOf
<1>6. {d, s} \subseteq DOMAIN ValueOf
  BY <1>1, <1>2 DEF ValueOf
<1>. QED
  BY <1>4, <1>5, <1>6 DEF Values!Assign, Values!Callbacks, ValueOf, TickerOf, F

LEMMA AssignAssigns ==
  ASSUME CallbackInv, NEW d \in Variables, NEW s \in Variables, Assign(d, s) \/ Attach(d, s)
  PROVE  Values!Assign(d, s)
<1>1. /\ d \in alive /\ s \in alive /\ pc = "idle" /\ UNCHANGED <<alive, ticker>>
      /\ (d = s /\ UNCHANGED <<data, ops>>) \/ CopyInto(d, s, Without(d), data[d])
  BY DEF Assign, Attach, AssignUnless
<1>. QED
  BY <1>1, Replaced

LEMMA DestroyDestroys ==
  ASSUME CallbackInv, NEW v \in Variables, Destroy(v)
  PROVE  Values!Destroy(v)
<1>1. v # F /\ v \in alive /\ alive' = alive \ {v} /\ pc = "idle" /\ pc' = "idle"
  BY ProgramContext DEF Destroy, ticker
<1>2. ASSUME NEW t PROVE Called(t)' = Called(t)
  BY DEF Destroy, Called
<1>3. TickerOf' = TickerOf
  BY <1>1, <1>2, TickerKept
<1>. QED
  BY <1>1, <1>2, <1>3, Destroyed

LEMMA LeaveDestroys ==
  ASSUME CallbackInv, Leave
  PROVE  Values!Destroy("func")
<1>1. /\ "func" # F /\ "func" \in alive /\ alive' = alive \ {"func"}
      /\ pc = "exited" /\ pc' = "idle"
  BY DEF Leave, CallbackInv, TypeOK, F
<1>2. ASSUME NEW t PROVE Called(t)' = Called(t)
  BY DEF Leave, Called
<1>3. TickerOf' = TickerOf
  BY <1>1, <1>2, TickerKept
<1>. QED
  BY <1>1, <1>2, <1>3, Destroyed

LEMMA DetachDetaches ==
  ASSUME CallbackInv, Detach
  PROVE  Values!Detach
<1>1. /\ ~masked /\ ops' = [ops EXCEPT ![F] = "null"]
      /\ UNCHANGED <<data, alive, masked, pc>>
  BY DEF Detach, F
<1>2. TypeOK /\ F \in Storage /\ pc # "moved" /\ alive \subseteq Storage
  BY <1>1, StorageType DEF CallbackInv, TypeOK
<1>3. ops'[F] = "null" /\ \A t \in Storage \ {F} : ops'[t] = ops[t]
  BY <1>1, <1>2 DEF TypeOK
<1>4. Called(F)' = Nothing
  BY <1>3, SizeType DEF Called, Nothing
<1>5. \A t \in Storage \ {F} : Called(t)' = Called(t)
  BY <1>1, <1>3 DEF Called
<1>6. ValueOf' = ValueOf
  BY <1>1, <1>2, <1>5, ValuesKept
<1>7. TickerOf' = Nothing
  BY <1>1, <1>2, <1>4 DEF TickerOf
<1>. QED
  BY <1>6, <1>7 DEF Values!Detach, ValueOf, TickerOf, F

\* The move is the moment at which attach_us() takes effect.
LEMMA MoveAttaches ==
  ASSUME CallbackInv, AssignMove
  PROVE  Values!Attach("func")
<1>1. /\ pc = "destroyed" /\ pc' = "moved" /\ ops' = ops /\ alive' = alive
      /\ data' = [data EXCEPT ![F] = Over(Called("func").words, @)]
  BY DEF AssignMove, F
<1>2. "func" \in Storage /\ "func" # F /\ TypeOK /\ "func" \in alive /\ alive \subseteq Storage
  BY <1>1, FuncContext DEF TypeOK
<1>3. \A t \in Storage \ {F} : Called(t)' = Called(t)
  BY <1>1, <1>2 DEF Called, TypeOK
<1>4. ValueOf' = ValueOf
  BY <1>1, <1>2, <1>3, ValuesKept
<1>5. TickerOf' = Called("func")
  BY <1>1, <1>2, <1>3 DEF TickerOf
<1>6. "func" \in DOMAIN ValueOf /\ ValueOf["func"] = Called("func")
  BY <1>2 DEF ValueOf
<1>. QED
  BY <1>4, <1>5, <1>6 DEF Values!Attach, Values!Callbacks, ValueOf, TickerOf, F

\* From then on the words are the parameter's: the assignment of _ops makes the
\* storage call what the Ticker already has.
LEMMA OpsStutters ==
  ASSUME CallbackInv, AssignOps
  PROVE  UNCHANGED Abstract
<1>1. /\ pc = "moved" /\ pc' = "assigned" /\ data' = data /\ alive' = alive
      /\ ops' = [ops EXCEPT ![F] = ops["func"]]
  BY DEF AssignOps, F
<1>2. "func" \in Storage /\ F \in Storage /\ "func" # F /\ TypeOK /\ alive \subseteq Storage
  BY <1>1, FuncContext DEF TypeOK
<1>3. ops'[F] = ops["func"] /\ \A t \in Storage \ {F} : ops'[t] = ops[t]
  BY <1>1, <1>2 DEF TypeOK
<1>4. \A i \in 1 .. Size[ops["func"]] : data[F][i] = data["func"][i]
  BY <1>1 DEF CallbackInv, TickerInv
<1>5. Called(F)' = Called("func")
  BY <1>1, <1>3, <1>4 DEF Called
<1>6. \A t \in Storage \ {F} : Called(t)' = Called(t)
  BY <1>1, <1>3 DEF Called
<1>7. ValueOf' = ValueOf
  BY <1>1, <1>2, <1>6, ValuesKept
<1>8. TickerOf' = TickerOf
  BY <1>1, <1>5 DEF TickerOf
<1>. QED
  BY <1>7, <1>8 DEF Abstract

\* The destructor leaves the words and _ops, and the masking no trace.
LEMMA OthersStutter ==
  ASSUME Enter \/ AssignDtor \/ Exit
  PROVE  UNCHANGED Abstract
<1>1. data' = data /\ ops' = ops /\ alive' = alive /\ pc # "moved" /\ pc' # "moved"
  BY DEF Enter, EnterWith, AssignDtor, Exit, ExitTo
<1>2. ASSUME NEW t PROVE Called(t)' = Called(t)
  BY <1>1 DEF Called
<1>. QED
  BY <1>1, <1>2, ValuesKept, TickerKept DEF Abstract

LEMMA ValuesInit == Init => Values!Init
<1>. SUFFICES ASSUME Init PROVE Values!Init
  OBVIOUS
<1>1. ValueOf = [n \in {} |-> Nothing]
  BY DEF Init, ValueOf, F
<1>2. TickerOf = Nothing
  BY CallsNothing, StorageType DEF Init, TickerOf
<1>. QED
  BY <1>1, <1>2 DEF Values!Init, ValueOf, TickerOf, F

LEMMA ValuesNext == CallbackInv /\ [Next]_vars => Values!Next \/ UNCHANGED Abstract
<1>. SUFFICES ASSUME CallbackInv, [Next]_vars PROVE Values!Next \/ UNCHANGED Abstract
  OBVIOUS
<1>1. CASE \E v \in Variables, f \in Functions \cup {Nothing} : Construct(v, f)
  BY <1>1, ConstructMakes DEF Values!Next
<1>2. CASE \E v, s \in Variables : ConstructCopy(v, s)
  BY <1>2, ConstructCopyCopies DEF Values!Next
<1>3. CASE \E v, s \in Variables : Assign(v, s) \/ Attach(v, s)
  BY <1>3, AssignAssigns DEF Values!Next
<1>4. CASE \E v \in Variables : Destroy(v)
  BY <1>4, DestroyDestroys DEF Values!Next
<1>5. CASE \E s \in Variables : Pass(s)
  BY <1>5, PassCopies DEF Values!Next
<1>6. CASE Leave
  BY <1>6, LeaveDestroys DEF Values!Next
<1>7. CASE AssignMove
  BY <1>7, MoveAttaches DEF Values!Next
<1>8. CASE Detach
  BY <1>8, DetachDetaches DEF Values!Next
<1>9. CASE AssignOps \/ Enter \/ AssignDtor \/ Exit
  BY <1>9, OpsStutters, OthersStutter
<1>10. CASE UNCHANGED vars
  BY <1>10 DEF Abstract, ValueOf, TickerOf, Called, vars
<1>. QED
  BY <1>1, <1>2, <1>3, <1>4, <1>5, <1>6, <1>7, <1>8, <1>9, <1>10 DEF Next, AttachUs

\* However Callbacks are copied, assigned, destroyed and attached, each calls
\* what it was given, as if it were the function itself, and the Ticker changes
\* what it calls in one step: the code implements Delegates.
THEOREM CallbacksAreValues == Spec => ActsAsValues
<1>1. Init => Values!Init
  BY ValuesInit
<1>2. CallbackInv /\ [Next]_vars
        => [Values!Next]_<<[s \in alive \ {"_function"} |-> Called(s)],
                           Called(IF pc = "moved" THEN "func" ELSE "_function")>>
  BY ValuesNext DEF Abstract, ValueOf, TickerOf, F
<1>. QED
  BY <1>1, <1>2, CallbackInvHolds, PTL DEF Spec, ActsAsValues, Values!Spec
=============================================================================
