------------------------ MODULE CircularBufferProofs ------------------------
(***************************************************************************)
(* Proofs about CircularBuffer, for every number of priorities, every      *)
(* BufferSize and every counter type wide enough for it.                   *)
(***************************************************************************)
EXTENDS CircularBuffer, SequenceTheorems, TLAPS

LEMMA ModSmall == \A a \in Nat, b \in Nat \ {0} : a < b => a % b = a
  OBVIOUS

LEMMA ModSelf == \A b \in Nat \ {0} : b % b = 0
  OBVIOUS

\* Incrementing an index inside the pool does not wrap the counter: this is
\* what the static assertion on CounterType is for.
LEMMA Increment ==
  ASSUME NEW i \in 0 .. BufferSize, i < BufferSize
  PROVE  (i + 1) % CounterRange = i + 1
  BY ModSmall, BufferAssumption

\* Reducing a counter brings it into the pool.
LEMMA Reduce ==
  ASSUME NEW i \in 0 .. BufferSize
  PROVE  i % BufferSize = IF i = BufferSize THEN 0 ELSE i
  BY ModSmall, ModSelf, BufferAssumption

-----------------------------------------------------------------------------
(***************************************************************************)
(* Critical sections.                                                      *)
(***************************************************************************)

\* When a context may execute a statement, no other is inside a section.
LEMMA Alone ==
  ASSUME SectionInv, NEW c \in Contexts, ~Preempted(c), pc[c] # "idle" \/ nest = 0,
         NEW d \in Contexts \ {c}
  PROVE  Depth(pc[d]) = 0
  <1> SUFFICES ASSUME Depth(pc[d]) # 0 PROVE FALSE
    OBVIOUS
  <1>1. nest = Depth(pc[d]) /\ nest # 0 /\ ~Preempted(d) /\ pc[d] # "idle"
    BY DEF SectionInv, Depth
  <1>2. c \in Nat /\ d \in Nat /\ c # d
    BY BufferAssumption DEF Contexts
  <1> QED
    BY <1>1, <1>2 DEF Preempted

\* A statement that moves its context from one label to another and nest by
\* the difference of their depths keeps SectionInv.
LEMMA SectionStep ==
  ASSUME TypeOK, SectionInv, NEW c \in Contexts, NEW l, ~Preempted(c),
         pc[c] # "idle" \/ nest = 0,
         pc' = [pc EXCEPT ![c] = l],
         nest' = nest - Depth(pc[c]) + Depth(l)
  PROVE  SectionInv' /\ nest' \in 0 .. 2
  <1>1. \A d \in Contexts \ {c} : Depth(pc[d]) = 0 /\ pc'[d] = pc[d]
    BY Alone DEF TypeOK
  <1>2. pc'[c] = l
    BY DEF TypeOK
  <1>3. Depth(l) \in 0 .. 2 /\ Depth(pc[c]) \in 0 .. 2 /\ nest \in 0 .. 2
    BY DEF Depth, TypeOK
  <1>4. nest = Depth(pc[c])
    BY <1>1, <1>3 DEF SectionInv
  <1>5. nest' = Depth(l)
    BY <1>3, <1>4
  <1>6. ~Preempted(c)'
    <2>1. \A d \in Contexts : d > c => d \in Contexts \ {c}
      BY BufferAssumption DEF Contexts
    <2> QED
      BY <1>1, <2>1 DEF Preempted
  <1>7. ASSUME NEW d \in Contexts, Depth(pc'[d]) > 0
        PROVE  nest' = Depth(pc'[d]) /\ ~Preempted(d)'
    <2>1. d = c
      BY <1>1, <1>7
    <2> QED
      BY <1>2, <1>5, <1>6, <2>1
  <1>8. nest' > 0 => \E d \in Contexts : Depth(pc'[d]) > 0
    BY <1>2, <1>5
  <1> QED
    BY <1>3, <1>5, <1>7, <1>8 DEF SectionInv

\* The operation a context is in, from the label it is at.
LEMMA LabelTells ==
  ASSUME TypeOK, NEW c \in Contexts, pc[c] # "idle"
  PROVE  /\ call[c] \in Calls /\ Op(c) \in Operations
         /\ pc[c] \in {"drop", "drop_mod", "store", "store_mod", "mark"} =>
              Op(c) = "push" /\ call[c][2] \in Data
         /\ pc[c] \in {"take", "take_mod"} => Op(c) = "pop"
         /\ pc[c] = "clear" => Op(c) \in {"pop", "reset"}
         /\ pc[c] \in {"test", "tested", "test_exit"} => Op(c) \in {"push", "pop"}
         /\ pc[c] = "read" => Op(c) \in {"empty", "full", "size"}
         /\ pc[c] \in {"zero_head", "zero_tail"} => Op(c) = "reset"
  <1>1. call[c] \in Calls /\ pc[c] \in LabelsOf(Op(c))
    BY DEF TypeOK
  <1>2. Op(c) \in Operations /\ (Op(c) = "push" => call[c][2] \in Data)
    BY <1>1 DEF Op, Calls, Operations
  <1> QED
    BY <1>1, <1>2 DEF LabelsOf, Operations

\* A statement inside an operation keeps to the labels of the operation.
LEMMA LabelStep ==
  ASSUME TypeOK, NEW c \in Contexts, NEW l, pc[c] # "idle", l # "idle",
         pc' = [pc EXCEPT ![c] = l], call' = call, l \in LabelsOf(Op(c))
  PROVE  /\ DOMAIN pc' = Contexts
         /\ \A d \in Contexts :
              IF pc'[d] = "idle" THEN call'[d] = NoCall
              ELSE call'[d] \in Calls /\ pc'[d] \in LabelsOf(call'[d][1])
  BY DEF TypeOK, Op

-----------------------------------------------------------------------------
(***************************************************************************)
(* QueueInv, seen from the one context that may be inside a section.       *)
(***************************************************************************)
QueueAt(l, h, t, f) ==
  /\ h < BufferSize \/ l = "store_mod"
  /\ t < BufferSize \/ l \in {"drop_mod", "take_mod"}
  /\ f /\ h # t => l \in {"drop_mod", "store", "store_mod", "take_mod",
                          "clear", "zero_tail"}
  /\ f => /\ l = "drop_mod" => t = h + 1
          /\ l = "store" => t = Next1(h)
          /\ l = "store_mod" => h = t \/ (h = BufferSize /\ t = 0)

LEMMA SomeHere ==
  ASSUME NEW p, NEW c \in Contexts, NEW L,
         \A d \in Contexts \ {c} : Depth(p[d]) = 0,
         \A l \in L : Depth(l) # 0
  PROVE  (\E d \in Contexts : p[d] \in L) <=> p[c] \in L
  OBVIOUS

LEMMA QueueBefore ==
  ASSUME NEW c \in Contexts, \A d \in Contexts \ {c} : Depth(pc[d]) = 0
  PROVE  QueueInv <=> QueueAt(pc[c], head, tail, full)
  <1>1. \A L : (\A l \in L : Depth(l) # 0) => (Some(L) <=> pc[c] \in L)
    BY SomeHere DEF Some
  <1>2. /\ Some({"store_mod"}) <=> pc[c] \in {"store_mod"}
        /\ Some({"drop_mod", "take_mod"}) <=> pc[c] \in {"drop_mod", "take_mod"}
        /\ Some({"drop_mod"}) <=> pc[c] \in {"drop_mod"}
        /\ Some({"store"}) <=> pc[c] \in {"store"}
        /\ Some({"drop_mod", "store", "store_mod", "take_mod", "clear", "zero_tail"})
             <=> pc[c] \in {"drop_mod", "store", "store_mod", "take_mod", "clear",
                            "zero_tail"}
    BY <1>1 DEF Depth
  <1> QED
    BY <1>2 DEF QueueInv, QueueAt

LEMMA QueueAfter ==
  ASSUME NEW c \in Contexts, \A d \in Contexts \ {c} : Depth(pc'[d]) = 0
  PROVE  QueueInv' <=> QueueAt(pc'[c], head', tail', full')
  <1>1. \A L : (\A l \in L : Depth(l) # 0) => (Some(L)' <=> pc'[c] \in L)
    BY SomeHere DEF Some
  <1>2. /\ Some({"store_mod"})' <=> pc'[c] \in {"store_mod"}
        /\ Some({"drop_mod", "take_mod"})' <=> pc'[c] \in {"drop_mod", "take_mod"}
        /\ Some({"drop_mod"})' <=> pc'[c] \in {"drop_mod"}
        /\ Some({"store"})' <=> pc'[c] \in {"store"}
        /\ Some({"drop_mod", "store", "store_mod", "take_mod", "clear", "zero_tail"})'
             <=> pc'[c] \in {"drop_mod", "store", "store_mod", "take_mod", "clear",
                             "zero_tail"}
    BY <1>1 DEF Depth
  <1> QED
    BY <1>2 DEF QueueInv, QueueAt

-----------------------------------------------------------------------------
BufferInv == TypeOK /\ SectionInv /\ QueueInv /\ TestInv

Pools == [0 .. BufferSize - 1 -> Data \cup {Nothing}]

\* The frame of every statement: its context moves to the label l of its own
\* operation, and the members it leaves satisfy QueueAt there.
LEMMA Statement ==
  ASSUME BufferInv, NEW c \in Contexts, NEW l, ~Preempted(c),
         pc[c] # "idle", l # "idle", l \in LabelsOf(Op(c)),
         Goto(c, l), call' = call, test' \in [Contexts -> BOOLEAN],
         nest' = nest - Depth(pc[c]) + Depth(l),
         head' \in 0 .. BufferSize, tail' \in 0 .. BufferSize, full' \in BOOLEAN,
         pool' \in Pools,
         QueueAt(pc[c], head, tail, full) => QueueAt(l, head', tail', full'),
         l = "test_exit" =>
           test'[c] = IF Op(c) = "push" THEN full' ELSE IsEmpty'
  PROVE  BufferInv'
  <1>1. pc' = [pc EXCEPT ![c] = l]
    BY DEF Goto
  <1>2. SectionInv' /\ nest' \in 0 .. 2
    BY <1>1, SectionStep DEF BufferInv
  <1>3. TypeOK'
    BY <1>1, <1>2, LabelStep DEF BufferInv, TypeOK, Pools, Op
  <1>4. QueueInv'
    <2>1. \A d \in Contexts \ {c} : Depth(pc[d]) = 0
      BY Alone DEF BufferInv
    <2>2. pc'[c] = l /\ \A d \in Contexts \ {c} : Depth(pc'[d]) = 0
      BY <1>1, <2>1 DEF BufferInv, TypeOK
    <2>3. QueueAt(pc[c], head, tail, full)
      BY <2>1, QueueBefore DEF BufferInv
    <2> QED
      BY <2>2, <2>3, QueueAfter
  <1>5. TestInv'
    <2>1. \A d \in Contexts \ {c} : Depth(pc[d]) = 0 /\ pc'[d] = pc[d]
      BY <1>1, Alone DEF BufferInv, TypeOK
    <2>2. pc'[c] = l
      BY <1>1 DEF BufferInv, TypeOK
    <2> QED
      BY <2>1, <2>2 DEF TestInv, Depth, Op
  <1> QED
    BY <1>2, <1>3, <1>4, <1>5 DEF BufferInv

LEMMA CallStep ==
  ASSUME BufferInv, NEW c \in Contexts, NEW k \in Calls, Call(c, k)
  PROVE  BufferInv'
  <1>1. /\ pc[c] = "idle" /\ ~Preempted(c) /\ nest = 0 /\ nest' = 0
        /\ pc' = [pc EXCEPT ![c] = "enter"] /\ call' = [call EXCEPT ![c] = k]
        /\ UNCHANGED <<members, test>>
    BY DEF Call, At, Goto
  <1>2. nest' = nest - Depth(pc[c]) + Depth("enter")
    BY <1>1 DEF Depth
  <1>3. SectionInv' /\ nest' \in 0 .. 2
    BY <1>1, <1>2, SectionStep DEF BufferInv
  <1>4. TypeOK'
    BY <1>1, <1>3 DEF BufferInv, TypeOK, members, Op, LabelsOf
  <1>5. QueueInv'
    <2>1. \A d \in Contexts \ {c} : Depth(pc[d]) = 0
      BY <1>1, Alone DEF BufferInv
    <2>2. pc'[c] = "enter" /\ \A d \in Contexts \ {c} : Depth(pc'[d]) = 0
      BY <1>1, <2>1 DEF BufferInv, TypeOK
    <2>3. QueueAt("idle", head, tail, full)
      BY <1>1, <2>1, QueueBefore DEF BufferInv
    <2>4. QueueAt("enter", head', tail', full')
      BY <1>1, <2>3 DEF QueueAt, members
    <2> QED
      BY <2>2, <2>4, QueueAfter
  <1>6. TestInv'
    <2>1. \A d \in Contexts \ {c} : Depth(pc[d]) = 0 /\ pc'[d] = pc[d]
      BY <1>1, Alone DEF BufferInv, TypeOK
    <2>2. pc'[c] = "enter"
      BY <1>1 DEF BufferInv, TypeOK
    <2> QED
      BY <2>1, <2>2 DEF TestInv, Depth
  <1> QED
    BY <1>3, <1>4, <1>5, <1>6 DEF BufferInv

-----------------------------------------------------------------------------
(***************************************************************************)
(* The statements, one by one.                                             *)
(***************************************************************************)
LEMMA EnterStep ==
  ASSUME BufferInv, NEW c \in Contexts, Enter(c)
  PROVE  BufferInv'
  <1> DEFINE l == CASE Op(c) \in {"push", "pop"}           -> "test"
                    [] Op(c) \in {"empty", "full", "size"} -> "read"
                    [] Op(c) = "reset"                     -> "zero_head"
  <1>1. /\ pc[c] = "enter" /\ ~Preempted(c) /\ nest' = nest + 1 /\ Goto(c, l)
        /\ UNCHANGED <<members, call, test>>
    BY DEF Enter, EnterWith, At
  <1>2. Op(c) \in Operations
    BY <1>1, LabelTells DEF BufferInv
  <1>3. l \in LabelsOf(Op(c)) /\ l \in {"test", "read", "zero_head"}
    BY <1>2 DEF LabelsOf, Operations
  <1> HIDE DEF l
  <1>4. nest' = nest - Depth(pc[c]) + Depth(l)
    BY <1>1, <1>3 DEF Depth, BufferInv, TypeOK
  <1>5. QueueAt(pc[c], head, tail, full) => QueueAt(l, head', tail', full')
    BY <1>1, <1>3 DEF QueueAt, members
  <1> QED
    BY <1>1, <1>3, <1>4, <1>5, Statement DEF BufferInv, TypeOK, members, Pools

LEMMA TestSteps ==
  ASSUME BufferInv, NEW c \in Contexts, TestEnter(c) \/ Test(c)
  PROVE  BufferInv'
  <1>1. CASE TestEnter(c)
    <2>1. /\ pc[c] = "test" /\ ~Preempted(c) /\ nest' = nest + 1
          /\ Goto(c, "tested") /\ UNCHANGED <<members, call, test>>
      BY <1>1 DEF TestEnter, At
    <2>2. "tested" \in LabelsOf(Op(c))
      BY <2>1, LabelTells DEF LabelsOf, BufferInv
    <2>3. nest' = nest - Depth(pc[c]) + Depth("tested")
      BY <2>1 DEF Depth, BufferInv, TypeOK
    <2>4. QueueAt(pc[c], head, tail, full) => QueueAt("tested", head', tail', full')
      BY <2>1 DEF QueueAt, members
    <2> QED
      BY <2>1, <2>2, <2>3, <2>4, Statement DEF BufferInv, TypeOK, members, Pools
  <1>2. CASE Test(c)
    <2>1. /\ pc[c] = "tested" /\ ~Preempted(c) /\ nest' = nest
          /\ Goto(c, "test_exit") /\ UNCHANGED <<members, call>>
      BY <1>2 DEF Test, At
    <2>2. test' \in [Contexts -> BOOLEAN]
          /\ test'[c] = IF Op(c) = "push" THEN full' ELSE IsEmpty'
      BY <1>2 DEF Test, BufferInv, TypeOK, IsEmpty, members
    <2>3. "test_exit" \in LabelsOf(Op(c))
      BY <2>1, LabelTells DEF LabelsOf, BufferInv
    <2>4. nest' = nest - Depth(pc[c]) + Depth("test_exit")
      BY <2>1 DEF Depth, BufferInv, TypeOK
    <2>5. QueueAt(pc[c], head, tail, full)
            => QueueAt("test_exit", head', tail', full')
      BY <2>1 DEF QueueAt, members
    <2> QED
      BY <2>1, <2>2, <2>3, <2>4, <2>5, Statement
      DEF BufferInv, TypeOK, members, Pools
  <1> QED
    BY <1>1, <1>2

LEMMA TestExitStep ==
  ASSUME BufferInv, NEW c \in Contexts, TestExit(c)
  PROVE  BufferInv'
  <1> DEFINE l == CASE Op(c) = "push" /\ test[c]  -> "drop"
                    [] Op(c) = "push" /\ ~test[c] -> "store"
                    [] Op(c) = "pop" /\ test[c]   -> "exit"
                    [] Op(c) = "pop" /\ ~test[c]  -> "take"
  <1>0. l = "store" /\ Op(c) \in {"push", "pop"} /\ test[c] \in BOOLEAN =>
          Op(c) = "push" /\ ~test[c]
    OBVIOUS
  <1>1. /\ pc[c] = "test_exit" /\ ~Preempted(c) /\ nest' = nest - 1 /\ Goto(c, l)
        /\ UNCHANGED <<members, call, test>>
    BY DEF TestExit, TestExitWith, At
  <1>2. Op(c) \in {"push", "pop"} /\ test[c] \in BOOLEAN
    BY <1>1, LabelTells DEF BufferInv, TypeOK
  <1>3. l \in LabelsOf(Op(c)) /\ l \in {"drop", "store", "exit", "take"}
    BY <1>2 DEF LabelsOf
  <1> HIDE DEF l
  <1>4. nest' = nest - Depth(pc[c]) + Depth(l)
    BY <1>1, <1>3 DEF Depth, BufferInv, TypeOK
  <1>5. QueueAt(pc[c], head, tail, full) => QueueAt(l, head', tail', full')
    <2>1. l = "store" => ~full
      BY <1>0, <1>1, <1>2 DEF BufferInv, TestInv
    <2> QED
      BY <1>1, <1>3, <2>1 DEF QueueAt, members
  <1> QED
    BY <1>1, <1>3, <1>4, <1>5, Statement DEF BufferInv, TypeOK, members, Pools

LEMMA PushSteps ==
  ASSUME BufferInv, NEW c \in Contexts,
         Drop(c) \/ DropMod(c) \/ Store(c) \/ StoreMod(c) \/ Mark(c)
  PROVE  BufferInv'
  <1>0. pc[c] # "idle" /\ ~Preempted(c) =>
          QueueAt(pc[c], head, tail, full)
    <2> SUFFICES ASSUME pc[c] # "idle" /\ ~Preempted(c)
                 PROVE  QueueAt(pc[c], head, tail, full)
      OBVIOUS
    <2>1. \A d \in Contexts \ {c} : Depth(pc[d]) = 0
      BY Alone DEF BufferInv
    <2> QED
      BY <2>1, QueueBefore DEF BufferInv
  <1>1. CASE Drop(c)
    <2>1. /\ pc[c] = "drop" /\ ~Preempted(c) /\ nest' = nest
          /\ Goto(c, "drop_mod") /\ call' = call /\ test' = test
      BY <1>1 DEF Drop, At
    <2>2. "drop_mod" \in LabelsOf(Op(c))
      BY <2>1, LabelTells DEF LabelsOf, BufferInv
    <2>3. QueueAt("drop", head, tail, full)
      BY <1>0, <2>1
    <2>4. /\ head' \in 0 .. BufferSize /\ tail' \in 0 .. BufferSize
          /\ full' \in BOOLEAN /\ pool' \in Pools
          /\ tail < BufferSize /\ tail' = tail + 1 /\ UNCHANGED <<head, full, pool>>
      <3>1. tail \in 0 .. BufferSize /\ tail < BufferSize
        BY <2>3 DEF QueueAt, BufferInv, TypeOK
      <3>2. ((tail + 1) % CounterRange) = tail + 1
        BY <3>1, Increment
      <3>3. tail' = tail + 1 /\ UNCHANGED <<head, full, pool>>
        BY <1>1, <3>2 DEF Drop
      <3>4. tail' \in 0 .. BufferSize
        BY <3>1, <3>3, BufferAssumption
      <3> QED
        BY <3>1, <3>3, <3>4 DEF BufferInv, TypeOK, Pools
    <2>5. QueueAt("drop_mod", head', tail', full')
      BY <2>3, <2>4 DEF QueueAt, Next1, BufferInv, TypeOK
    <2>6. nest' = nest - Depth(pc[c]) + Depth("drop_mod")
      BY <2>1 DEF Depth, BufferInv, TypeOK
    <2> QED
      BY <2>1, <2>2, <2>4, <2>5, <2>6, Statement DEF BufferInv, TypeOK
  <1>2. CASE DropMod(c)
    <2>1. /\ pc[c] = "drop_mod" /\ ~Preempted(c) /\ nest' = nest
          /\ Goto(c, "store") /\ call' = call /\ test' = test
      BY <1>2 DEF DropMod, At
    <2>2. "store" \in LabelsOf(Op(c))
      BY <2>1, LabelTells DEF LabelsOf, BufferInv
    <2>3. QueueAt("drop_mod", head, tail, full)
      BY <1>0, <2>1
    <2>4. /\ head' \in 0 .. BufferSize /\ tail' \in 0 .. BufferSize
          /\ full' \in BOOLEAN /\ pool' \in Pools
          /\ tail' = (IF tail = BufferSize THEN 0 ELSE tail)
          /\ UNCHANGED <<head, full, pool>>
      <3>1. tail \in 0 .. BufferSize
        BY DEF BufferInv, TypeOK
      <3>2. tail % BufferSize = IF tail = BufferSize THEN 0 ELSE tail
        BY <3>1, Reduce
      <3>3. tail' = tail % BufferSize /\ UNCHANGED <<head, full, pool>>
        BY <1>2 DEF DropMod
      <3>4. tail' = (IF tail = BufferSize THEN 0 ELSE tail)
        BY <3>2, <3>3
      <3>5. tail' \in 0 .. BufferSize
        BY <3>1, <3>4, BufferAssumption
      <3> QED
        BY <3>3, <3>4, <3>5 DEF BufferInv, TypeOK, Pools
    <2>5. QueueAt("store", head', tail', full')
      BY <2>3, <2>4, BufferAssumption DEF QueueAt, Next1, BufferInv, TypeOK
    <2>6. nest' = nest - Depth(pc[c]) + Depth("store")
      BY <2>1 DEF Depth, BufferInv, TypeOK
    <2> QED
      BY <2>1, <2>2, <2>4, <2>5, <2>6, Statement DEF BufferInv, TypeOK
  <1>3. CASE Store(c)
    <2>1. /\ pc[c] = "store" /\ ~Preempted(c) /\ nest' = nest
          /\ Goto(c, "store_mod") /\ call' = call /\ test' = test
      BY <1>3 DEF Store, At
    <2>2. "store_mod" \in LabelsOf(Op(c))
      BY <2>1, LabelTells DEF LabelsOf, BufferInv
    <2>3. QueueAt("store", head, tail, full)
      BY <1>0, <2>1
    <2>4. /\ head' \in 0 .. BufferSize /\ tail' \in 0 .. BufferSize
          /\ full' \in BOOLEAN /\ pool' \in Pools
          /\ head < BufferSize /\ head' = head + 1 /\ UNCHANGED <<tail, full>>
      <3>1. head \in 0 .. BufferSize /\ head < BufferSize
        BY <2>3 DEF QueueAt, BufferInv, TypeOK
      <3>2. ((head + 1) % CounterRange) = head + 1
        BY <3>1, Increment
      <3>3. call[c][2] \in Data
        BY <2>1, LabelTells DEF BufferInv
      <3>4. head' = head + 1 /\ UNCHANGED <<tail, full>>
            /\ pool' = [pool EXCEPT ![head] = call[c][2]]
        BY <1>3, <3>2 DEF Store
      <3>5. head' \in 0 .. BufferSize
        BY <3>1, <3>4, BufferAssumption
      <3>6. pool' \in Pools
        BY <3>3, <3>4 DEF BufferInv, TypeOK, Pools
      <3> QED
        BY <3>1, <3>4, <3>5, <3>6 DEF BufferInv, TypeOK
    <2>5. QueueAt("store_mod", head', tail', full')
      BY <2>3, <2>4 DEF QueueAt, Next1, BufferInv, TypeOK
    <2>6. nest' = nest - Depth(pc[c]) + Depth("store_mod")
      BY <2>1 DEF Depth, BufferInv, TypeOK
    <2> QED
      BY <2>1, <2>2, <2>4, <2>5, <2>6, Statement DEF BufferInv, TypeOK
  <1>4. CASE StoreMod(c)
    <2>1. /\ pc[c] = "store_mod" /\ ~Preempted(c) /\ nest' = nest
          /\ Goto(c, "mark") /\ call' = call /\ test' = test
      BY <1>4 DEF StoreMod, At
    <2>2. "mark" \in LabelsOf(Op(c))
      BY <2>1, LabelTells DEF LabelsOf, BufferInv
    <2>3. QueueAt("store_mod", head, tail, full)
      BY <1>0, <2>1
    <2>4. /\ head' \in 0 .. BufferSize /\ tail' \in 0 .. BufferSize
          /\ full' \in BOOLEAN /\ pool' \in Pools
          /\ head' = (IF head = BufferSize THEN 0 ELSE head)
          /\ UNCHANGED <<tail, full, pool>>
      <3>1. head \in 0 .. BufferSize
        BY DEF BufferInv, TypeOK
      <3>2. head % BufferSize = IF head = BufferSize THEN 0 ELSE head
        BY <3>1, Reduce
      <3>3. head' = head % BufferSize /\ UNCHANGED <<tail, full, pool>>
        BY <1>4 DEF StoreMod
      <3>4. head' = (IF head = BufferSize THEN 0 ELSE head)
        BY <3>2, <3>3
      <3>5. head' \in 0 .. BufferSize
        BY <3>1, <3>4, BufferAssumption
      <3> QED
        BY <3>3, <3>4, <3>5 DEF BufferInv, TypeOK, Pools
    <2>5. QueueAt("mark", head', tail', full')
      BY <2>3, <2>4, BufferAssumption DEF QueueAt, Next1, BufferInv, TypeOK
    <2>6. nest' = nest - Depth(pc[c]) + Depth("mark")
      BY <2>1 DEF Depth, BufferInv, TypeOK
    <2> QED
      BY <2>1, <2>2, <2>4, <2>5, <2>6, Statement DEF BufferInv, TypeOK
  <1>5. CASE Mark(c)
    <2>1. /\ pc[c] = "mark" /\ ~Preempted(c) /\ nest' = nest
          /\ Goto(c, "exit") /\ call' = call /\ test' = test
      BY <1>5 DEF Mark, At
    <2>2. "exit" \in LabelsOf(Op(c))
      BY <2>1, LabelTells DEF LabelsOf, BufferInv
    <2>3. QueueAt("mark", head, tail, full)
      BY <1>0, <2>1
    <2>4. /\ head' \in 0 .. BufferSize /\ tail' \in 0 .. BufferSize
          /\ full' \in BOOLEAN /\ pool' \in Pools
          /\ full' = (full \/ head = tail) /\ UNCHANGED <<head, tail>>
      BY <1>5 DEF Mark, BufferInv, TypeOK, Pools
    <2>5. QueueAt("exit", head', tail', full')
      BY <2>3, <2>4 DEF QueueAt
    <2>6. nest' = nest - Depth(pc[c]) + Depth("exit")
      BY <2>1 DEF Depth, BufferInv, TypeOK
    <2> QED
      BY <2>1, <2>2, <2>4, <2>5, <2>6, Statement DEF BufferInv, TypeOK
  <1> QED
    BY <1>1, <1>2, <1>3, <1>4, <1>5

LEMMA OtherSteps ==
  ASSUME BufferInv, NEW c \in Contexts,
         Take(c) \/ TakeMod(c) \/ Clear(c) \/ Read(c) \/ ZeroHead(c) \/ ZeroTail(c)
  PROVE  BufferInv'
  <1>0. pc[c] # "idle" /\ ~Preempted(c) =>
          QueueAt(pc[c], head, tail, full)
    <2> SUFFICES ASSUME pc[c] # "idle" /\ ~Preempted(c)
                 PROVE  QueueAt(pc[c], head, tail, full)
      OBVIOUS
    <2>1. \A d \in Contexts \ {c} : Depth(pc[d]) = 0
      BY Alone DEF BufferInv
    <2> QED
      BY <2>1, QueueBefore DEF BufferInv
  <1>1. CASE Take(c)
    <2>1. /\ pc[c] = "take" /\ ~Preempted(c) /\ nest' = nest
          /\ Goto(c, "take_mod") /\ call' = call /\ test' = test
      BY <1>1 DEF Take, At
    <2>2. "take_mod" \in LabelsOf(Op(c))
      BY <2>1, LabelTells DEF LabelsOf, BufferInv
    <2>3. QueueAt("take", head, tail, full)
      BY <1>0, <2>1
    <2>4. /\ head' \in 0 .. BufferSize /\ tail' \in 0 .. BufferSize
          /\ full' \in BOOLEAN /\ pool' \in Pools
          /\ tail < BufferSize /\ tail' = tail + 1 /\ UNCHANGED <<head, full, pool>>
      <3>1. tail \in 0 .. BufferSize /\ tail < BufferSize
        BY <2>3 DEF QueueAt, BufferInv, TypeOK
      <3>2. ((tail + 1) % CounterRange) = tail + 1
        BY <3>1, Increment
      <3>3. tail' = tail + 1 /\ UNCHANGED <<head, full, pool>>
        BY <1>1, <3>2 DEF Take
      <3>4. tail' \in 0 .. BufferSize
        BY <3>1, <3>3, BufferAssumption
      <3> QED
        BY <3>1, <3>3, <3>4 DEF BufferInv, TypeOK, Pools
    <2>5. QueueAt("take_mod", head', tail', full')
      BY <2>3, <2>4 DEF QueueAt
    <2>6. nest' = nest - Depth(pc[c]) + Depth("take_mod")
      BY <2>1 DEF Depth, BufferInv, TypeOK
    <2> QED
      BY <2>1, <2>2, <2>4, <2>5, <2>6, Statement DEF BufferInv, TypeOK
  <1>2. CASE TakeMod(c)
    <2>1. /\ pc[c] = "take_mod" /\ ~Preempted(c) /\ nest' = nest
          /\ Goto(c, "clear") /\ call' = call /\ test' = test
      BY <1>2 DEF TakeMod, At
    <2>2. "clear" \in LabelsOf(Op(c))
      BY <2>1, LabelTells DEF LabelsOf, BufferInv
    <2>3. QueueAt("take_mod", head, tail, full)
      BY <1>0, <2>1
    <2>4. /\ head' \in 0 .. BufferSize /\ tail' \in 0 .. BufferSize
          /\ full' \in BOOLEAN /\ pool' \in Pools
          /\ tail' = (IF tail = BufferSize THEN 0 ELSE tail)
          /\ UNCHANGED <<head, full, pool>>
      <3>1. tail \in 0 .. BufferSize
        BY DEF BufferInv, TypeOK
      <3>2. tail % BufferSize = IF tail = BufferSize THEN 0 ELSE tail
        BY <3>1, Reduce
      <3>3. tail' = tail % BufferSize /\ UNCHANGED <<head, full, pool>>
        BY <1>2 DEF TakeMod
      <3>4. tail' = (IF tail = BufferSize THEN 0 ELSE tail)
        BY <3>2, <3>3
      <3>5. tail' \in 0 .. BufferSize
        BY <3>1, <3>4, BufferAssumption
      <3> QED
        BY <3>3, <3>4, <3>5 DEF BufferInv, TypeOK, Pools
    <2>5. QueueAt("clear", head', tail', full')
      BY <2>3, <2>4, BufferAssumption DEF QueueAt, BufferInv, TypeOK
    <2>6. nest' = nest - Depth(pc[c]) + Depth("clear")
      BY <2>1 DEF Depth, BufferInv, TypeOK
    <2> QED
      BY <2>1, <2>2, <2>4, <2>5, <2>6, Statement DEF BufferInv, TypeOK
  <1>3. CASE Clear(c)
    <2>1. /\ pc[c] = "clear" /\ ~Preempted(c) /\ nest' = nest
          /\ Goto(c, "exit") /\ call' = call /\ test' = test
      BY <1>3 DEF Clear, At
    <2>2. "exit" \in LabelsOf(Op(c))
      BY <2>1, LabelTells DEF LabelsOf, BufferInv
    <2>3. QueueAt("clear", head, tail, full)
      BY <1>0, <2>1
    <2>4. /\ head' \in 0 .. BufferSize /\ tail' \in 0 .. BufferSize
          /\ full' \in BOOLEAN /\ pool' \in Pools
          /\ full' = FALSE /\ UNCHANGED <<head, tail>>
      BY <1>3 DEF Clear, BufferInv, TypeOK, Pools
    <2>5. QueueAt("exit", head', tail', full')
      BY <2>3, <2>4 DEF QueueAt
    <2>6. nest' = nest - Depth(pc[c]) + Depth("exit")
      BY <2>1 DEF Depth, BufferInv, TypeOK
    <2> QED
      BY <2>1, <2>2, <2>4, <2>5, <2>6, Statement DEF BufferInv, TypeOK
  <1>4. CASE Read(c)
    <2>1. /\ pc[c] = "read" /\ ~Preempted(c) /\ nest' = nest
          /\ Goto(c, "exit") /\ call' = call /\ test' = test
      BY <1>4 DEF Read, At
    <2>2. "exit" \in LabelsOf(Op(c))
      BY <2>1, LabelTells DEF LabelsOf, BufferInv
    <2>3. QueueAt("read", head, tail, full)
      BY <1>0, <2>1
    <2>4. /\ head' \in 0 .. BufferSize /\ tail' \in 0 .. BufferSize
          /\ full' \in BOOLEAN /\ pool' \in Pools
          /\ UNCHANGED <<head, tail, full>>
      BY <1>4 DEF Read, members, BufferInv, TypeOK, Pools
    <2>5. QueueAt("exit", head', tail', full')
      BY <2>3, <2>4 DEF QueueAt
    <2>6. nest' = nest - Depth(pc[c]) + Depth("exit")
      BY <2>1 DEF Depth, BufferInv, TypeOK
    <2> QED
      BY <2>1, <2>2, <2>4, <2>5, <2>6, Statement DEF BufferInv, TypeOK
  <1>5. CASE ZeroHead(c)
    <2>1. /\ pc[c] = "zero_head" /\ ~Preempted(c) /\ nest' = nest
          /\ Goto(c, "zero_tail") /\ call' = call /\ test' = test
      BY <1>5 DEF ZeroHead, At
    <2>2. "zero_tail" \in LabelsOf(Op(c))
      BY <2>1, LabelTells DEF LabelsOf, BufferInv
    <2>3. QueueAt("zero_head", head, tail, full)
      BY <1>0, <2>1
    <2>4. /\ head' \in 0 .. BufferSize /\ tail' \in 0 .. BufferSize
          /\ full' \in BOOLEAN /\ pool' \in Pools
          /\ head' = 0 /\ UNCHANGED <<tail, full>>
      BY <1>5, BufferAssumption DEF ZeroHead, BufferInv, TypeOK, Pools
    <2>5. QueueAt("zero_tail", head', tail', full')
      BY <2>3, <2>4, BufferAssumption DEF QueueAt
    <2>6. nest' = nest - Depth(pc[c]) + Depth("zero_tail")
      BY <2>1 DEF Depth, BufferInv, TypeOK
    <2> QED
      BY <2>1, <2>2, <2>4, <2>5, <2>6, Statement DEF BufferInv, TypeOK
  <1>6. CASE ZeroTail(c)
    <2>1. /\ pc[c] = "zero_tail" /\ ~Preempted(c) /\ nest' = nest
          /\ Goto(c, "clear") /\ call' = call /\ test' = test
      BY <1>6 DEF ZeroTail, At
    <2>2. "clear" \in LabelsOf(Op(c))
      BY <2>1, LabelTells DEF LabelsOf, BufferInv
    <2>3. QueueAt("zero_tail", head, tail, full)
      BY <1>0, <2>1
    <2>4. /\ head' \in 0 .. BufferSize /\ tail' \in 0 .. BufferSize
          /\ full' \in BOOLEAN /\ pool' \in Pools
          /\ tail' = 0 /\ UNCHANGED <<head, full>>
      BY <1>6, BufferAssumption DEF ZeroTail, BufferInv, TypeOK, Pools
    <2>5. QueueAt("clear", head', tail', full')
      BY <2>3, <2>4, BufferAssumption DEF QueueAt
    <2>6. nest' = nest - Depth(pc[c]) + Depth("clear")
      BY <2>1 DEF Depth, BufferInv, TypeOK
    <2> QED
      BY <2>1, <2>2, <2>4, <2>5, <2>6, Statement DEF BufferInv, TypeOK
  <1> QED
    BY <1>1, <1>2, <1>3, <1>4, <1>5, <1>6

LEMMA ExitStep ==
  ASSUME BufferInv, NEW c \in Contexts, Exit(c)
  PROVE  BufferInv'
  <1>1. /\ pc[c] = "exit" /\ ~Preempted(c) /\ nest' = nest - 1
        /\ pc' = [pc EXCEPT ![c] = "idle"] /\ call' = [call EXCEPT ![c] = NoCall]
        /\ test' = [test EXCEPT ![c] = FALSE] /\ UNCHANGED members
    BY DEF Exit, At, Goto
  <1>2. nest' = nest - Depth(pc[c]) + Depth("idle")
    BY <1>1 DEF Depth, BufferInv, TypeOK
  <1>3. SectionInv' /\ nest' \in 0 .. 2
    BY <1>1, <1>2, SectionStep DEF BufferInv
  <1>4. TypeOK'
    BY <1>1, <1>3 DEF BufferInv, TypeOK, members, Op
  <1>5. \A d \in Contexts \ {c} : Depth(pc[d]) = 0 /\ pc'[d] = pc[d]
    BY <1>1, Alone DEF BufferInv, TypeOK
  <1>6. pc'[c] = "idle"
    BY <1>1 DEF BufferInv, TypeOK
  <1>7. QueueInv'
    <2>1. QueueAt("exit", head, tail, full)
      BY <1>1, <1>5, QueueBefore DEF BufferInv
    <2>2. QueueAt("idle", head', tail', full')
      BY <1>1, <2>1 DEF QueueAt, members
    <2> QED
      BY <1>5, <1>6, <2>2, QueueAfter
  <1>8. TestInv'
    BY <1>5, <1>6 DEF TestInv, Depth
  <1> QED
    BY <1>3, <1>4, <1>7, <1>8 DEF BufferInv

-----------------------------------------------------------------------------
\* The inductive invariant, of which the theorems below are the parts.
LEMMA BufferInvariant == Spec => []BufferInv
  <1>1. Init => BufferInv
    <2> SUFFICES ASSUME Init PROVE BufferInv
      OBVIOUS
    <2>1. \A c \in Contexts : pc[c] = "idle"
      BY DEF Init
    <2>2. TypeOK
      <3>1. head \in 0 .. BufferSize /\ tail \in 0 .. BufferSize /\ nest \in 0 .. 2
        BY BufferAssumption DEF Init
      <3>2. pool \in [0 .. BufferSize - 1 -> Data \cup {Nothing}]
        BY DEF Init
      <3>3. \A c \in Contexts : pc[c] = "idle" /\ call[c] = NoCall
        BY DEF Init
      <3> QED
        BY <3>1, <3>2, <3>3 DEF Init, TypeOK
    <2>3. SectionInv /\ TestInv
      BY <2>1 DEF Init, SectionInv, TestInv, Depth
    <2>4. QueueInv
      <3>1. 0 \in Contexts /\ \A d \in Contexts \ {0} : Depth(pc[d]) = 0
        BY <2>1, BufferAssumption DEF Contexts, Depth
      <3>2. QueueAt(pc[0], head, tail, full)
        BY <2>1, <3>1, BufferAssumption DEF Init, QueueAt
      <3> QED
        BY <3>1, <3>2, QueueBefore
    <2> QED
      BY <2>2, <2>3, <2>4 DEF BufferInv
  <1>2. BufferInv /\ [Next]_vars => BufferInv'
    <2> SUFFICES ASSUME BufferInv, [Next]_vars PROVE BufferInv'
      OBVIOUS
    <2>1. ASSUME NEW c \in Contexts, Step(c) PROVE BufferInv'
      BY <2>1, EnterStep, TestSteps, TestExitStep, ExitStep, PushSteps, OtherSteps
      DEF Step
    <2>2. ASSUME NEW c \in Contexts, NEW k \in Calls, Call(c, k) PROVE BufferInv'
      BY <2>2, CallStep
    <2>3. CASE UNCHANGED vars
      <3>1. TypeOK'
        BY <2>3 DEF vars, members, BufferInv, TypeOK, Op
      <3>2. SectionInv'
        BY <2>3 DEF vars, members, BufferInv, SectionInv, Preempted
      <3>3. QueueInv'
        BY <2>3 DEF vars, members, BufferInv, QueueInv, Some
      <3>4. TestInv'
        BY <2>3 DEF vars, members, BufferInv, TestInv, IsEmpty, Op
      <3> QED
        BY <3>1, <3>2, <3>3, <3>4 DEF BufferInv
    <2> QED
      BY <2>1, <2>2, <2>3 DEF Next
  <1> QED
    BY <1>1, <1>2, PTL DEF Spec

\* Whatever calls what and is preempted where, the labels, indices and
\* counters stay in their ranges: the counter type never wraps.
THEOREM TypeCorrect == Spec => []TypeOK
  BY BufferInvariant, PTL DEF BufferInv

\* No two contexts are ever inside the buffer's critical sections, and the
\* nesting counter is back at 0 exactly when the outermost one has ended.
THEOREM SectionsExclude == Spec => []SectionInv
  BY BufferInvariant, PTL DEF BufferInv

\* Whenever interrupts are on, the indices are inside the pool and full is
\* set only where they meet: any handler may use the buffer at that point.
THEOREM QueueWellFormed == Spec => []QueueInv
  BY BufferInvariant, PTL DEF BufferInv

-----------------------------------------------------------------------------
(***************************************************************************)
(* The elements the members stand for.                                     *)
(***************************************************************************)
Indices == 0 .. BufferSize - 1
Values == Data \cup {Nothing}

LEMMA ModOver == \A a \in Nat, b \in Nat \ {0} : a < b => (a + b) % b = a
  OBVIOUS

\* Where the i-th element is.
Pos(t, i) == IF t + i - 1 < BufferSize THEN t + i - 1 ELSE t + i - 1 - BufferSize

LEMMA PosIs ==
  ASSUME NEW t \in Indices, NEW i \in 1 .. BufferSize
  PROVE  Pos(t, i) \in Indices /\ (t + i - 1) % BufferSize = Pos(t, i)
<1>1. BufferSize \in Nat \ {0} /\ t \in Nat /\ i \in Nat /\ t < BufferSize
      /\ i <= BufferSize /\ i >= 1
  BY BufferAssumption DEF Indices
<1>2. CASE t + i - 1 < BufferSize
  <2>1. t + i - 1 \in Nat
    BY <1>1
  <2>2. (t + i - 1) % BufferSize = t + i - 1
    BY <1>1, <1>2, <2>1, ModSmall
  <2>. QED BY <1>1, <1>2, <2>1, <2>2 DEF Pos, Indices
<1>3. CASE ~(t + i - 1 < BufferSize)
  <2>. DEFINE a == t + i - 1 - BufferSize
  <2>1. a \in Nat /\ a < BufferSize /\ t + i - 1 = a + BufferSize
    BY <1>1, <1>3
  <2>2. (a + BufferSize) % BufferSize = a
    BY <1>1, <2>1, ModOver
  <2>3. (t + i - 1) % BufferSize = a
    BY <2>1, <2>2
  <2>. QED BY <1>1, <1>3, <2>1, <2>3 DEF Pos, Indices
<1>. QED BY <1>2, <1>3

LEMMA CountIs ==
  ASSUME NEW h \in Indices, NEW t \in Indices, NEW f \in BOOLEAN
  PROVE  Count(h, t, f) = IF f THEN BufferSize
                          ELSE IF h < t THEN BufferSize + h - t ELSE h - t
<1>1. BufferSize \in Nat \ {0} /\ h \in Nat /\ t \in Nat /\ h < BufferSize /\ t < BufferSize
  BY BufferAssumption DEF Indices
<1>2. CASE f
  BY <1>2 DEF Count
<1>3. CASE ~f /\ h < t
  <2>1. BufferSize + h - t \in Nat /\ BufferSize + h - t < BufferSize
    BY <1>1, <1>3
  <2>. QED BY <1>1, <1>3, <2>1, ModSmall DEF Count
<1>4. CASE ~f /\ ~(h < t)
  <2>1. h - t \in Nat /\ h - t < BufferSize /\ BufferSize + h - t = (h - t) + BufferSize
    BY <1>1, <1>4
  <2>2. ((h - t) + BufferSize) % BufferSize = h - t
    BY <1>1, <2>1, ModOver
  <2>3. (BufferSize + h - t) % BufferSize = h - t
    BY <2>1, <2>2
  <2>. QED BY <1>4, <2>3 DEF Count
<1>. QED BY <1>2, <1>3, <1>4

LEMMA ElementsAre ==
  ASSUME NEW h \in Indices, NEW t \in Indices, NEW f \in BOOLEAN, NEW p \in Pools
  PROVE  /\ Elements(h, t, f, p) \in Seq(Values)
         /\ Len(Elements(h, t, f, p)) = Count(h, t, f)
         /\ Count(h, t, f) \in 0 .. BufferSize
         /\ \A i \in 1 .. Count(h, t, f) : Elements(h, t, f, p)[i] = p[Pos(t, i)]
<1>. DEFINE n == Count(h, t, f)
<1>1. n \in 0 .. BufferSize
  <2>1. BufferSize \in Nat \ {0} /\ h \in Nat /\ t \in Nat /\ h < BufferSize /\ t < BufferSize
    BY BufferAssumption DEF Indices
  <2>. QED BY <2>1, CountIs
<1>2. \A i \in 1 .. n : i \in 1 .. BufferSize
  BY <1>1, BufferAssumption
<1>3. \A i \in 1 .. n : /\ (t + i - 1) % BufferSize = Pos(t, i)
                        /\ p[Pos(t, i)] \in Values
  BY <1>2, PosIs DEF Pools, Indices, Values
<1>. HIDE DEF n
<1>4. [i \in 1 .. n |-> p[(t + i - 1) % BufferSize]] = [i \in 1 .. n |-> p[Pos(t, i)]]
  BY <1>3
<1>5. [i \in 1 .. n |-> p[Pos(t, i)]] \in [1 .. n -> Values]
  BY <1>3
<1>6. Elements(h, t, f, p) = [i \in 1 .. n |-> p[Pos(t, i)]]
  BY <1>4 DEF Elements, n
<1>7. n \in Nat
  BY <1>1, BufferAssumption
<1>8. Elements(h, t, f, p) \in Seq(Values)
  BY <1>5, <1>6, <1>7, SeqDef
<1>9. Len(Elements(h, t, f, p)) = n
  BY <1>6, <1>7
<1>. QED BY <1>1, <1>6, <1>8, <1>9 DEF n

\* The elements before push marks a buffer as full, and once it has.
Unmarked(h, t, p) == Elements(h, t, FALSE, p)
Marked(h, t, p) == Elements(h, t, h = t, p)

\* What empty(), full() and size() may conclude from the members.
LEMMA Reads ==
  ASSUME NEW h \in Indices, NEW t \in Indices, NEW f \in BOOLEAN, NEW p \in Pools
  PROVE  /\ Elements(h, t, f, p) = <<>> <=> h = t /\ ~f
         /\ Len(Elements(h, t, f, p)) = BufferSize <=> f
         /\ Sizeof(h, t, f) = Len(Elements(h, t, f, p))
<1>1. BufferSize \in Nat \ {0} /\ h \in Nat /\ t \in Nat /\ h < BufferSize /\ t < BufferSize
      /\ BufferSize < CounterRange /\ CounterRange \in Nat \ {0}
  BY BufferAssumption DEF Indices
<1>. DEFINE e == Elements(h, t, f, p)
<1>2. e \in Seq(Values) /\ Len(e) = Count(h, t, f)
  BY ElementsAre
<1>. HIDE DEF e
<1>3. e = <<>> <=> Len(e) = 0
  BY <1>2, EmptySeq
<1>4. Len(e) = IF f THEN BufferSize ELSE IF h < t THEN BufferSize + h - t ELSE h - t
  BY <1>2, CountIs
<1>5. e = <<>> <=> h = t /\ ~f
  BY <1>1, <1>3, <1>4
<1>6. Len(e) = BufferSize <=> f
  BY <1>1, <1>4
<1>7. Sizeof(h, t, f) = Len(e)
  <2>1. CASE f
    BY <1>1, <1>4, <2>1, ModSmall DEF Sizeof
  <2>2. CASE ~f /\ h < t
    <3>1. BufferSize + h - t \in Nat /\ BufferSize + h - t < CounterRange
      BY <1>1, <2>2
    <3>2. (BufferSize + h - t) % CounterRange = BufferSize + h - t
      BY <1>1, <3>1, ModSmall
    <3>. QED BY <1>4, <2>2, <3>2 DEF Sizeof
  <2>3. CASE ~f /\ ~(h < t)
    BY <1>4, <2>3 DEF Sizeof
  <2>. QED BY <2>1, <2>2, <2>3
<1>. QED BY <1>5, <1>6, <1>7 DEF e

\* What tail++ does to the elements: the oldest leaves them.
LEMMA TailIs ==
  ASSUME NEW h \in Indices, NEW t \in Indices, NEW f \in BOOLEAN, NEW p \in Pools,
         f => h = t, f \/ h # t
  PROVE  /\ Elements(h, t, f, p) # <<>>
         /\ Head(Elements(h, t, f, p)) = p[t]
         /\ Tail(Elements(h, t, f, p)) = Unmarked(h, Next1(t), p)
         /\ Next1(t) \in Indices
<1>. DEFINE e == Elements(h, t, f, p)  n == Count(h, t, f)
            e1 == Unmarked(h, Next1(t), p)  n1 == Count(h, Next1(t), FALSE)
<1>1. BufferSize \in Nat \ {0} /\ h \in Nat /\ t \in Nat /\ h < BufferSize /\ t < BufferSize
  BY BufferAssumption DEF Indices
<1>2. Next1(t) \in Indices /\ Next1(t) = IF t + 1 = BufferSize THEN 0 ELSE t + 1
  BY <1>1 DEF Next1, Indices
<1>3. n = IF f THEN BufferSize ELSE IF h < t THEN BufferSize + h - t ELSE h - t
  BY CountIs
<1>4. n1 = IF h < Next1(t) THEN BufferSize + h - Next1(t) ELSE h - Next1(t)
  BY <1>2, CountIs
<1>5. e \in Seq(Values) /\ Len(e) = n /\ n \in 0 .. BufferSize
      /\ \A i \in 1 .. n : e[i] = p[Pos(t, i)]
  BY ElementsAre
<1>6. e1 \in Seq(Values) /\ Len(e1) = n1 /\ n1 \in 0 .. BufferSize
      /\ \A i \in 1 .. n1 : e1[i] = p[Pos(Next1(t), i)]
  <2>1. FALSE \in BOOLEAN
    OBVIOUS
  <2>. QED BY <1>2, <2>1, ElementsAre DEF Unmarked
<1>. HIDE DEF e, n, e1, n1
<1>7. n1 = n - 1 /\ n >= 1
  BY <1>1, <1>2, <1>3, <1>4
<1>8. \A i \in 1 .. n1 : i \in Nat /\ i >= 1 /\ i <= n1 /\ i + 1 \in 1 .. n
  BY <1>1, <1>5, <1>6, <1>7
<1>9. \A i \in 1 .. n1 : Pos(Next1(t), i) = Pos(t, i + 1)
  BY <1>1, <1>2, <1>5, <1>6, <1>7, <1>8 DEF Pos
<1>10. e # <<>>
  BY <1>5, <1>7, EmptySeq
<1>11. Head(e) = e[1] /\ Tail(e) \in Seq(Values) /\ Len(Tail(e)) = n - 1
       /\ \A i \in 1 .. n - 1 : Tail(e)[i] = e[i + 1]
  BY <1>5, <1>10, HeadTailProperties
<1>12. Head(e) = p[t]
  <2>1. 1 \in 1 .. n /\ Pos(t, 1) = t
    BY <1>1, <1>5, <1>7 DEF Pos
  <2>. QED BY <1>5, <1>11, <2>1
<1>13. \A i \in 1 .. n1 : Tail(e)[i] = e1[i]
  BY <1>5, <1>6, <1>7, <1>8, <1>9, <1>11
<1>14. Tail(e) = e1
  BY <1>6, <1>7, <1>11, <1>13, SeqEqual
<1>. QED BY <1>2, <1>10, <1>12, <1>14 DEF e, e1

\* What _pool[_head++] = data does to them, when there is room.
LEMMA AppendIs ==
  ASSUME NEW h \in Indices, NEW t \in Indices, NEW p \in Pools, NEW d \in Data,
         NEW g \in Indices, g = Next1(h),
         NEW p1 \in Pools, p1[h] = d, \A i \in Indices \ {h} : p1[i] = p[i]
  PROVE  Marked(g, t, p1) = Append(Unmarked(h, t, p), d)
<1>. DEFINE e == Unmarked(h, t, p)  n == Count(h, t, FALSE)
            e1 == Marked(g, t, p1)  n1 == Count(g, t, g = t)
<1>1. BufferSize \in Nat \ {0} /\ h \in Nat /\ t \in Nat /\ h < BufferSize /\ t < BufferSize
  BY BufferAssumption DEF Indices
<1>2. g = (IF h + 1 = BufferSize THEN 0 ELSE h + 1)
  BY <1>1 DEF Next1, Indices
<1>4. n = IF h < t THEN BufferSize + h - t ELSE h - t
  BY CountIs
<1>5. n1 = IF g = t THEN BufferSize ELSE IF g < t THEN BufferSize + g - t ELSE g - t
  BY <1>2, CountIs
<1>6. e \in Seq(Values) /\ Len(e) = n /\ n \in 0 .. BufferSize
      /\ \A i \in 1 .. n : e[i] = p[Pos(t, i)]
  BY ElementsAre DEF Unmarked
<1>7. e1 \in Seq(Values) /\ Len(e1) = n1 /\ n1 \in 0 .. BufferSize
      /\ \A i \in 1 .. n1 : e1[i] = p1[Pos(t, i)]
  <2>. DEFINE f == (g = t)
  <2>1. f \in BOOLEAN
    OBVIOUS
  <2>. HIDE DEF f
  <2>2. /\ Elements(g, t, f, p1) \in Seq(Values)
        /\ Len(Elements(g, t, f, p1)) = Count(g, t, f)
        /\ Count(g, t, f) \in 0 .. BufferSize
        /\ \A i \in 1 .. Count(g, t, f) : Elements(g, t, f, p1)[i] = p1[Pos(t, i)]
    BY <2>1, ElementsAre
  <2>. QED BY <2>2 DEF f, Marked
<1>. HIDE DEF e, n, e1, n1
<1>8. n1 = n + 1 /\ n < BufferSize
  BY <1>1, <1>2, <1>4, <1>5
<1>9. Pos(t, n1) = h
  BY <1>1, <1>2, <1>4, <1>6, <1>8 DEF Pos
<1>10. \A i \in 1 .. n : i \in Nat /\ i >= 1 /\ i <= n /\ i \in 1 .. n1 /\ i \in 1 .. BufferSize
  BY <1>1, <1>6, <1>7, <1>8
<1>11. \A i \in 1 .. n : Pos(t, i) # h
  BY <1>1, <1>4, <1>6, <1>8, <1>10 DEF Pos
<1>12. \A i \in 1 .. n : e1[i] = e[i]
  <2>1. \A i \in 1 .. n : Pos(t, i) \in Indices
    BY <1>10, PosIs
  <2>. QED BY <1>6, <1>7, <1>10, <1>11, <2>1
<1>13. e1[n1] = d
  BY <1>6, <1>7, <1>8, <1>9
<1>14. Append(e, d) \in Seq(Values) /\ Len(Append(e, d)) = n + 1
       /\ \A i \in 1 .. n : Append(e, d)[i] = e[i]
       /\ Append(e, d)[n + 1] = d
  BY <1>6, AppendProperties DEF Values
<1>15. \A i \in 1 .. n1 : i \in 1 .. n \/ i = n1
  BY <1>6, <1>8
<1>16. \A i \in 1 .. n1 : e1[i] = Append(e, d)[i]
  BY <1>8, <1>12, <1>13, <1>14, <1>15
<1>17. e1 = Append(e, d)
  BY <1>7, <1>8, <1>14, <1>16, SeqEqual
<1>. QED BY <1>17 DEF e, e1

-----------------------------------------------------------------------------
(***************************************************************************)
(* ActsAsFifo.  Inside a section the members are on their way from the     *)
(* queue that was committed to the one that will be: RefAt says how far    *)
(* they are at each label, Inside that the context in its section is       *)
(* there, and Done what has to be so at the end.                           *)
(***************************************************************************)
Wrap(i) == IF i = BufferSize THEN 0 ELSE i

Kept(q) == IF Len(q) = BufferSize THEN Tail(q) ELSE q

Done(o, d, q, a, e) ==
  /\ o \in {"push", "reset"} => a = Nothing
  /\ o = "push"  => e = Append(Kept(q), d)
  /\ o = "reset" => e = <<>>
  /\ o = "pop" /\ q = <<>> => a = Nothing /\ e = q
  /\ o = "pop" /\ q # <<>> => a = Head(q) /\ e = Tail(q)
  /\ o \in {"empty", "full", "size"} => e = q
  /\ o = "empty" => a = (q = <<>>)
  /\ o = "full"  => a = (Len(q) = BufferSize)
  /\ o = "size"  => a = Len(q)

RefAt(l, o, d, q, a, h, t, f, p) ==
  /\ l \in {"test", "tested", "test_exit", "read", "zero_head", "drop", "take"} =>
       q = Elements(h, t, f, p)
  /\ l \notin {"exit", "take_mod", "clear"} => a = Nothing
  /\ l = "drop"      => f
  /\ l = "drop_mod"  => Len(q) = BufferSize /\ Tail(q) = Unmarked(h, Wrap(t), p)
  /\ l = "store"     => Kept(q) = Unmarked(h, t, p)
  /\ l = "store_mod" => Append(Kept(q), d) = Marked(Wrap(h), t, p)
  /\ l = "mark"      => Append(Kept(q), d) = Marked(h, t, p)
  /\ l = "take"      => q # <<>>
  /\ l = "take_mod"  => q # <<>> /\ a = Head(q) /\ Tail(q) = Unmarked(h, Wrap(t), p)
  /\ l = "zero_tail" => h = 0
  /\ l = "clear" /\ o = "pop"   => q # <<>> /\ a = Head(q) /\ Tail(q) = Unmarked(h, t, p)
  /\ l = "clear" /\ o = "reset" => h = 0 /\ t = 0 /\ a = Nothing
  /\ l = "exit"      => Done(o, d, q, a, Elements(h, t, f, p))

Inside(c) == RefAt(pc[c], Op(c), call[c][2], committed, answer[c], head, tail, full, pool)

RefInv ==
  /\ DOMAIN answer = Contexts
  /\ \A c \in Contexts : pc[c] = "enter" => answer[c] = Nothing
  /\ nest = 0 => committed = Elements(head, tail, full, pool)
  /\ \A c \in Contexts : Depth(pc[c]) > 0 => Inside(c)

\* The frame of every statement: the context c moves to the label l, inside
\* its section, and there the members and its answer are as RefAt wants them.
LEMMA RefStatement ==
  ASSUME BufferInv, BufferInv', RefInv, NEW c \in Contexts, NEW l, ~Preempted(c),
         pc[c] # "idle", Depth(l) > 0,
         Goto(c, l), call' = call, committed' = committed,
         DOMAIN answer' = Contexts, \A d \in Contexts \ {c} : answer'[d] = answer[d],
         RefAt(l, Op(c), call[c][2], committed, answer'[c], head', tail', full', pool')
  PROVE  RefInv'
<1>1. pc'[c] = l /\ \A d \in Contexts \ {c} : pc'[d] = pc[d]
  BY DEF Goto, BufferInv, TypeOK
<1>2. \A d \in Contexts \ {c} : Depth(pc'[d]) = 0
  BY <1>1, Alone DEF BufferInv
<1>3. nest' # 0
  BY <1>1 DEF BufferInv, SectionInv
<1>4. \A d \in Contexts : pc'[d] = "enter" => answer'[d] = Nothing
  BY <1>1 DEF RefInv, Depth
<1>5. Inside(c)'
  BY <1>1 DEF Inside, Op
<1>. QED BY <1>2, <1>3, <1>4, <1>5 DEF RefInv

\* What the invariants say of the context that runs.
LEMMA RefHere ==
  ASSUME BufferInv, RefInv, NEW c \in Contexts, ~Preempted(c), pc[c] # "idle"
  PROVE  /\ Depth(pc[c]) > 0 => Inside(c)
         /\ pc[c] = "enter" => answer[c] = Nothing /\ nest = 0
         /\ QueueAt(pc[c], head, tail, full)
         /\ head \in 0 .. BufferSize /\ tail \in 0 .. BufferSize
         /\ full \in BOOLEAN /\ pool \in Pools
<1>1. \A d \in Contexts \ {c} : Depth(pc[d]) = 0
  BY Alone DEF BufferInv
<1>2. QueueAt(pc[c], head, tail, full)
  BY <1>1, QueueBefore DEF BufferInv
<1>3. pc[c] = "enter" => nest = 0
  <2>. SUFFICES ASSUME pc[c] = "enter" PROVE nest = 0
    OBVIOUS
  <2>1. \A d \in Contexts : Depth(pc[d]) = 0
    BY <1>1 DEF Depth
  <2>2. ~(nest > 0) /\ nest \in 0 .. 2
    BY <2>1 DEF BufferInv, SectionInv, TypeOK
  <2>. QED BY <2>2
<1>. QED BY <1>2, <1>3 DEF RefInv, BufferInv, TypeOK, Pools

\* At the labels where no counter is waiting to be reduced.
LEMMA InPool ==
  ASSUME NEW l, NEW h \in 0 .. BufferSize, NEW t \in 0 .. BufferSize, NEW f,
         QueueAt(l, h, t, f)
  PROVE  /\ l # "store_mod" => h \in Indices
         /\ l \notin {"drop_mod", "take_mod"} => t \in Indices
BY BufferAssumption DEF QueueAt, Indices

LEMMA WrapIs ==
  ASSUME NEW i \in 0 .. BufferSize
  PROVE  /\ Wrap(i) \in Indices /\ i % BufferSize = Wrap(i)
         /\ i \in Indices => Next1(i) \in Indices /\ Wrap(i) = i /\ (i + 1) % CounterRange = i + 1
                             /\ Wrap(i + 1) = Next1(i)
BY Reduce, Increment, BufferAssumption DEF Wrap, Indices, Next1

\* A statement that leaves the answers alone leaves this of them.
LEMMA SameAnswers ==
  ASSUME RefInv, answer' = answer
  PROVE  DOMAIN answer' = Contexts /\ \A d \in Contexts : answer'[d] = answer[d]
BY DEF RefInv

LEMMA Depths ==
  /\ Depth("idle") = 0 /\ Depth("enter") = 0
  /\ \A l \in {"tested", "test_exit"} : Depth(l) = 2
  /\ \A l \in {"test", "read", "drop", "drop_mod", "store", "store_mod", "mark", "take",
               "take_mod", "clear", "zero_head", "zero_tail", "exit"} : Depth(l) = 1
BY DEF Depth

LEMMA RefEnter ==
  ASSUME BufferInv, BufferInv', RefInv, NEW c \in Contexts,
         Enter(c) \/ TestEnter(c) \/ Test(c)
  PROVE  RefInv'
<1>1. CASE Enter(c)
  <2>. DEFINE l == pc'[c]
  <2>1. /\ pc[c] = "enter" /\ ~Preempted(c) /\ call' = call /\ committed' = committed
        /\ UNCHANGED <<members, answer>>
    BY <1>1 DEF Enter, EnterWith, At
  <2>2. Op(c) \in Operations
    BY <2>1, LabelTells DEF BufferInv
  <2>3. l \in {"test", "read", "zero_head"} /\ Goto(c, l)
    BY <1>1, <2>2 DEF Enter, EnterWith, Goto, Operations, BufferInv, TypeOK
  <2>4. committed = Elements(head, tail, full, pool) /\ answer[c] = Nothing
    BY <2>1, RefHere DEF RefInv
  <2>. HIDE DEF l
  <2>5. RefAt(l, Op(c), call[c][2], committed, answer'[c], head', tail', full', pool')
    BY <2>1, <2>3, <2>4 DEF RefAt, members
  <2>6. Depth(l) > 0
    BY <2>3, Depths
  <2>7. DOMAIN answer' = Contexts /\ \A d \in Contexts \ {c} : answer'[d] = answer[d]
    BY <2>1, SameAnswers
  <2>. QED BY <2>1, <2>3, <2>5, <2>6, <2>7, RefStatement
<1>2. CASE TestEnter(c)
  <2>1. /\ pc[c] = "test" /\ ~Preempted(c) /\ call' = call /\ committed' = committed
        /\ UNCHANGED <<members, answer>> /\ Goto(c, "tested")
    BY <1>2 DEF TestEnter, At
  <2>2. Inside(c)
    BY <2>1, RefHere DEF Depth
  <2>3. RefAt("tested", Op(c), call[c][2], committed, answer'[c], head', tail', full', pool')
    BY <2>1, <2>2 DEF RefAt, Inside, members
  <2>4. Depth("tested") > 0
    BY Depths
  <2>5. DOMAIN answer' = Contexts /\ \A d \in Contexts \ {c} : answer'[d] = answer[d]
    BY <2>1, SameAnswers
  <2>. QED BY <2>1, <2>3, <2>4, <2>5, RefStatement
<1>3. CASE Test(c)
  <2>1. /\ pc[c] = "tested" /\ ~Preempted(c) /\ call' = call /\ committed' = committed
        /\ UNCHANGED <<members, answer>> /\ Goto(c, "test_exit")
    BY <1>3 DEF Test, At
  <2>2. Inside(c)
    BY <2>1, RefHere DEF Depth
  <2>3. RefAt("test_exit", Op(c), call[c][2], committed, answer'[c], head', tail', full', pool')
    BY <2>1, <2>2 DEF RefAt, Inside, members
  <2>4. Depth("test_exit") > 0
    BY Depths
  <2>5. DOMAIN answer' = Contexts /\ \A d \in Contexts \ {c} : answer'[d] = answer[d]
    BY <2>1, SameAnswers
  <2>. QED BY <2>1, <2>3, <2>4, <2>5, RefStatement
<1>. QED BY <1>1, <1>2, <1>3

LEMMA RefTestExit ==
  ASSUME BufferInv, BufferInv', RefInv, NEW c \in Contexts, TestExit(c)
  PROVE  RefInv'
<1>. DEFINE l == pc'[c]
<1>1. /\ pc[c] = "test_exit" /\ ~Preempted(c) /\ call' = call /\ committed' = committed
      /\ UNCHANGED <<members, answer>>
  BY DEF TestExit, TestExitWith, At
<1>2. Op(c) \in {"push", "pop"} /\ test[c] \in BOOLEAN
  BY <1>1, LabelTells DEF BufferInv, TypeOK
<1>3. /\ Goto(c, l)
      /\ Op(c) = "push" => l = IF test[c] THEN "drop" ELSE "store"
      /\ Op(c) = "pop" => l = IF test[c] THEN "exit" ELSE "take"
  BY <1>2 DEF TestExit, TestExitWith, Goto, BufferInv, TypeOK
<1>4. test[c] = IF Op(c) = "push" THEN full ELSE IsEmpty
  BY <1>1 DEF BufferInv, TestInv
<1>5. /\ committed = Elements(head, tail, full, pool) /\ answer[c] = Nothing
      /\ head \in Indices /\ tail \in Indices /\ full \in BOOLEAN /\ pool \in Pools
  <2>1. /\ Inside(c) /\ QueueAt("test_exit", head, tail, full)
        /\ head \in 0 .. BufferSize /\ tail \in 0 .. BufferSize
        /\ full \in BOOLEAN /\ pool \in Pools
    BY <1>1, RefHere, Depths
  <2>2. head \in Indices /\ tail \in Indices
    BY <2>1, InPool
  <2>3. committed = Elements(head, tail, full, pool) /\ answer[c] = Nothing
    BY <1>1, <2>1 DEF Inside, RefAt
  <2>. QED BY <2>1, <2>2, <2>3
<1>6. /\ committed = <<>> <=> head = tail /\ ~full
      /\ Len(committed) = BufferSize <=> full
  BY <1>5, Reads
<1>. HIDE DEF l
<1>7. RefAt(l, Op(c), call[c][2], committed, answer'[c], head', tail', full', pool')
  <2>1. CASE Op(c) = "push" /\ test[c]
    <3>1. l = "drop" /\ full
      BY <1>3, <1>4, <2>1
    <3>. QED BY <1>1, <1>5, <3>1 DEF RefAt, members
  <2>2. CASE Op(c) = "push" /\ ~test[c]
    <3>1. l = "store" /\ ~full
      BY <1>3, <1>4, <2>2
    <3>2. Kept(committed) = committed /\ full = FALSE
      BY <1>5, <1>6, <3>1 DEF Kept
    <3>. QED BY <1>1, <1>5, <3>1, <3>2 DEF RefAt, members, Unmarked
  <2>3. CASE Op(c) = "pop" /\ test[c]
    <3>1. l = "exit" /\ head = tail /\ ~full
      BY <1>3, <1>4, <2>3 DEF IsEmpty
    <3>2. Done("pop", call[c][2], committed, Nothing, committed)
      BY <1>6, <3>1 DEF Done
    <3>. QED BY <1>1, <1>5, <2>3, <3>1, <3>2 DEF RefAt, members
  <2>4. CASE Op(c) = "pop" /\ ~test[c]
    <3>1. l = "take" /\ ~(head = tail /\ ~full)
      BY <1>3, <1>4, <2>4 DEF IsEmpty
    <3>. QED BY <1>1, <1>5, <1>6, <3>1 DEF RefAt, members
  <2>. QED BY <1>2, <2>1, <2>2, <2>3, <2>4
<1>8. l \in {"drop", "store", "exit", "take"}
  BY <1>2, <1>3
<1>9. Depth(l) > 0
  BY <1>8, Depths
<1>10. DOMAIN answer' = Contexts /\ \A d \in Contexts \ {c} : answer'[d] = answer[d]
  BY <1>1, SameAnswers
<1>. QED BY <1>1, <1>3, <1>7, <1>9, <1>10, RefStatement

LEMMA RefPush ==
  ASSUME BufferInv, BufferInv', RefInv, NEW c \in Contexts,
         Drop(c) \/ DropMod(c) \/ Store(c) \/ StoreMod(c) \/ Mark(c)
  PROVE  RefInv'
<1>1. CASE Drop(c)
  <2>1. /\ pc[c] = "drop" /\ ~Preempted(c) /\ call' = call /\ committed' = committed
        /\ Goto(c, "drop_mod") /\ tail' = (tail + 1) % CounterRange /\ UNCHANGED <<head, full, pool, answer>>
    BY <1>1 DEF Drop, At
  <2>2. /\ Inside(c) /\ QueueAt("drop", head, tail, full)
        /\ head \in 0 .. BufferSize /\ tail \in 0 .. BufferSize
        /\ full \in BOOLEAN /\ pool \in Pools
    BY <2>1, RefHere, Depths
  <2>3. RefAt("drop", Op(c), call[c][2], committed, answer[c], head, tail, full, pool)
    BY <2>1, <2>2 DEF Inside
  <2>4. /\ committed = Elements(head, tail, full, pool) /\ full /\ answer[c] = Nothing
        /\ head = tail /\ head \in Indices /\ tail \in Indices
    BY <2>2, <2>3, InPool DEF RefAt, QueueAt
  <2>5. Tail(committed) = Unmarked(head, Next1(tail), pool) /\ Len(committed) = BufferSize
    <3>1. Tail(Elements(head, tail, full, pool)) = Unmarked(head, Next1(tail), pool)
      BY <2>2, <2>4, TailIs
    <3>2. Len(Elements(head, tail, full, pool)) = BufferSize <=> full
      BY <2>2, <2>4, Reads
    <3>. QED BY <2>4, <3>1, <3>2
  <2>6. Wrap(tail') = Next1(tail)
    BY <2>1, <2>2, <2>4, WrapIs
  <2>7. RefAt("drop_mod", Op(c), call[c][2], committed, answer'[c], head', tail', full', pool')
    BY <2>1, <2>4, <2>5, <2>6 DEF RefAt
  <2>8. Depth("drop_mod") > 0
    BY Depths
  <2>9. DOMAIN answer' = Contexts /\ \A d \in Contexts \ {c} : answer'[d] = answer[d]
    BY <2>1, SameAnswers
  <2>. QED BY <2>1, <2>7, <2>8, <2>9, RefStatement
<1>2. CASE DropMod(c)
  <2>1. /\ pc[c] = "drop_mod" /\ ~Preempted(c) /\ call' = call /\ committed' = committed
        /\ Goto(c, "store") /\ tail' = tail % BufferSize /\ UNCHANGED <<head, full, pool, answer>>
    BY <1>2 DEF DropMod, At
  <2>2. /\ Inside(c) /\ QueueAt("drop_mod", head, tail, full)
        /\ head \in 0 .. BufferSize /\ tail \in 0 .. BufferSize
        /\ full \in BOOLEAN /\ pool \in Pools
    BY <2>1, RefHere, Depths
  <2>3. RefAt("drop_mod", Op(c), call[c][2], committed, answer[c], head, tail, full, pool)
    BY <2>1, <2>2 DEF Inside
  <2>4. Tail(committed) = Unmarked(head, tail', pool) /\ answer[c] = Nothing
    BY <2>1, <2>2, <2>3, WrapIs DEF RefAt
  <2>5. Kept(committed) = Tail(committed)
    BY <2>3 DEF RefAt, Kept
  <2>7. RefAt("store", Op(c), call[c][2], committed, answer'[c], head', tail', full', pool')
    BY <2>1, <2>4, <2>5 DEF RefAt
  <2>8. Depth("store") > 0
    BY Depths
  <2>9. DOMAIN answer' = Contexts /\ \A d \in Contexts \ {c} : answer'[d] = answer[d]
    BY <2>1, SameAnswers
  <2>. QED BY <2>1, <2>7, <2>8, <2>9, RefStatement
<1>3. CASE Store(c)
  <2>1. /\ pc[c] = "store" /\ ~Preempted(c) /\ call' = call /\ committed' = committed
        /\ Goto(c, "store_mod") /\ UNCHANGED <<tail, full, answer>>
        /\ head' = (head + 1) % CounterRange /\ pool' = [pool EXCEPT ![head] = call[c][2]]
    BY <1>3 DEF Store, At
  <2>2. /\ Inside(c) /\ QueueAt("store", head, tail, full)
        /\ head \in 0 .. BufferSize /\ tail \in 0 .. BufferSize
        /\ full \in BOOLEAN /\ pool \in Pools
    BY <2>1, RefHere, Depths
  <2>3. RefAt("store", Op(c), call[c][2], committed, answer[c], head, tail, full, pool)
    BY <2>1, <2>2 DEF Inside
  <2>4. head \in Indices /\ tail \in Indices /\ call[c][2] \in Data
    BY <2>1, <2>2, InPool, LabelTells DEF BufferInv
  <2>5. Wrap(head') = Next1(head)
    BY <2>1, <2>2, <2>4, WrapIs
  <2>6. Append(Kept(committed), call[c][2]) =
          Marked(Wrap(head'), tail', pool')
    <3>. DEFINE g == Wrap(head')  p1 == pool'  d == call[c][2]
    <3>0. g = Next1(head) /\ g \in Indices /\ d \in Data
      BY <2>2, <2>4, <2>5, WrapIs
    <3>4. p1 \in Pools /\ p1[head] = d /\ \A i \in Indices \ {head} : p1[i] = pool[i]
      BY <2>1, <2>2, <2>4 DEF Pools, Indices
    <3>. HIDE DEF g, p1, d
    <3>1. Marked(g, tail, p1) = Append(Unmarked(head, tail, pool), d)
      BY <2>2, <2>4, <3>0, <3>4, AppendIs
    <3>2. Kept(committed) = Unmarked(head, tail, pool)
      BY <2>3 DEF RefAt
    <3>3. tail' = tail
      BY <2>1
    <3>. QED BY <3>1, <3>2, <3>3 DEF g, p1, d
  <2>7. RefAt("store_mod", Op(c), call[c][2], committed, answer'[c], head', tail', full', pool')
    BY <2>1, <2>3, <2>6 DEF RefAt
  <2>8. Depth("store_mod") > 0
    BY Depths
  <2>9. DOMAIN answer' = Contexts /\ \A d \in Contexts \ {c} : answer'[d] = answer[d]
    BY <2>1, SameAnswers
  <2>. QED BY <2>1, <2>7, <2>8, <2>9, RefStatement
<1>4. CASE StoreMod(c)
  <2>1. /\ pc[c] = "store_mod" /\ ~Preempted(c) /\ call' = call /\ committed' = committed
        /\ Goto(c, "mark") /\ head' = head % BufferSize /\ UNCHANGED <<tail, full, pool, answer>>
    BY <1>4 DEF StoreMod, At
  <2>2. /\ Inside(c) /\ QueueAt("store_mod", head, tail, full)
        /\ head \in 0 .. BufferSize /\ tail \in 0 .. BufferSize
        /\ full \in BOOLEAN /\ pool \in Pools
    BY <2>1, RefHere, Depths
  <2>3. RefAt("store_mod", Op(c), call[c][2], committed, answer[c], head, tail, full, pool)
    BY <2>1, <2>2 DEF Inside
  <2>4. head' = Wrap(head)
    BY <2>1, <2>2, WrapIs
  <2>7. RefAt("mark", Op(c), call[c][2], committed, answer'[c], head', tail', full', pool')
    BY <2>1, <2>3, <2>4 DEF RefAt
  <2>8. Depth("mark") > 0
    BY Depths
  <2>9. DOMAIN answer' = Contexts /\ \A d \in Contexts \ {c} : answer'[d] = answer[d]
    BY <2>1, SameAnswers
  <2>. QED BY <2>1, <2>7, <2>8, <2>9, RefStatement
<1>5. CASE Mark(c)
  <2>1. /\ pc[c] = "mark" /\ ~Preempted(c) /\ call' = call /\ committed' = committed
        /\ Goto(c, "exit") /\ full' = (full \/ head = tail) /\ UNCHANGED <<head, tail, pool, answer>>
    BY <1>5 DEF Mark, At
  <2>2. /\ Inside(c) /\ QueueAt("mark", head, tail, full)
        /\ head \in 0 .. BufferSize /\ tail \in 0 .. BufferSize
        /\ full \in BOOLEAN /\ pool \in Pools
    BY <2>1, RefHere, Depths
  <2>3. RefAt("mark", Op(c), call[c][2], committed, answer[c], head, tail, full, pool)
    BY <2>1, <2>2 DEF Inside
  <2>4. Op(c) = "push"
    BY <2>1, LabelTells DEF BufferInv
  <2>5. full' = (head = tail)
    BY <2>1, <2>2 DEF QueueAt
  <2>6. Done("push", call[c][2], committed, answer'[c], Elements(head', tail', full', pool'))
    BY <2>1, <2>3, <2>5 DEF Done, RefAt, Marked
  <2>7. RefAt("exit", Op(c), call[c][2], committed, answer'[c], head', tail', full', pool')
    BY <2>1, <2>4, <2>6 DEF RefAt
  <2>8. Depth("exit") > 0
    BY Depths
  <2>9. DOMAIN answer' = Contexts /\ \A d \in Contexts \ {c} : answer'[d] = answer[d]
    BY <2>1, SameAnswers
  <2>. QED BY <2>1, <2>7, <2>8, <2>9, RefStatement
<1>. QED BY <1>1, <1>2, <1>3, <1>4, <1>5

LEMMA RefOthers ==
  ASSUME BufferInv, BufferInv', RefInv, NEW c \in Contexts,
         Take(c) \/ TakeMod(c) \/ Clear(c) \/ Read(c) \/ ZeroHead(c) \/ ZeroTail(c)
  PROVE  RefInv'
<1>1. CASE Take(c)
  <2>1. /\ pc[c] = "take" /\ ~Preempted(c) /\ call' = call /\ committed' = committed
        /\ Goto(c, "take_mod") /\ UNCHANGED <<head, full, pool>>
        /\ tail' = (tail + 1) % CounterRange /\ answer' = [answer EXCEPT ![c] = pool[tail]]
    BY <1>1 DEF Take, At
  <2>2. /\ Inside(c) /\ QueueAt("take", head, tail, full)
        /\ head \in 0 .. BufferSize /\ tail \in 0 .. BufferSize
        /\ full \in BOOLEAN /\ pool \in Pools
    BY <2>1, RefHere, Depths
  <2>3. RefAt("take", Op(c), call[c][2], committed, answer[c], head, tail, full, pool)
    BY <2>1, <2>2 DEF Inside
  <2>4. /\ committed = Elements(head, tail, full, pool) /\ committed # <<>>
        /\ head \in Indices /\ tail \in Indices /\ (full => head = tail)
    BY <2>2, <2>3, InPool DEF RefAt, QueueAt
  <2>5. Head(committed) = pool[tail] /\ Tail(committed) = Unmarked(head, Next1(tail), pool)
    <3>1. Elements(head, tail, full, pool) = <<>> <=> head = tail /\ ~full
      BY <2>2, <2>4, Reads
    <3>2. full \/ head # tail
      BY <2>4, <3>1
    <3>3. /\ Head(Elements(head, tail, full, pool)) = pool[tail]
          /\ Tail(Elements(head, tail, full, pool)) = Unmarked(head, Next1(tail), pool)
      BY <2>2, <2>4, <3>2, TailIs
    <3>. QED BY <2>4, <3>3
  <2>6. Wrap(tail') = Next1(tail) /\ answer'[c] = pool[tail]
    BY <2>1, <2>2, <2>4, WrapIs DEF RefInv
  <2>7. RefAt("take_mod", Op(c), call[c][2], committed, answer'[c], head', tail', full', pool')
    BY <2>1, <2>4, <2>5, <2>6 DEF RefAt
  <2>8. Depth("take_mod") > 0
    BY Depths
  <2>9. DOMAIN answer' = Contexts /\ \A d \in Contexts \ {c} : answer'[d] = answer[d]
    BY <2>1 DEF RefInv
  <2>. QED BY <2>1, <2>7, <2>8, <2>9, RefStatement
<1>2. CASE TakeMod(c)
  <2>1. /\ pc[c] = "take_mod" /\ ~Preempted(c) /\ call' = call /\ committed' = committed
        /\ Goto(c, "clear") /\ tail' = tail % BufferSize /\ UNCHANGED <<head, full, pool, answer>>
    BY <1>2 DEF TakeMod, At
  <2>2. /\ Inside(c) /\ QueueAt("take_mod", head, tail, full)
        /\ head \in 0 .. BufferSize /\ tail \in 0 .. BufferSize
        /\ full \in BOOLEAN /\ pool \in Pools
    BY <2>1, RefHere, Depths
  <2>3. RefAt("take_mod", Op(c), call[c][2], committed, answer[c], head, tail, full, pool)
    BY <2>1, <2>2 DEF Inside
  <2>4. Op(c) = "pop"
    BY <2>1, LabelTells DEF BufferInv
  <2>5. tail' = Wrap(tail)
    BY <2>1, <2>2, WrapIs
  <2>7. RefAt("clear", Op(c), call[c][2], committed, answer'[c], head', tail', full', pool')
    BY <2>1, <2>3, <2>4, <2>5 DEF RefAt
  <2>8. Depth("clear") > 0
    BY Depths
  <2>9. DOMAIN answer' = Contexts /\ \A d \in Contexts \ {c} : answer'[d] = answer[d]
    BY <2>1, SameAnswers
  <2>. QED BY <2>1, <2>7, <2>8, <2>9, RefStatement
<1>3. CASE Clear(c)
  <2>1. /\ pc[c] = "clear" /\ ~Preempted(c) /\ call' = call /\ committed' = committed
        /\ Goto(c, "exit") /\ full' = FALSE /\ UNCHANGED <<head, tail, pool, answer>>
    BY <1>3 DEF Clear, At
  <2>2. /\ Inside(c) /\ QueueAt("clear", head, tail, full)
        /\ head \in 0 .. BufferSize /\ tail \in 0 .. BufferSize
        /\ full \in BOOLEAN /\ pool \in Pools
    BY <2>1, RefHere, Depths
  <2>3. RefAt("clear", Op(c), call[c][2], committed, answer[c], head, tail, full, pool)
    BY <2>1, <2>2 DEF Inside
  <2>4. Op(c) \in {"pop", "reset"} /\ head \in Indices /\ tail \in Indices
    BY <2>1, <2>2, LabelTells, InPool DEF BufferInv
  <2>5. Op(c) = "reset" => Unmarked(head, tail, pool) = <<>>
    <3>1. FALSE \in BOOLEAN
      OBVIOUS
    <3>2. Elements(head, tail, FALSE, pool) = <<>> <=> head = tail /\ ~FALSE
      BY <2>2, <2>4, <3>1, Reads
    <3>. QED BY <2>1, <2>3, <3>2 DEF RefAt, Unmarked
  <2>6. Done(Op(c), call[c][2], committed, answer'[c], Elements(head', tail', full', pool'))
    BY <2>1, <2>3, <2>4, <2>5 DEF Done, RefAt, Unmarked
  <2>7. RefAt("exit", Op(c), call[c][2], committed, answer'[c], head', tail', full', pool')
    BY <2>1, <2>6 DEF RefAt
  <2>8. Depth("exit") > 0
    BY Depths
  <2>9. DOMAIN answer' = Contexts /\ \A d \in Contexts \ {c} : answer'[d] = answer[d]
    BY <2>1, SameAnswers
  <2>. QED BY <2>1, <2>7, <2>8, <2>9, RefStatement
<1>4. CASE Read(c)
  <2>1. /\ pc[c] = "read" /\ ~Preempted(c) /\ call' = call /\ committed' = committed
        /\ Goto(c, "exit") /\ UNCHANGED <<head, tail, full, pool>>
        /\ answer' = [answer EXCEPT ![c] =
             CASE Op(c) = "empty" -> IsEmpty
               [] Op(c) = "full"  -> full
               [] Op(c) = "size"  -> Sizeof(head, tail, full)]
    BY <1>4 DEF Read, At, members
  <2>2. /\ Inside(c) /\ QueueAt("read", head, tail, full)
        /\ head \in 0 .. BufferSize /\ tail \in 0 .. BufferSize
        /\ full \in BOOLEAN /\ pool \in Pools
    BY <2>1, RefHere, Depths
  <2>3. RefAt("read", Op(c), call[c][2], committed, answer[c], head, tail, full, pool)
    BY <2>1, <2>2 DEF Inside
  <2>4. /\ committed = Elements(head, tail, full, pool)
        /\ head \in Indices /\ tail \in Indices /\ Op(c) \in {"empty", "full", "size"}
    BY <2>1, <2>2, <2>3, InPool, LabelTells DEF RefAt, BufferInv
  <2>5. /\ Op(c) = "empty" => answer'[c] = IsEmpty
        /\ Op(c) = "full"  => answer'[c] = full
        /\ Op(c) = "size"  => answer'[c] = Sizeof(head, tail, full)
    BY <2>1, <2>4 DEF RefInv
  <2>6. Done(Op(c), call[c][2], committed, answer'[c], Elements(head', tail', full', pool'))
    <3>1. /\ IsEmpty = (committed = <<>>)
          /\ full = (Len(committed) = BufferSize)
          /\ Sizeof(head, tail, full) = Len(committed)
      BY <2>2, <2>4, Reads DEF IsEmpty
    <3>. QED BY <2>1, <2>4, <2>5, <3>1 DEF Done
  <2>7. RefAt("exit", Op(c), call[c][2], committed, answer'[c], head', tail', full', pool')
    BY <2>1, <2>6 DEF RefAt
  <2>8. Depth("exit") > 0
    BY Depths
  <2>9. DOMAIN answer' = Contexts /\ \A d \in Contexts \ {c} : answer'[d] = answer[d]
    BY <2>1 DEF RefInv
  <2>. QED BY <2>1, <2>7, <2>8, <2>9, RefStatement
<1>5. CASE ZeroHead(c)
  <2>1. /\ pc[c] = "zero_head" /\ ~Preempted(c) /\ call' = call /\ committed' = committed
        /\ Goto(c, "zero_tail") /\ head' = 0 /\ UNCHANGED <<tail, full, pool, answer>>
    BY <1>5 DEF ZeroHead, At
  <2>2. /\ Inside(c) /\ QueueAt("zero_head", head, tail, full)
        /\ head \in 0 .. BufferSize /\ tail \in 0 .. BufferSize
        /\ full \in BOOLEAN /\ pool \in Pools
    BY <2>1, RefHere, Depths
  <2>3. RefAt("zero_head", Op(c), call[c][2], committed, answer[c], head, tail, full, pool)
    BY <2>1, <2>2 DEF Inside
  <2>7. RefAt("zero_tail", Op(c), call[c][2], committed, answer'[c], head', tail', full', pool')
    BY <2>1, <2>3 DEF RefAt
  <2>8. Depth("zero_tail") > 0
    BY Depths
  <2>9. DOMAIN answer' = Contexts /\ \A d \in Contexts \ {c} : answer'[d] = answer[d]
    BY <2>1, SameAnswers
  <2>. QED BY <2>1, <2>7, <2>8, <2>9, RefStatement
<1>6. CASE ZeroTail(c)
  <2>1. /\ pc[c] = "zero_tail" /\ ~Preempted(c) /\ call' = call /\ committed' = committed
        /\ Goto(c, "clear") /\ tail' = 0 /\ UNCHANGED <<head, full, pool, answer>>
    BY <1>6 DEF ZeroTail, At
  <2>2. /\ Inside(c) /\ QueueAt("zero_tail", head, tail, full)
        /\ head \in 0 .. BufferSize /\ tail \in 0 .. BufferSize
        /\ full \in BOOLEAN /\ pool \in Pools
    BY <2>1, RefHere, Depths
  <2>3. RefAt("zero_tail", Op(c), call[c][2], committed, answer[c], head, tail, full, pool)
    BY <2>1, <2>2 DEF Inside
  <2>4. Op(c) = "reset"
    BY <2>1, LabelTells DEF BufferInv
  <2>7. RefAt("clear", Op(c), call[c][2], committed, answer'[c], head', tail', full', pool')
    BY <2>1, <2>3, <2>4 DEF RefAt
  <2>8. Depth("clear") > 0
    BY Depths
  <2>9. DOMAIN answer' = Contexts /\ \A d \in Contexts \ {c} : answer'[d] = answer[d]
    BY <2>1, SameAnswers
  <2>. QED BY <2>1, <2>7, <2>8, <2>9, RefStatement
<1>. QED BY <1>1, <1>2, <1>3, <1>4, <1>5, <1>6

LEMMA RefCall ==
  ASSUME BufferInv, RefInv, NEW c \in Contexts, NEW k \in Calls, Call(c, k)
  PROVE  RefInv'
<1>1. /\ pc[c] = "idle" /\ ~Preempted(c) /\ nest = 0 /\ nest' = 0
      /\ pc' = [pc EXCEPT ![c] = "enter"] /\ answer' = [answer EXCEPT ![c] = Nothing]
      /\ UNCHANGED <<head, tail, full, pool, committed>>
  BY DEF Call, At, Goto, members
<1>2. pc'[c] = "enter" /\ \A d \in Contexts \ {c} : pc'[d] = pc[d] /\ Depth(pc[d]) = 0
  BY <1>1, Alone DEF BufferInv, TypeOK
<1>3. \A d \in Contexts : ~(Depth(pc'[d]) > 0)
  BY <1>2, Depths
<1>. QED BY <1>1, <1>2, <1>3 DEF RefInv

LEMMA RefExit ==
  ASSUME BufferInv, RefInv, NEW c \in Contexts, Exit(c)
  PROVE  RefInv' /\ committed' = Elements(head, tail, full, pool) /\ Inside(c)
<1>1. /\ pc[c] = "exit" /\ ~Preempted(c) /\ nest' = nest - 1
      /\ pc' = [pc EXCEPT ![c] = "idle"] /\ answer' = answer
      /\ UNCHANGED <<head, tail, full, pool>>
  BY DEF Exit, At, Goto, members
<1>2. nest' = 0
  <2>1. nest = Depth(pc[c])
    BY <1>1, Depths DEF BufferInv, SectionInv
  <2>. QED BY <1>1, <2>1, Depths
<1>3. committed' = Elements(head, tail, full, pool)
  BY <1>2 DEF Exit
<1>4. pc'[c] = "idle" /\ \A d \in Contexts \ {c} : pc'[d] = pc[d] /\ Depth(pc[d]) = 0
  BY <1>1, Alone DEF BufferInv, TypeOK
<1>5. \A d \in Contexts : ~(Depth(pc'[d]) > 0)
  BY <1>4, Depths
<1>6. \A d \in Contexts : pc'[d] = "enter" => answer'[d] = Nothing
  BY <1>1, <1>4 DEF RefInv
<1>7. Inside(c)
  BY <1>1, RefHere, Depths
<1>. QED BY <1>1, <1>3, <1>5, <1>6, <1>7 DEF RefInv

LEMMA RefInvariant == Spec => [](BufferInv /\ RefInv)
<1>1. Init => RefInv
  <2>. SUFFICES ASSUME Init PROVE RefInv
    OBVIOUS
  <2>1. \A c \in Contexts : pc[c] = "idle"
    BY DEF Init
  <2>2. head \in Indices /\ tail \in Indices /\ pool \in Pools /\ full = FALSE /\ head = tail
    BY BufferAssumption DEF Init, Indices, Pools
  <2>3. Unmarked(head, tail, pool) = <<>>
    <3>1. FALSE \in BOOLEAN
      OBVIOUS
    <3>2. Elements(head, tail, FALSE, pool) = <<>> <=> head = tail /\ ~FALSE
      BY <2>2, <3>1, Reads
    <3>. QED BY <2>2, <3>2 DEF Unmarked
  <2>4. committed = Elements(head, tail, full, pool)
    BY <2>2, <2>3 DEF Init, Unmarked
  <2>5. DOMAIN answer = Contexts
    BY DEF Init
  <2>. QED BY <2>1, <2>4, <2>5, Depths DEF RefInv
<1>2. BufferInv /\ BufferInv' /\ RefInv /\ [Next]_vars => RefInv'
  <2>. SUFFICES ASSUME BufferInv, BufferInv', RefInv, [Next]_vars PROVE RefInv'
    OBVIOUS
  <2>1. ASSUME NEW c \in Contexts, Step(c) PROVE RefInv'
    BY <2>1, RefEnter, RefTestExit, RefPush, RefOthers, RefExit DEF Step
  <2>2. ASSUME NEW c \in Contexts, NEW k \in Calls, Call(c, k) PROVE RefInv'
    BY <2>2, RefCall
  <2>3. CASE UNCHANGED vars
    BY <2>3 DEF vars, members, RefInv, Inside, Op
  <2>. QED BY <2>1, <2>2, <2>3 DEF Next
<1>. QED BY <1>1, <1>2, BufferInvariant, PTL DEF Spec

-----------------------------------------------------------------------------
(***************************************************************************)
(* The steps of the queue.                                                 *)
(***************************************************************************)

\* The refinement mapping hides an answer until its call returns.
Answers == [c \in Contexts |-> IF call[c] = NoCall THEN answer[c] ELSE Nothing]

LEMMA MapsCall ==
  ASSUME BufferInv, RefInv, NEW c \in Contexts, NEW k \in Calls, Call(c, k)
  PROVE  Queue!Invoke(c)
<1>1. /\ pc[c] = "idle" /\ call' = [call EXCEPT ![c] = k]
      /\ answer' = [answer EXCEPT ![c] = Nothing] /\ committed' = committed
  BY DEF Call, At
<1>2. call[c] = NoCall /\ k # NoCall
  BY <1>1, BufferAssumption DEF BufferInv, TypeOK
<1>3. k \in Queue!Calls
  BY DEF Calls, Operations, Queue!Calls
<1>4. Answers' = [Answers EXCEPT ![c] = Nothing]
  BY <1>1, <1>2 DEF Answers, BufferInv, TypeOK, RefInv
<1>. QED BY <1>1, <1>2, <1>3, <1>4 DEF Queue!Invoke, Answers

\* A statement inside a call is a step of no one's.
LEMMA MapsStatement ==
  ASSUME BufferInv, RefInv, NEW c \in Contexts, Step(c), ~Exit(c)
  PROVE  UNCHANGED <<committed, call, Answers>>
<1>1. /\ pc[c] # "idle" /\ UNCHANGED <<committed, call>>
      /\ \A d \in Contexts \ {c} : answer'[d] = answer[d]
  BY DEF Step, At, Enter, EnterWith, TestEnter, Test, TestExit, TestExitWith, Drop, DropMod,
         Store, StoreMod, Mark, Take, TakeMod, Clear, Read, ZeroHead, ZeroTail, RefInv
<1>2. call[c] # NoCall
  BY <1>1, BufferAssumption DEF BufferInv, TypeOK
<1>. QED BY <1>1, <1>2 DEF Answers

LEMMA MapsExit ==
  ASSUME BufferInv, RefInv, NEW c \in Contexts, Exit(c)
  PROVE  \/ Queue!Push(c) \/ Queue!Pop(c) \/ Queue!Empty(c)
         \/ Queue!Full(c) \/ Queue!Size(c) \/ Queue!Reset(c)
<1>1. /\ pc[c] = "exit" /\ call' = [call EXCEPT ![c] = NoCall] /\ answer' = answer
  BY DEF Exit, At
<1>2. call[c] \in Calls /\ call[c] # NoCall /\ Op(c) \in Operations /\ Op(c) = call[c][1]
  BY <1>1, LabelTells, BufferAssumption DEF BufferInv, Op
<1>3. Done(Op(c), call[c][2], committed, answer[c], committed')
  BY <1>1, RefExit DEF Inside, RefAt
<1>4. Answers' = [Answers EXCEPT ![c] = answer[c]]
  BY <1>1 DEF Answers, BufferInv, TypeOK
<1>5. CASE Op(c) = "push"
  <2>1. committed' = Append(Kept(committed), call[c][2]) /\ answer[c] = Nothing
    BY <1>3, <1>5 DEF Done
  <2>. QED BY <1>1, <1>2, <1>4, <1>5, <2>1
    DEF Queue!Push, Queue!In, Queue!Return, Answers, Kept
<1>6. CASE Op(c) = "pop"
  <2>1. \/ committed = <<>> /\ committed' = committed /\ answer[c] = Nothing
        \/ committed # <<>> /\ committed' = Tail(committed) /\ answer[c] = Head(committed)
    BY <1>3, <1>6 DEF Done
  <2>. QED BY <1>1, <1>2, <1>4, <1>6, <2>1
    DEF Queue!Pop, Queue!In, Queue!Return, Answers
<1>7. CASE Op(c) = "empty"
  <2>1. committed' = committed /\ answer[c] = (committed = <<>>)
    BY <1>3, <1>7 DEF Done
  <2>. QED BY <1>1, <1>2, <1>4, <1>7, <2>1
    DEF Queue!Empty, Queue!In, Queue!Return, Answers
<1>8. CASE Op(c) = "full"
  <2>1. committed' = committed /\ answer[c] = (Len(committed) = BufferSize)
    BY <1>3, <1>8 DEF Done
  <2>. QED BY <1>1, <1>2, <1>4, <1>8, <2>1
    DEF Queue!Full, Queue!In, Queue!Return, Answers
<1>9. CASE Op(c) = "size"
  <2>1. committed' = committed /\ answer[c] = Len(committed)
    BY <1>3, <1>9 DEF Done
  <2>. QED BY <1>1, <1>2, <1>4, <1>9, <2>1
    DEF Queue!Size, Queue!In, Queue!Return, Answers
<1>10. CASE Op(c) = "reset"
  <2>1. committed' = <<>> /\ answer[c] = Nothing
    BY <1>3, <1>10 DEF Done
  <2>. QED BY <1>1, <1>2, <1>4, <1>10, <2>1
    DEF Queue!Reset, Queue!In, Queue!Return, Answers
<1>. QED BY <1>2, <1>5, <1>6, <1>7, <1>8, <1>9, <1>10 DEF Operations

\* Whoever calls what, and is preempted by whom at which statement: the calls
\* behave as if each happened at once, on a bounded queue whose push drops the
\* oldest element when it is full (mbed::CircularBuffer's description).
THEOREM BufferIsFifo == Spec => ActsAsFifo
<1>1. Init => Queue!Init
  BY DEF Init, Queue!Init
<1>2. BufferInv /\ RefInv /\ [Next]_vars => [Queue!Next]_<<committed, call, Answers>>
  <2>. SUFFICES ASSUME BufferInv, RefInv, [Next]_vars
                PROVE  [Queue!Next]_<<committed, call, Answers>>
    OBVIOUS
  <2>1. ASSUME NEW c \in Contexts, Step(c) PROVE [Queue!Next]_<<committed, call, Answers>>
    BY <2>1, MapsStatement, MapsExit DEF Queue!Next
  <2>2. ASSUME NEW c \in Contexts, NEW k \in Calls, Call(c, k) PROVE Queue!Next
    BY <2>2, MapsCall DEF Queue!Next
  <2>3. CASE UNCHANGED vars
    BY <2>3 DEF vars, Answers
  <2>. QED BY <2>1, <2>2, <2>3 DEF Next
<1>. QED BY <1>1, <1>2, RefInvariant, PTL DEF Spec, ActsAsFifo, Queue!Spec, Answers
=============================================================================
