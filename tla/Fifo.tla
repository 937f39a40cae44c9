-------------------------------- MODULE Fifo --------------------------------
(***************************************************************************)
(* What mbed::CircularBuffer promises its callers: a bounded queue on      *)
(* which every call takes effect at one moment between its start and its   *)
(* return, whoever else is calling.  Pushing to a full queue drops its     *)
(* oldest element.                                                         *)
(***************************************************************************)
EXTENDS Naturals, Sequences

CONSTANTS
  Callers,    \* the contexts that call the buffer
  Data,       \* the elements
  Capacity,   \* BufferSize
  NoCall,     \* call[c] when c is in no call
  Nothing     \* the answer of push, reset and a pop that found nothing

VARIABLES
  queue,      \* the elements, oldest first
  call,       \* call[c]: the operation c is in and its argument
  answer      \* answer[c]: what the last call of c returned

Calls == ({"push"} \X Data)
           \cup ({"pop", "empty", "full", "size", "reset"} \X {Nothing})

Init ==
  /\ queue = <<>>
  /\ call = [c \in Callers |-> NoCall]
  /\ answer = [c \in Callers |-> Nothing]

Invoke(c) ==
  /\ call[c] = NoCall
  /\ \E k \in Calls : call' = [call EXCEPT ![c] = k]
  /\ answer' = [answer EXCEPT ![c] = Nothing]
  /\ UNCHANGED queue

Return(c, a, q) ==
  /\ queue' = q
  /\ answer' = [answer EXCEPT ![c] = a]
  /\ call' = [call EXCEPT ![c] = NoCall]

In(c, op) == call[c] # NoCall /\ call[c][1] = op

Push(c) ==
  /\ In(c, "push")
  /\ LET kept == IF Len(queue) = Capacity THEN Tail(queue) ELSE queue
     IN  Return(c, Nothing, Append(kept, call[c][2]))

Pop(c) ==
  /\ In(c, "pop")
  /\ \/ queue = <<>> /\ Return(c, Nothing, queue)
     \/ queue # <<>> /\ Return(c, Head(queue), Tail(queue))

Empty(c) == In(c, "empty") /\ Return(c, queue = <<>>, queue)
Full(c)  == In(c, "full")  /\ Return(c, Len(queue) = Capacity, queue)
Size(c)  == In(c, "size")  /\ Return(c, Len(queue), queue)
Reset(c) == In(c, "reset") /\ Return(c, Nothing, <<>>)

Next ==
  \E c \in Callers :
    \/ Invoke(c)
    \/ Push(c) \/ Pop(c) \/ Empty(c) \/ Full(c) \/ Size(c) \/ Reset(c)

Spec == Init /\ [][Next]_<<queue, call, answer>>
=============================================================================
