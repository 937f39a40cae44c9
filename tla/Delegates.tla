----------------------------- MODULE Delegates -----------------------------
(***************************************************************************)
(* What mbed::Callback and Ticker promise a program: a Callback is a value, *)
(* the function it calls. Copying one copies that value whole and shares    *)
(* nothing, and the Ticker replaces what it calls in one step, which takes  *)
(* effect while attach_us() is running.                                     *)
(***************************************************************************)
CONSTANTS
  Names,      \* the Callbacks of the program, the parameter of attach_us included
  Functions,  \* what can be attached
  Nothing     \* the function of an empty Callback, not among them

VARIABLES
  value,   \* value[n]: what n calls, for the Callbacks that exist
  ticker   \* what the Ticker calls

Callbacks == DOMAIN value

Init ==
  /\ value = [n \in {} |-> Nothing]
  /\ ticker = Nothing

\* n comes to exist and calls f.
Make(n, f) ==
  /\ n \notin Callbacks
  /\ value' = [m \in Callbacks \cup {n} |-> IF m = n THEN f ELSE value[m]]
  /\ UNCHANGED ticker

Copy(n, m) == m \in Callbacks /\ Make(n, value[m])

Assign(n, m) ==
  /\ {n, m} \subseteq Callbacks
  /\ value' = [value EXCEPT ![n] = value[m]]
  /\ UNCHANGED ticker

Destroy(n) ==
  /\ n \in Callbacks
  /\ value' = [m \in Callbacks \ {n} |-> value[m]]
  /\ UNCHANGED ticker

Attach(n) ==
  /\ n \in Callbacks
  /\ ticker' = value[n]
  /\ UNCHANGED value

Detach ==
  /\ ticker' = Nothing
  /\ UNCHANGED value

Next ==
  \/ \E n \in Names :
       \/ \E f \in Functions \cup {Nothing} : Make(n, f)
       \/ \E m \in Names : Copy(n, m) \/ Assign(n, m)
       \/ Destroy(n) \/ Attach(n)
  \/ Detach

Spec == Init /\ [][Next]_<<value, ticker>>
=============================================================================
