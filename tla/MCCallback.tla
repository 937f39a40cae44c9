----------------------------- MODULE MCCallback -----------------------------
EXTENDS Callback

\* A static function, a function object, a function bound to an argument and a
\* method: 1 and 2 are code, 5 is data.
SomeFunctions ==
  {[kind |-> "static", words |-> <<1>>], [kind |-> "functor", words |-> <<5>>],
   [kind |-> "bound", words |-> <<2, 5>>], [kind |-> "method", words |-> <<2, 0, 5>>]}
=============================================================================
