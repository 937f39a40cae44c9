---------------------------- MODULE Polynomials -----------------------------
(***************************************************************************)
(* Words, bytes and polynomials over GF(2) are the same thing here: the set *)
(* of the positions of the bits that are 1.                                 *)
(***************************************************************************)
EXTENDS Integers

Below(n) == 0 .. n - 1

Xor(p, q) == (p \ q) \cup (q \ p)

Shift(p, n) == {e + n : e \in p}

\* The n low bits in the opposite order.
Mirror(p, n) == {n - 1 - e : e \in p \cap Below(n)}

\* Schoolbook long division: what is left of the dividend, a polynomial of
\* degree below n, when the generator x^width + poly is subtracted wherever
\* the leading term allows it.
Remainder(dividend, n, width, poly) ==
  LET generator == {width} \cup (poly \cap Below(width))
      rest[d \in width .. n] ==
        IF d = n THEN dividend
        ELSE LET r == rest[d + 1]
             IN  IF d \in r THEN Xor(r, Shift(generator, d - width)) ELSE r
  IN  IF n <= width THEN dividend ELSE rest[width]
=============================================================================
