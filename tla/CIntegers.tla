----------------------------- MODULE CIntegers -----------------------------
(* Integer division as C++ defines it. *)
EXTENDS Integers

\* Division in C: towards zero, and the remainder has the dividend's sign.
CDiv(a, b) == IF a < 0 THEN -((-a) \div b) ELSE a \div b
CMod(a, b) == a - b * CDiv(a, b)

=============================================================================
