------------------------------ MODULE Fractions ------------------------------
(***************************************************************************)
(* Exact fractions in lowest terms, for the odds and curves that the code  *)
(* keeps in floating point.  A denominator is positive.                    *)
(***************************************************************************)
EXTENDS Integers

AbsOf(n) == IF n < 0 THEN -n ELSE n

RECURSIVE Gcd(_, _)
Gcd(a, b) == IF b = 0 THEN a ELSE Gcd(b, a % b)

DividedBy(g, n, d) == [n |-> IF n < 0 THEN -(AbsOf(n) \div g) ELSE n \div g, d |-> d \div g]
Frac(n, d) == DividedBy(Gcd(AbsOf(n), d), n, d)

Zero == [n |-> 0, d |-> 1]
Unit == [n |-> 1, d |-> 1]

Plus(p, q) == Frac(p.n * q.d + q.n * p.d, p.d * q.d)
Minus(p, q) == Frac(p.n * q.d - q.n * p.d, p.d * q.d)
Times(p, q) == Frac(p.n * q.n, p.d * q.d)
Over(p, q) == Frac(IF q.n < 0 THEN -p.n * q.d ELSE p.n * q.d, p.d * AbsOf(q.n))
Rest(p) == Minus(Unit, p)

Leq(p, q) == p.n * q.d <= q.n * p.d
Clamp(p) == IF Leq(p, Zero) THEN Zero ELSE IF Leq(Unit, p) THEN Unit ELSE p
=============================================================================
