------------------------------- MODULE Field -------------------------------
(***************************************************************************)
(* Exact arithmetic in place of the doubles of the code: numbers are the   *)
(* residues of a prime.  What an identity of formulas says of doubles up   *)
(* to rounding it says of residues exactly, and a wrong sign, factor or    *)
(* index shows.  There is no order among residues: what the code compares  *)
(* is an integer.                                                          *)
(*                                                                         *)
(* A prime of the form 4k + 3, so that -1 is no square and complex numbers *)
(* can be divided by.                                                      *)
(***************************************************************************)
EXTENDS Integers, Sequences

LOCAL INSTANCE SequencesExt

CONSTANT Prime

ASSUME PrimeAssumption == Prime \in Nat /\ Prime > 3 /\ Prime % 4 = 3 /\ Prime < 46341

Plus(a, b) == (a + b) % Prime
Minus(a, b) == (a - b) % Prime
Times(a, b) == ((a % Prime) * (b % Prime)) % Prime

RECURSIVE Power(_, _)
Power(a, n) ==
  IF n = 0 THEN 1
  ELSE LET half == Power(a, n \div 2)
       IN  IF n % 2 = 0 THEN Times(half, half) ELSE Times(Times(half, half), a % Prime)

(* The inverse of every number but zero, which is its own.                  *)
Reciprocals == <<>> \o [a \in 1..Prime |-> Power(a - 1, Prime - 2)]

Reciprocal(a) == Reciprocals[(a % Prime) + 1]

(* Nothing is divided by zero where it matters.                             *)
Over(a, b) == Times(a, Reciprocal(b))

Sum(numbers) == FoldLeft(Plus, 0, numbers)

-----------------------------------------------------------------------------
(* Complex numbers, as pairs like those of the code.                        *)
Complex(re, im) == [real |-> re % Prime, imag |-> im % Prime]

One == Complex(1, 0)

Conjugate(z) == Complex(z.real, -z.imag)

ZPlus(y, z) == Complex(y.real + z.real, y.imag + z.imag)

ZMinus(y, z) == Complex(y.real - z.real, y.imag - z.imag)

ZTimes(y, z) == Complex(y.real * z.real - y.imag * z.imag, y.imag * z.real + y.real * z.imag)

Scaled(a, z) == Complex(a * z.real, a * z.imag)

(* The square of the modulus                                                *)
Norm(z) == (z.real * z.real + z.imag * z.imag) % Prime

ZOver(y, z) == Scaled(Reciprocal(Norm(z)), ZTimes(y, Conjugate(z)))

(* Of cos and sin: those of n times the angle, which may be negative.       *)
RECURSIVE Turned(_, _)
Turned(z, n) ==
  IF n < 0 THEN Turned(Conjugate(z), -n)
  ELSE IF n = 0 THEN One
  ELSE LET half == Turned(z, n \div 2)
       IN  IF n % 2 = 0 THEN ZTimes(half, half) ELSE ZTimes(ZTimes(half, half), z)

Product(zs) == FoldLeft(ZTimes, One, zs)
=============================================================================
