------------------------------ MODULE Scalars ------------------------------
(***************************************************************************)
(* Arithmetic modulo the order of the base point in lib/ed25519/sc.c: a    *)
(* 64-byte digest is reduced, and a product of two numbers and a sum with  *)
(* a third.  A number is a row of 21-bit digits; digits above the twelfth  *)
(* are folded, as 2^252 is a small number modulo the order, which the code *)
(* writes as six digits of either sign.                                    *)
(*                                                                         *)
(* As with the field, the radix and the six digits are constants here.     *)
(***************************************************************************)
EXTENDS Integers, Sequences, SequencesExt

CONSTANTS
  ScalarRadix,   \* 2^21
  Excess,        \* <<666643, 470296, 654183, -997805, 136657, -683901>>
  ScalarInputs,  \* 32-byte numbers
  DigestInputs,  \* 64-byte numbers, as functions of their 24 digits: the last
                 \* has 29 bits where the others have 21
  MaxScalarOps   \* bound: operations in one behaviour

Places == 0..23
Power[i \in 0..12] == IF i = 0 THEN 1 ELSE ScalarRadix * Power[i - 1]

ASSUME ScalarAssumption ==
  /\ ScalarRadix \in Nat \ {0, 1} /\ Excess \in [1..6 -> Int]
  /\ \A n \in ScalarInputs : n \in Nat /\ n < 16 * Power[12]
  /\ \A d \in DigestInputs :
       /\ d \in [Places -> Nat] /\ d[23] < 256 * ScalarRadix
       /\ \A i \in 0..22 : d[i] < ScalarRadix
  /\ MaxScalarOps \in Nat

VARIABLES
  scalar,     \* the twelve digits of the last result
  scalarIs,   \* the number it is to be
  scalarOps

scalarVars == <<scalar, scalarIs, scalarOps>>

\* l = 2^252 + 27742317777372353535851937790883648493: 2^252 less the six.
Order ==
  LET less[i \in 0..6] ==
        IF i = 0 THEN Power[12] ELSE less[i - 1] - Excess[i] * Power[i - 1]
  IN  less[6]

\* The number of a row of digits, modulo the order.
ModOrder(s) ==
  LET from[i \in 0..24] ==
        IF i = 24 THEN 0 ELSE (ScalarRadix * from[i + 1] + s[i]) % Order
  IN  from[0]

\* a * b modulo the order, five bits at a time to stay within TLC's integers.
TimesModOrder(a, b) ==
  LET upto[n \in Nat] ==
        IF n = 0 THEN 0 ELSE (32 * upto[n \div 32] + a * (n % 32)) % Order
  IN  upto[b]

\* The twelve digits of a 32-byte number: the last one is not cut.
DigitsOf(n) ==
  [i \in Places |-> IF i > 11 THEN 0
                    ELSE IF i = 11 THEN n \div Power[11]
                    ELSE (n \div Power[i]) % ScalarRadix]

-----------------------------------------------------------------------------
\* Folds and carries.

\* s[i] times 2^252 is s[i] times the six digits, twelve places lower.
Fold(s, i) ==
  [k \in Places |->
     IF k = i THEN 0
     ELSE IF k \in (i - 12)..(i - 7) THEN s[k] + s[i] * Excess[k - (i - 12) + 1]
     ELSE s[k]]

CarryOf(s, i, c) == [s EXCEPT ![i] = @ - c * ScalarRadix, ![i + 1] = @ + c]

Rounded(s, i) == CarryOf(s, i, (s[i] + ScalarRadix \div 2) \div ScalarRadix)
Floored(s, i) == CarryOf(s, i, s[i] \div ScalarRadix)

\* From 24 digits to twelve that are right but of either sign.
Upper(s) ==
  FoldLeft(Rounded, FoldLeft(Fold, s, <<23, 22, 21, 20, 19, 18>>),
           <<6, 8, 10, 12, 14, 16, 7, 9, 11, 13, 15>>)
Lower(s) ==
  FoldLeft(Rounded, FoldLeft(Fold, s, <<17, 16, 15, 14, 13, 12>>),
           <<0, 2, 4, 6, 8, 10, 1, 3, 5, 7, 9, 11>>)

\* Variant: the first fold at the end, after which a number is negative, is
\* the only one.
CanonicalOnce(s) ==
  FoldLeft(Floored, Fold(s, 12), <<0, 1, 2, 3, 4, 5, 6, 7, 8, 9, 10>>)

\* The twelfth is folded twice: what the first pass leaves may be negative.
Canonical(s) ==
  LET once == FoldLeft(Floored, Fold(s, 12), <<0, 1, 2, 3, 4, 5, 6, 7, 8, 9, 10, 11>>)
  IN  FoldLeft(Floored, Fold(once, 12), <<0, 1, 2, 3, 4, 5, 6, 7, 8, 9, 10>>)

sc_reduce(s) == Canonical(Lower(Upper(s)))

\* a * b + c, with c in the lowest digits.
Convolution(a, b, c) ==
  [k \in Places |->
     LET term[i \in -1..11] ==
           IF i = -1 THEN c[k]
           ELSE term[i - 1] + IF k - i \in 0..11 THEN a[i] * b[k - i] ELSE 0
     IN  term[11]]

\* So that no digit is large before the reduction.
CarriedOnce(s) ==
  FoldLeft(Rounded, s, <<0, 2, 4, 6, 8, 10, 12, 14, 16, 18, 20, 22,
                         1, 3, 5, 7, 9, 11, 13, 15, 17, 19, 21>>)

sc_muladd(a, b, c) == sc_reduce(CarriedOnce(Convolution(a, b, c)))

-----------------------------------------------------------------------------
\* A result is used again, as one of the factors or as what is added.

ScalarInit ==
  /\ \E d \in DigestInputs : scalar = sc_reduce(d) /\ scalarIs = ModOrder(d)
  /\ scalarOps = 0

ScalarNext ==
  /\ scalarOps < MaxScalarOps /\ scalarOps' = scalarOps + 1
  /\ \E n, m \in ScalarInputs :
       \/ /\ scalar' = sc_muladd(scalar, DigitsOf(n), DigitsOf(m))
          /\ scalarIs' = (TimesModOrder(scalarIs, n) + m) % Order
       \/ /\ scalar' = sc_muladd(DigitsOf(n), DigitsOf(m), scalar)
          /\ scalarIs' = (TimesModOrder(n % Order, m) + scalarIs) % Order

-----------------------------------------------------------------------------
\* Properties.

(* A result is the number it is to be, below the order and in digits: the
   same number always has the same 32 bytes.  The last digit reaches the radix
   for the few numbers from 2^252 up to the order. *)
ScalarsRight ==
  /\ \A i \in 0..10 : scalar[i] \in 0..(ScalarRadix - 1)
  /\ scalar[11] \in 0..ScalarRadix
  /\ \A i \in 12..23 : scalar[i] = 0
  /\ LET upto[i \in -1..11] ==
           IF i = -1 THEN 0 ELSE upto[i - 1] + scalar[i] * Power[i]
     IN  upto[11] = scalarIs

=============================================================================
