--------------------------- MODULE FieldElements ---------------------------
(***************************************************************************)
(* Arithmetic modulo p = 2^255 - 19 in lib/ed25519/fe.c.  A number is ten  *)
(* limbs, of alternately 26 and 25 bits and of either sign; many tens of   *)
(* limbs stand for the same number.  Products are folded (2^255 = 19) and  *)
(* carried, so that limbs get small again; sums are not.                   *)
(*                                                                         *)
(* The radices and what is folded are constants here: nothing in the code  *)
(* but its literals depends on them, and small ones can be checked.  Words *)
(* are wide enough in the code's bounds (1.65*2^26 for a factor), which    *)
(* the number of uncarried sums stands for.                                *)
(***************************************************************************)
EXTENDS Integers, SequencesExt

CONSTANTS
  OddRadix,     \* radix of the odd limbs, 2^25; the even ones have twice that
  FOLD,         \* 19
  CURVE,        \* 121666
  LoadShift,    \* factors of the shifts in fe_frombytes: 1, 2^6, 2^5, 2^3,
                \* 2^2, 1, 2^7, 2^5, 2^4, 2^2; the last, 1, ends the number
  InputValues,  \* numbers that are read from bytes
  Moduli,       \* what the exponents are checked modulo
  MaxFieldOps   \* bound: operations in one behaviour

ASSUME FieldAssumption ==
  /\ OddRadix \in Nat \ {0} /\ OddRadix % 2 = 0
  /\ FOLD \in Nat /\ FOLD < OddRadix
  /\ CURVE \in Nat
  /\ InputValues \subseteq Nat /\ Moduli \subseteq Nat \ {0}
  /\ MaxFieldOps \in Nat

VARIABLES
  fe,       \* the limbs of two elements
  meant,    \* the numbers modulo p that they are to be
  sums,     \* how many sums deep since the last product: how large limbs
            \* are (those of fe_mul121666 are carried once, and as large)
  fieldOps  \* operations so far

fieldVars == <<fe, meant, sums, fieldOps>>

Limbs == 0..9
Radix(i) == IF i % 2 = 0 THEN 2 * OddRadix ELSE OddRadix
Weight[i \in 0..10] == IF i = 0 THEN 1 ELSE Weight[i - 1] * Radix(i - 1)
Prime == Weight[10] - FOLD

\* The number that limbs stand for, modulo p.
NumberOf(h) ==
  LET from[i \in 0..10] ==
        IF i = 10 THEN 0 ELSE (from[i + 1] * Radix(i) + h[i]) % Prime
  IN  from[0]

\* a * b modulo p, five bits at a time to stay within TLC's integers.
TimesMod(a, b) ==
  LET upto[n \in Nat] ==
        IF n = 0 THEN 0 ELSE (32 * upto[n \div 32] + a * (n % 32)) % Prime
  IN  upto[b]

-----------------------------------------------------------------------------
\* Carries.

\* Variant: what leaves the last limb is not folded.
CarriedUnfolded(h, i, c) ==
  [h EXCEPT ![i] = @ - c * Radix(i), ![(i + 1) % 10] = @ + c]

Carried(h, i, c) ==
  [h EXCEPT ![i] = @ - c * Radix(i),
            ![(i + 1) % 10] = @ + IF i = 9 THEN FOLD * c ELSE c]

\* To the nearest multiple of the radix.
Carry(h, i) == Carried(h, i, (h[i] + Radix(i) \div 2) \div Radix(i))

\* After a product, and after a number is read or multiplied by a small one.
CarryProduct(h) == FoldLeft(Carry, h, <<0, 4, 1, 5, 2, 6, 3, 7, 4, 8, 9, 0>>)
CarryOnce(h) == FoldLeft(Carry, h, <<9, 1, 3, 5, 7, 0, 2, 4, 6, 8>>)

-----------------------------------------------------------------------------
\* Operations on limbs.

fe_0 == [i \in Limbs |-> 0]
fe_1 == [fe_0 EXCEPT ![0] = 1]
fe_add(f, g) == [i \in Limbs |-> f[i] + g[i]]
fe_sub(f, g) == [i \in Limbs |-> f[i] - g[i]]
fe_neg(f) == [i \in Limbs |-> -f[i]]
fe_cmov(f, g, b) == IF b = 1 THEN g ELSE f

SumOver(term(_)) ==
  LET upto[i \in -1..9] == IF i = -1 THEN 0 ELSE upto[i - 1] + term(i)
  IN  upto[9]

\* What limbs i and j contribute: the weights of two odd limbs have a factor
\* 2 to spare, and those beyond the tenth fold.
Cross(f, g, i, j) ==
  f[i] * g[j] * (IF i % 2 = 1 /\ j % 2 = 1 THEN 2 ELSE 1)
              * (IF i + j >= 10 THEN FOLD ELSE 1)

Product(f, g) ==
  [k \in Limbs |-> LET term(i) == Cross(f, g, i, (k - i) % 10)
                   IN  SumOver(term)]

fe_mul(f, g) == CarryProduct(Product(f, g))

\* Each pair of different limbs once, doubled.
Square(f) ==
  [k \in Limbs |->
     LET term(i) == LET j == (k - i) % 10 IN
                    IF i > j THEN 0
                    ELSE IF i = j THEN Cross(f, f, i, i)
                    ELSE 2 * Cross(f, f, i, j)
     IN  SumOver(term)]

fe_sq(f) == CarryProduct(Square(f))

fe_sq2(f) == LET h == Square(f) IN CarryProduct(fe_add(h, h))

fe_mul121666(f) == CarryOnce([i \in Limbs |-> CURVE * f[i]])

-----------------------------------------------------------------------------
\* Bytes.

ASSUME LoadAssumption ==
  /\ LoadShift \in [0..10 -> Nat \ {0}] /\ LoadShift[0] = 1 /\ LoadShift[10] = 1
  /\ \A i \in Limbs : (Radix(i) * LoadShift[i + 1]) % LoadShift[i] = 0

\* The loads are of whole bytes: most start above the weight of their limb,
\* and reach into the next.
Cut(i) == Weight[i] * LoadShift[i]

\* The top bit is not read.
fe_frombytes(n) ==
  CarryOnce([i \in Limbs |-> ((n % Cut(i + 1)) \div Cut(i)) * LoadShift[i]])

\* Variant: divides where the code shifts, towards zero.
QuotientTruncated(h) ==
  LET quotient(a, b) == IF a < 0 THEN -((-a) \div b) ELSE a \div b
      through[i \in -1..9] ==
        IF i = -1 THEN quotient(FOLD * h[9] + OddRadix \div 2, OddRadix)
        ELSE quotient(h[i] + through[i - 1], Radix(i))
  IN  through[9]

\* q is h divided by p, and the limbs of h - p q are made digits.
Quotient(h) ==
  LET through[i \in -1..9] ==
        IF i = -1 THEN (FOLD * h[9] + OddRadix \div 2) \div OddRadix
        ELSE (h[i] + through[i - 1]) \div Radix(i)
  IN  through[9]

CarryDown(g, i) ==
  LET c == g[i] \div Radix(i) IN
  IF i = 9 THEN [g EXCEPT ![9] = @ - c * Radix(9)] ELSE Carried(g, i, c)

Digits(h) ==
  FoldLeft(CarryDown, [h EXCEPT ![0] = @ + FOLD * Quotient(h)],
           <<0, 1, 2, 3, 4, 5, 6, 7, 8, 9>>)

fe_tobytes(h) == LET g == Digits(h)
                     term(i) == g[i] * Weight[i]
                 IN  SumOver(term)

fe_isnegative(f) == fe_tobytes(f) % 2
fe_isnonzero(f) == fe_tobytes(f) # 0

\* What fe_tobytes takes, from its comment: |h| <= p, and the lower limbs
\* weigh so little against the last that the estimate of q is not off by one.
Below9(h) == LET term(i) == IF i = 9 THEN 0 ELSE h[i] * Weight[i] IN SumOver(term)
Writable(h) ==
  /\ LET room == Weight[10] - 2 * FOLD * FOLD
     IN  -room < 2 * FOLD * Below9(h) /\ 2 * FOLD * Below9(h) < room
  /\ Below9(h) + h[9] * Weight[9] \in -Prime..Prime

-----------------------------------------------------------------------------
\* Powers.

\* Exponents modulo m: n squarings double one n times, a product adds two.
Squared(e, n, m) ==
  LET pow[k \in 0..n] ==
        IF k = 0 THEN 1
        ELSE IF k % 2 = 1 THEN (2 * pow[k - 1]) % m
        ELSE LET half == pow[k \div 2] IN (half * half) % m
  IN  (e * pow[n]) % m
Mul(a, b, m) == (a + b) % m

\* The exponents 9, 11 and 2^250 - 1, up to which the two functions agree.
Z9(m) == Mul(1, Squared(1, 3, m), m)
Z11(m) == Mul(Squared(1, 1, m), Z9(m), m)
Ones(m) ==
  LET ones5 == Mul(Z9(m), Squared(Z11(m), 1, m), m)
      ones10 == Mul(Squared(ones5, 5, m), ones5, m)
      ones20 == Mul(Squared(ones10, 10, m), ones10, m)
      ones40 == Mul(Squared(ones20, 20, m), ones20, m)
      ones50 == Mul(Squared(ones40, 10, m), ones10, m)
      ones100 == Mul(Squared(ones50, 50, m), ones50, m)
      ones200 == Mul(Squared(ones100, 100, m), ones100, m)
  IN  Mul(Squared(ones200, 50, m), ones50, m)

fe_invert(m) == Mul(Squared(Ones(m), 5, m), Z11(m), m)
fe_pow22523(m) == Mul(Squared(Ones(m), 2, m), 1, m)

-----------------------------------------------------------------------------
\* Any calls whose arguments are as the comments of fe.c demand.

Elements == {"f", "g"}

FieldInit ==
  /\ \E v \in [Elements -> InputValues] :
       /\ fe = [x \in Elements |-> fe_frombytes(v[x])]
       /\ meant = [x \in Elements |-> (v[x] % Weight[10]) % Prime]
  /\ sums = [x \in Elements |-> 0]
  /\ fieldOps = 0

Becomes(h, n, depth) ==
  /\ fe' = [fe EXCEPT !["f"] = h]
  /\ meant' = [meant EXCEPT !["f"] = n % Prime]
  /\ sums' = [sums EXCEPT !["f"] = depth]

Swap(of, b) ==
  [x \in Elements |-> IF b = 1 THEN of[CHOOSE y \in Elements : y # x] ELSE of[x]]

FieldNext ==
  LET f == fe["f"]   g == fe["g"]
      mf == meant["f"]   mg == meant["g"]
      deeper == sums["f"] + sums["g"] + 1
  IN
  /\ fieldOps < MaxFieldOps /\ fieldOps' = fieldOps + 1
  /\ \/ deeper <= 2 /\ Becomes(fe_add(f, g), mf + mg, deeper)
     \/ deeper <= 2 /\ Becomes(fe_sub(f, g), mf - mg, deeper)
     \/ Becomes(fe_neg(f), -mf, sums["f"])
     \/ Becomes(fe_mul(f, g), TimesMod(mf, mg), 0)
     \/ Becomes(fe_sq(f), TimesMod(mf, mf), 0)
     \/ Becomes(fe_sq2(f), 2 * TimesMod(mf, mf), 0)
     \/ sums["f"] <= 1 /\ Becomes(fe_mul121666(f), TimesMod(mf, CURVE), 1)
     \/ \E b \in 0..1 :
          \/ Becomes(fe_cmov(f, g, b), IF b = 1 THEN mg ELSE mf,
                     sums[IF b = 1 THEN "g" ELSE "f"])
          \/ /\ fe' = Swap(fe, b) /\ meant' = Swap(meant, b)
             /\ sums' = Swap(sums, b)
     \/ Becomes(fe_0, 0, 0) \/ Becomes(fe_1, 1, 0)

-----------------------------------------------------------------------------
\* Properties.

(* Whatever calls of fe.c are made, the ten limbs of an element, of either sign
   and carried or not, stand for the number modulo p that it is meant to be. *)
ResiduesRight == \A x \in Elements : NumberOf(fe[x]) = meant[x]

(* What comes from a product can be written, and fe_tobytes writes the one
   representative below p, with its own sign and test for zero. *)
ElementsRight ==
  \A x \in Elements :
    /\ sums[x] = 0 => Writable(fe[x])
    /\ Writable(fe[x]) =>
         /\ fe_tobytes(fe[x]) = meant[x]
         /\ \A i \in Limbs : Digits(fe[x])[i] \in 0..(Radix(i) - 1)
         /\ fe_isnegative(fe[x]) = meant[x] % 2
         /\ fe_isnonzero(fe[x]) = (meant[x] # 0)

(* The chain of squarings and products of fe_invert raises to p - 2, that of
   fe_pow22523 to (p - 5) / 8: modulo enough numbers that they are equal. *)
PowersRight ==
  \A m \in Moduli :
    /\ fe_invert(m) = (Squared(1, 255, m) - 21) % m
    /\ fe_pow22523(m) = (Squared(1, 252, m) - 3) % m

=============================================================================
