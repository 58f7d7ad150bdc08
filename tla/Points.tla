------------------------------- MODULE Points -------------------------------
(***************************************************************************)
(* Points of the curve -x^2 + y^2 = 1 + d x^2 y^2 in lib/ed25519/ge.c:     *)
(* sums without division, bytes, and the multiples of points that keys and *)
(* signatures are made of.  Numbers are those of a field (FieldElements);  *)
(* the field and the length of scalars are constants, so that a small      *)
(* curve of the same kind can be checked.                                  *)
(***************************************************************************)
EXTENDS Integers, FiniteSets, SequencesExt

CONSTANTS
  Field,      \* number of elements, a prime that is 5 modulo 8
  CurveD,     \* d, not a square
  RootM1,     \* the square root of -1
  Curve24,    \* 121666: 1 / (1 + d)
  Base,       \* the base point, [x, y]
  BaseOrder,  \* its order
  Nibbles     \* length of a scalar in half bytes, 64

ASSUME PointsAssumption ==
  /\ Field \in Nat \ {0} /\ Field % 8 = 5
  /\ (RootM1 * RootM1 + 1) % Field = 0
  /\ (Curve24 * (1 + CurveD)) % Field = 1
  /\ BaseOrder \in Nat \ {0} /\ Nibbles \in Nat \ {0} /\ Nibbles % 2 = 0

Bits == 4 * Nibbles

Raised(z, n) ==
  LET to[k \in Nat] ==
        IF k = 0 THEN 1
        ELSE LET half == to[k \div 2]
                 even == (half * half) % Field
             IN  IF k % 2 = 0 THEN even ELSE (even * z) % Field
  IN  to[n]

Reciprocal(z) == Raised(z, Field - 2)

-----------------------------------------------------------------------------
\* Reference: points with two coordinates, the sum with divisions.

Zero == [x |-> 0, y |-> 1]
Negated(P) == [P EXCEPT !.x = (-@) % Field]

Plus(P, Q) ==
  LET k == (((CurveD * P.x * Q.x) % Field) * P.y * Q.y) % Field IN
  [x |-> ((P.x * Q.y + Q.x * P.y) * Reciprocal(1 + k)) % Field,
   y |-> ((P.y * Q.y + P.x * Q.x) * Reciprocal((1 - k) % Field)) % Field]

Times(n, P) ==
  LET to[k \in Nat] ==
        IF k = 0 THEN Zero
        ELSE LET half == to[k \div 2]
                 even == Plus(half, half)
             IN  IF k % 2 = 0 THEN even ELSE Plus(even, P)
  IN  to[n]

Encoded(P) == [y |-> P.y, sign |-> P.x % 2]

-----------------------------------------------------------------------------
\* Sums.  A point is kept as [X, Y, Z, T] with x = X/Z, y = Y/Z, xy = T/Z.
\* What a sum leaves has x = X/Z and y = Y/T instead.

ge_p3_0 == [X |-> 0, Y |-> 1, Z |-> 1, T |-> 0]

ge_p1p1_to_p3(r) == [X |-> (r.X * r.T) % Field, Y |-> (r.Y * r.Z) % Field,
                     Z |-> (r.Z * r.T) % Field, T |-> (r.X * r.Y) % Field]

\* The other operand is ready made: y + x, y - x, 2 d x y, and z.
ge_p3_to_cached(p) ==
  [plus |-> (p.Y + p.X) % Field, minus |-> (p.Y - p.X) % Field,
   t2d |-> (p.T * 2 * CurveD) % Field, z |-> p.Z]
Precomputed(P) ==
  [plus |-> (P.y + P.x) % Field, minus |-> (P.y - P.x) % Field,
   t2d |-> (P.x * P.y * 2 * CurveD) % Field, z |-> 1]

Combined(p, plus, minus, q) ==
  LET A == (p.Y + p.X) * plus   B == (p.Y - p.X) * minus
      C == q.t2d * p.T          D == 2 * p.Z * q.z
  IN  [X |-> (A - B) % Field, Y |-> (A + B) % Field,
       Z |-> (D + C) % Field, T |-> (D - C) % Field]

\* ge_madd is the same with z = 1.
ge_add(p, q) == Combined(p, q.plus, q.minus, q)

\* Variant: the two coordinates that change places stay.
ge_subUnswapped(p, q) == Combined(p, q.minus, q.plus, q)

ge_sub(p, q) ==
  LET r == Combined(p, q.minus, q.plus, q) IN [r EXCEPT !.Z = r.T, !.T = r.Z]

\* Does not look at T.
ge_p2_dbl(p) ==
  LET XX == p.X * p.X   YY == p.Y * p.Y IN
  [X |-> ((p.X + p.Y) * (p.X + p.Y) - (YY + XX)) % Field,
   Y |-> (YY + XX) % Field,
   Z |-> (YY - XX) % Field,
   T |-> (2 * p.Z * p.Z - (YY - XX)) % Field]

Double(p) == ge_p1p1_to_p3(ge_p2_dbl(p))
Add(p, q) == ge_p1p1_to_p3(ge_add(p, q))

-----------------------------------------------------------------------------
\* Bytes.

ge_p3_tobytes(p) ==
  LET recip == Reciprocal(p.Z) IN
  [y |-> (p.Y * recip) % Field, sign |-> ((p.X * recip) % Field) % 2]

\* The point with that y and the other sign, if there is one.
ge_frombytes_negate_vartime(s) ==
  LET u == (s.y * s.y - 1) % Field
      v == (CurveD * s.y * s.y + 1) % Field
      v3 == (((v * v) % Field) * v) % Field
      uv7 == (((((v3 * v3) % Field) * v) % Field) * u) % Field
      x0 == (((Raised(uv7, (Field - 5) \div 8) * v3) % Field) * u) % Field
      vxx == (((x0 * x0) % Field) * v) % Field
      x1 == IF vxx = u THEN x0 ELSE (x0 * RootM1) % Field
      x == IF x1 % 2 = s.sign THEN (-x1) % Field ELSE x1
  IN  [found |-> vxx = u \/ (vxx + u) % Field = 0,
       point |-> [X |-> x, Y |-> s.y, Z |-> 1, T |-> (x * s.y) % Field]]

-----------------------------------------------------------------------------
\* Multiples of the base point, from a table of 16^2i B, ..., 8 * 16^2i B.

\* Digits from -8 to 8, by carrying what is above.
SignedNibbles(a) ==
  LET step(s, i) ==
        LET e == ((a \div 16^i) % 16) + s.carry
            c == IF i = Nibbles - 1 THEN 0 ELSE (e + 8) \div 16
        IN  [carry |-> c, digits |-> Append(s.digits, e - 16 * c)]
  IN  FoldLeft(step, [carry |-> 0, digits |-> <<>>],
               [i \in 1..Nibbles |-> i - 1]).digits

base(pos, k) == Precomputed(Times(k, Times(256^pos, Base)))

select(pos, b) ==
  LET t == IF b = 0 THEN [plus |-> 1, minus |-> 1, t2d |-> 0, z |-> 1]
           ELSE base(pos, IF b < 0 THEN -b ELSE b)
  IN  IF b < 0 THEN [t EXCEPT !.plus = t.minus, !.minus = t.plus, !.t2d = (-@) % Field]
      ELSE t

\* The odd digits, four doublings, the even digits.
ge_scalarmult_base(a) ==
  LET e == SignedNibbles(a)
      add(h, i) == Add(h, select(i \div 2, e[i + 1]))
      odd == FoldLeft(add, ge_p3_0, [i \in 1..(Nibbles \div 2) |-> 2 * i - 1])
      shifted == Double(Double(Double(Double(odd))))
  IN  FoldLeft(add, shifted, [i \in 1..(Nibbles \div 2) |-> 2 * i - 2])

-----------------------------------------------------------------------------
\* a A + b B, from odd digits far apart.

\* The bits of a, where each 1 takes in as many of the six above it as keep
\* it from -15 to 15: a bit is added, or subtracted and carried on.
Absorb(s, i, b) ==
  LET w == s.r[i + b] * 2^b IN
  IF ~s.more \/ s.r[i + b] = 0 THEN s
  ELSE IF s.r[i] + w <= 15 THEN [s EXCEPT !.r[i] = @ + w, !.r[i + b] = 0]
  ELSE IF s.r[i] - w >= -15
  THEN LET free == {k \in (i + b)..(Bits - 1) : s.r[k] = 0}
           end == IF free = {} THEN Bits ELSE CHOOSE k \in free : \A j \in free : k <= j
       IN  [s EXCEPT !.r = [k \in DOMAIN s.r |->
              IF k = i THEN s.r[i] - w
              ELSE IF k \in (i + b)..(end - 1) THEN 0
              ELSE IF k = end THEN 1 ELSE s.r[k]]]
  ELSE [s EXCEPT !.more = FALSE]

slide(a) ==
  LET at(r, i) ==
        LET absorb(s, b) == IF i + b < Bits THEN Absorb(s, i, b) ELSE s
        IN  IF r[i] = 0 THEN r
            ELSE FoldLeft(absorb, [r |-> r, more |-> TRUE], <<1, 2, 3, 4, 5, 6>>).r
  IN  FoldLeft(at, [i \in 0..(Bits - 1) |-> (a \div 2^i) % 2],
               [i \in 1..Bits |-> i - 1])

\* The odd multiples P, 3 P, ..., 15 P.
OddMultiples(p) ==
  LET twice == Double(p)
      Ai[k \in 0..7] == IF k = 0 THEN ge_p3_to_cached(p)
                        ELSE ge_p3_to_cached(Add(twice, Ai[k - 1]))
  IN  Ai
Bi(k) == Precomputed(Times(2 * k + 1, Base))

ge_double_scalarmult_vartime(a, p, b) ==
  LET as == slide(a)   bs == slide(b)   Ai == OddMultiples(p)
      used == {i \in 0..(Bits - 1) : as[i] # 0 \/ bs[i] # 0}
      \* with a digit's multiple of the point or of the base
      with(h, digit, Mult(_)) ==
        IF digit > 0 THEN Add(h, Mult(digit \div 2))
        ELSE IF digit < 0 THEN ge_p1p1_to_p3(ge_sub(h, Mult((-digit) \div 2)))
        ELSE h
      step(h, i) == LET A(k) == Ai[k] IN with(with(Double(h), as[i], A), bs[i], Bi)
      top == IF used = {} THEN -1 ELSE CHOOSE i \in used : \A j \in used : j <= i
  IN  FoldLeft(step, ge_p3_0, [i \in 1..(top + 1) |-> top + 1 - i])

=============================================================================
