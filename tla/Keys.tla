-------------------------------- MODULE Keys --------------------------------
(***************************************************************************)
(* Key pairs in lib/ed25519: they are made from a seed, moved by a scalar  *)
(* (add_scalar.c), on the side that has the private key and on a side that *)
(* has only the public one, and sign and agree on secrets.  What is hashed *)
(* is any number (sha512 and sc_reduce).                                   *)
(***************************************************************************)
EXTENDS Points

CONSTANTS
  Seeds,        \* seeds: the numbers that they hash to
  AddedScalars, \* scalars for add_scalar
  PeerKeys,     \* private keys of others
  MaxMoves      \* bound: uses of add_scalar in one behaviour

VARIABLES
  private_key,
  public_key,   \* of the owner
  known_key,    \* the public key as someone else has it
  ahead_by,     \* scalars that the owner has added and the other has not
  moves

keyVars == <<private_key, public_key, known_key, ahead_by, moves>>

\* private_key[0] &= 248; private_key[31] &= 63; private_key[31] |= 64
Clamped(a) == (((a % 2^(Bits - 2)) \div 8) * 8) + 2^(Bits - 2)

ed25519_derive_pub(a) == ge_p3_tobytes(ge_scalarmult_base(a))

KeyInit ==
  /\ private_key \in {Clamped(a) : a \in Seeds}
  /\ public_key = ed25519_derive_pub(private_key)
  /\ known_key = public_key
  /\ ahead_by = <<>> /\ moves = 0

\* ed25519_add_scalar with the private key: a + n modulo the order.
AddScalarPrivate(n) ==
  /\ moves < MaxMoves /\ moves' = moves + 1
  /\ private_key' = (n + private_key) % BaseOrder
  /\ public_key' = ed25519_derive_pub(private_key')
  /\ ahead_by' = Append(ahead_by, n)
  /\ UNCHANGED known_key

\* Variant: the decoded point is not turned back.
MovedPublicNegated(key, n) ==
  LET p == ge_frombytes_negate_vartime(key).point
  IN  ge_p3_tobytes(Add(ge_scalarmult_base(n), ge_p3_to_cached(p)))

\* With the public key only: the point is decoded, turned back and n B added.
MovedPublic(key, n) ==
  LET p == ge_frombytes_negate_vartime(key).point
      back == [p EXCEPT !.X = (-@) % Field, !.T = (-@) % Field]
  IN  ge_p3_tobytes(Add(ge_scalarmult_base(n), ge_p3_to_cached(back)))

\* In the order that they come in, or any other.
AddScalarPublic(i) ==
  /\ i \in DOMAIN ahead_by
  /\ known_key' = MovedPublic(known_key, ahead_by[i])
  /\ ahead_by' = RemoveAt(ahead_by, i)
  /\ UNCHANGED <<private_key, public_key, moves>>

KeyNext ==
  \/ \E n \in AddedScalars : AddScalarPrivate(n)
  \/ \E i \in 1..MaxMoves : AddScalarPublic(i)

-----------------------------------------------------------------------------
\* Signatures: r from the prefix and the message, h from R, A and the message.

ed25519_sign(a, r, h) ==
  [R |-> ge_p3_tobytes(ge_scalarmult_base(r)), S |-> (h * a + r) % BaseOrder]

ed25519_verify(sig, h, key) ==
  LET A == ge_frombytes_negate_vartime(key) IN
  /\ sig.S < 2^(Bits - 3)
  /\ A.found
  /\ ge_p3_tobytes(ge_double_scalarmult_vartime(h, A.point, sig.S)) = sig.R

-----------------------------------------------------------------------------
\* Secrets: the Montgomery ladder on u = (1 + y) / (1 - y).

\* One step, from the multiples k and k + 1 of u to 2 k and 2 k + 1.
Ladder(l, u) ==
  LET D == l.x3 - l.z3   B == l.x2 - l.z2
      A == l.x2 + l.z2   C == l.x3 + l.z3
      DA == (D * A) % Field   CB == (C * B) % Field
      BB == (B * B) % Field   AA == (A * A) % Field
      E == (AA - BB) % Field
  IN  [x2 |-> (AA * BB) % Field,
       z2 |-> (E * ((BB + Curve24 * E) % Field)) % Field,
       x3 |-> ((DA + CB) * (DA + CB)) % Field,
       z3 |-> (u * (((DA - CB) * (DA - CB)) % Field)) % Field]

Swapped(l, b) ==
  IF b = 1 THEN [x2 |-> l.x3, z2 |-> l.z3, x3 |-> l.x2, z3 |-> l.z2] ELSE l

ed25519_key_exchange(key, a) ==
  LET e == Clamped(a)
      u == ((key.y + 1) * Reciprocal((1 - key.y) % Field)) % Field
      bit(i) == IF i >= Bits THEN 0 ELSE (e \div 2^i) % 2
      step(l, pos) == Ladder(Swapped(l, (bit(pos) + bit(pos + 1)) % 2), u)
      l == FoldLeft(step, [x2 |-> 1, z2 |-> 0, x3 |-> u, z3 |-> 1],
                    [i \in 1..(Bits - 1) |-> Bits - 1 - i])
      end == Swapped(l, bit(0))
  IN  (end.x2 * Reciprocal(end.z2)) % Field

-----------------------------------------------------------------------------
\* Properties.

(* The public key is the private key's multiple of the base point; whoever
   has added the same scalars to it, in any order and without the private
   key, has the same public key; the owner's signatures hold, and hold for
   no other hash; and two parties agree on their secret. *)
KeysAgree ==
  LET A == Times(private_key % BaseOrder, Base)
      theirs == Times(FoldLeft(LAMBDA s, n : s + n, 0, ahead_by) % BaseOrder, Base)
  IN
  /\ public_key = Encoded(A)
  /\ public_key = Encoded(Plus(
       LET p == ge_frombytes_negate_vartime(known_key).point
       IN  [x |-> (-p.X) % Field, y |-> p.Y], theirs))
  /\ \A r, h, other \in 0..(BaseOrder - 1) :
       ed25519_verify(ed25519_sign(private_key, r, h), other, public_key)
         <=> (other = h \/ A = Zero)
  /\ moves = 0 =>
       \A b \in PeerKeys :
         ed25519_key_exchange(public_key, Clamped(b)) =
           ed25519_key_exchange(ed25519_derive_pub(Clamped(b)), private_key)

(* Long scalars: a A + b B from odd digits, which add up to the scalars. *)
MultiplesRight ==
  LET SumOf(r) ==
        LET upto[i \in 0..Bits] ==
              IF i = Bits THEN 0 ELSE r[i] + 2 * upto[i + 1]
        IN  upto[0]
      point == ge_p1p1_to_p3([X |-> Base.x, Y |-> Base.y, Z |-> 1, T |-> 1])
  IN
  \A a, b \in Seeds \union AddedScalars :
    /\ SumOf(slide(a)) = a
    /\ \A i \in DOMAIN slide(a) :
         slide(a)[i] = 0 \/ (slide(a)[i] \in -15..15 /\ slide(a)[i] % 2 = 1)
    /\ ge_p3_tobytes(ge_double_scalarmult_vartime(a, point, b)) =
         Encoded(Times(a + b, Base))

=============================================================================
