--------------------------- MODULE LibraryProofs ---------------------------
(***************************************************************************)
(* Of lib/ed25519: the digest is that of the message, however the message  *)
(* is cut into parts, for blocks of any size; the two chains of squarings  *)
(* and products raise to the exponents that they are for; and the limbs of *)
(* field elements keep their residue through every operation, for radices  *)
(* and a fold of any size.                                                 *)
(*                                                                         *)
(* What a recursive definition computes is proved from a least             *)
(* counterexample (LeastOf of StorageProofs).                              *)
(***************************************************************************)
EXTENDS StorageProofs

-----------------------------------------------------------------------------
\* Blocks one after the other.

(* One step of FlattenSeq. *)
Join(s, f, n) == IF n = 1 THEN s[n] ELSE f[n - 1] \o s[n]

(* f is what is joined after each of the first m blocks. *)
Joins(s, m, f) == f = [n \in 1..m |-> Join(s, f, n)]

Joined(s) == CHOOSE f : Joins(s, Len(s), f)

(* Any number of blocks can be joined. *)
LEMMA JoinsExist ==
  ASSUME NEW s, NEW m \in Nat
  PROVE  \E f : Joins(s, m, f)
<1> DEFINE T == {n \in Nat : ~ \E f : Joins(s, n, f)}
<1> SUFFICES ASSUME T # {} PROVE FALSE
  OBVIOUS
<1>1. PICK n \in T : \A k \in T : n <= k
  <2> HIDE DEF T
  <2> QED BY LeastOf DEF T
<1>2. CASE n = 0
  <2>1. \A f, i : i \in 1..0 => FALSE
    OBVIOUS
  <2>2. Joins(s, 0, [i \in 1..0 |-> <<>>])
    BY <2>1 DEF Joins
  <2> QED BY <2>2, <1>2
<1>3. CASE n # 0
  <2>1. n - 1 \in Nat /\ n - 1 \notin T
    BY <1>3, <1>1
  <2>2. PICK f : Joins(s, n - 1, f)
    BY <2>1
  <2> DEFINE g == [i \in 1..n |-> Join(s, f, i)]
  <2>3. \A i \in 1..(n - 1) : f[i] = g[i]
    <3>1. f = [i \in 1..(n - 1) |-> Join(s, f, i)]
      BY <2>2 DEF Joins
    <3>2. \A i \in 1..(n - 1) : f[i] = Join(s, f, i)
      BY <3>1, Zenon
    <3> QED BY <3>2, <2>1
  <2>4. \A i \in 1..n : Join(s, f, i) = Join(s, g, i)
    <3>1. \A i \in 1..n : i # 1 => i - 1 \in 1..(n - 1)
      BY <2>1
    <3> HIDE DEF g
    <3> QED BY <3>1, <2>3 DEF Join
  <2>5. Joins(s, n, g)
    BY <2>4, Zenon DEF Joins
  <2> QED BY <2>5
<1> QED BY <1>2, <1>3

(* Blocks flattened are what is joined after the last. *)
LEMMA FlattenIsJoined ==
  ASSUME NEW s, Len(s) \in Nat \ {0}
  PROVE  /\ FlattenSeq(s) = Joined(s)[Len(s)]
         /\ \A n \in 1..Len(s) : Joined(s)[n] = Join(s, Joined(s), n)
<1>1. FlattenSeq(s) = Joined(s)[Len(s)]
  BY DEF FlattenSeq, Joined, Joins, Join
<1>2. Joins(s, Len(s), Joined(s))
  BY JoinsExist, Zenon DEF Joined
<1>3. Joined(s) = [n \in 1..Len(s) |-> Join(s, Joined(s), n)]
  BY <1>2, Zenon DEF Joins
<1>4. \A n \in 1..Len(s) : Joined(s)[n] = Join(s, Joined(s), n)
  BY <1>3, Zenon
<1> QED BY <1>1, <1>4

(* What is joined of blocks of elements of V is a sequence of them. *)
LEMMA JoinedSeq ==
  ASSUME NEW V, NEW s \in Seq(Seq(V))
  PROVE  \A n \in 1..Len(s) : Joined(s)[n] \in Seq(V)
<1> DEFINE F == Joined(s)
           m == Len(s)
           T == {n \in 1..m : F[n] \notin Seq(V)}
<1> SUFFICES ASSUME T # {} PROVE FALSE
  OBVIOUS
<1>1. m \in Nat /\ T \subseteq Nat
  BY LenProperties
<1>2. PICK n \in T : \A k \in T : n <= k
  <2> HIDE DEF T
  <2> QED BY <1>1, LeastOf
<1>3. n \in 1..m /\ F[n] \notin Seq(V) /\ s[n] \in Seq(V)
  BY <1>2, ElementOfSeq
<1>4. m \in Nat \ {0}
  BY <1>1, <1>3
<1>5. F[n] = Join(s, F, n)
  BY <1>3, <1>4, FlattenIsJoined, Zenon
<1>6. n # 1
  BY <1>3, <1>5 DEF Join
<1>7. n - 1 \in 1..m /\ n - 1 \notin T
  BY <1>1, <1>2, <1>3, <1>6
<1>8. F[n - 1] \in Seq(V)
  BY <1>7
<1>9. F[n] = F[n - 1] \o s[n]
  BY <1>5, <1>6 DEF Join
<1> HIDE DEF F
<1> QED BY <1>3, <1>8, <1>9

(* Blocks of elements of V flattened are a sequence of them. *)
LEMMA FlattenSeqType ==
  ASSUME NEW V, NEW s \in Seq(Seq(V))
  PROVE  FlattenSeq(s) \in Seq(V)
<1>1. CASE s = <<>>
  <2>1. FlattenSeq(<<>>) = <<>>
    BY EmptySeq DEF FlattenSeq
  <2>2. <<>> \in Seq(V)
    BY EmptySeq
  <2> QED BY <1>1, <2>1, <2>2
<1>2. CASE s # <<>>
  <2>1. Len(s) \in Nat \ {0} /\ Len(s) \in 1..Len(s)
    BY <1>2, EmptySeq
  <2>2. FlattenSeq(s) = Joined(s)[Len(s)]
    BY <2>1, FlattenIsJoined, Zenon
  <2>3. Joined(s)[Len(s)] \in Seq(V)
    BY <2>1, JoinedSeq
  <2> QED BY <2>2, <2>3, Zenon
<1> QED BY <1>1, <1>2

(* One block more comes last. *)
LEMMA FlattenAppend ==
  ASSUME NEW V, NEW s \in Seq(Seq(V)), NEW b \in Seq(V)
  PROVE  FlattenSeq(Append(s, b)) = FlattenSeq(s) \o b
<1> DEFINE t == Append(s, b)
           m == Len(s)
<1>1. /\ m \in Nat /\ Len(t) = m + 1 /\ t \in Seq(Seq(V))
      /\ \A i \in 1..m : t[i] = s[i]
      /\ t[m + 1] = b
  BY AppendProperties, LenProperties
<1> DEFINE F == Joined(s)
           G == Joined(t)
<1>2. /\ FlattenSeq(t) = G[m + 1]
      /\ \A n \in 1..(m + 1) : G[n] = Join(t, G, n)
  <2>1. Len(t) \in Nat \ {0}
    BY <1>1
  <2>2. FlattenSeq(t) = G[Len(t)] /\ \A n \in 1..Len(t) : G[n] = Join(t, G, n)
    BY <2>1, FlattenIsJoined, Zenon
  <2> HIDE DEF t, G, m
  <2> QED BY <1>1, <2>2
<1>3. CASE m = 0
  <2>1. s = <<>> /\ FlattenSeq(s) = <<>>
    BY <1>3, EmptySeq DEF FlattenSeq
  <2>2. G[m + 1] = t[1]
    <3> HIDE DEF t, G, m
    <3> QED BY <1>2, <1>3 DEF Join
  <2>3. <<>> \o b = b
    BY ConcatEmptySeq
  <2>4. FlattenSeq(t) = b
    <3> HIDE DEF t, G, m
    <3> QED BY <1>1, <1>2, <1>3, <2>2
  <2> QED BY <2>1, <2>3, <2>4
<1>4. CASE m # 0
  <2>1. /\ FlattenSeq(s) = F[m]
        /\ \A n \in 1..m : F[n] = Join(s, F, n)
    <3>1. Len(s) \in Nat \ {0}
      BY <1>1, <1>4
    <3> QED BY <3>1, FlattenIsJoined, Zenon
  <2> HIDE DEF t, m, F, G
  <2>2. \A n \in 1..m : F[n] = G[n]
    <3> DEFINE T == {n \in 1..m : F[n] # G[n]}
    <3> SUFFICES ASSUME T # {} PROVE FALSE
      OBVIOUS
    <3>1. T \subseteq Nat
      BY <1>1
    <3>2. PICK n \in T : \A k \in T : n <= k
      <4> HIDE DEF T
      <4> QED BY <3>1, LeastOf
    <3>3. n \in 1..m /\ F[n] # G[n] /\ s[n] = t[n]
      BY <1>1, <3>2
    <3>4. F[n] = Join(s, F, n) /\ G[n] = Join(t, G, n)
      BY <1>1, <1>2, <2>1, <3>3
    <3>5. n # 1
      BY <3>3, <3>4 DEF Join
    <3>6. n - 1 \in 1..m /\ n - 1 \notin T
      BY <1>1, <3>2, <3>3, <3>5
    <3>7. F[n - 1] = G[n - 1]
      BY <3>6
    <3> QED BY <3>3, <3>4, <3>5, <3>7 DEF Join
  <2>3. G[m + 1] = Join(t, G, m + 1) /\ m \in 1..m /\ m + 1 # 1
    BY <1>1, <1>2, <1>4
  <2>4. G[m + 1] = G[m] \o b
    BY <1>1, <2>3 DEF Join
  <2> QED BY <1>2, <2>1, <2>2, <2>3, <2>4 DEF t
<1> QED BY <1>3, <1>4

-----------------------------------------------------------------------------
(***************************************************************************)
(* The digest.  The bytes compressed, kept and not yet taken are the       *)
(* message: a turn of the loop moves bytes from one to the next and keeps  *)
(* their order, and the length counts the whole blocks.  At the end the    *)
(* bytes kept decide whether one block or two follow.                      *)
(***************************************************************************)

DigestSpec == DigestInit /\ [][DigestNext]_digestVars

(* What blocks are made of: bytes by number, a zero, the bit that ends the
   message, and its length. *)
Hashable == Nat \union {"0", "80"} \union ({"length"} \X Nat)

(* The length counts what was compressed, until the end adds the rest. *)
LengthCounts ==
  ~final => md.length = Len(FlattenSeq(hashed))

DigestIInv ==
  /\ md \in [buf : Seq(Nat), length : Nat]
  /\ in \in Seq(Nat) /\ hashed \in Seq(Seq(Hashable))
  /\ message \in Nat /\ final \in BOOLEAN
  /\ final => in = <<>>
  /\ LengthCounts
  /\ DigestRight

(* Bytes by number, one after the other. *)
LEMMA NumbersType ==
  ASSUME NEW a \in Nat \ {0}, NEW b \in Nat, a <= b + 1
  PROVE  /\ Numbers(a, b) \in Seq(Nat) /\ Len(Numbers(a, b)) = b - a + 1
         /\ \A i \in 1..(b - a + 1) : Numbers(a, b)[i] = a + i - 1
<1>1. b - a + 1 \in Nat
  OBVIOUS
<1>2. \A i \in 1..(b - a + 1) : a + i - 1 \in Nat
  OBVIOUS
<1> QED BY <1>1, <1>2 DEF Numbers

(* A run of numbers and the one that follows it are one run. *)
LEMMA NumbersJoin ==
  ASSUME NEW m \in Nat, NEW n \in Nat
  PROVE  Numbers(1, m) \o Numbers(m + 1, m + n) = Numbers(1, m + n)
<1> DEFINE s == Numbers(1, m)
           t == Numbers(m + 1, m + n)
           u == Numbers(1, m + n)
<1>1. /\ s \in Seq(Nat) /\ Len(s) = m
      /\ \A i \in 1..m : s[i] = i
  BY NumbersType
<1>2. /\ t \in Seq(Nat) /\ Len(t) = n
      /\ \A i \in 1..n : t[i] = m + i
  <2>1. /\ m + 1 \in Nat \ {0} /\ m + n \in Nat /\ m + 1 <= (m + n) + 1
        /\ (m + n) - (m + 1) + 1 = n
        /\ \A i \in Int : (m + 1) + i - 1 = m + i
    OBVIOUS
  <2>2. /\ t \in Seq(Nat) /\ Len(t) = (m + n) - (m + 1) + 1
        /\ \A i \in 1..((m + n) - (m + 1) + 1) : t[i] = (m + 1) + i - 1
    BY <2>1, NumbersType
  <2> HIDE DEF t
  <2> QED BY <2>1, <2>2
<1>3. /\ u \in Seq(Nat) /\ Len(u) = m + n
      /\ \A i \in 1..(m + n) : u[i] = i
  <2>1. /\ 1 \in Nat \ {0} /\ m + n \in Nat /\ 1 <= (m + n) + 1
        /\ (m + n) - 1 + 1 = m + n
        /\ \A i \in Int : 1 + i - 1 = i
    OBVIOUS
  <2>2. /\ u \in Seq(Nat) /\ Len(u) = (m + n) - 1 + 1
        /\ \A i \in 1..((m + n) - 1 + 1) : u[i] = 1 + i - 1
    BY <2>1, NumbersType
  <2> HIDE DEF u
  <2> QED BY <2>1, <2>2
<1> HIDE DEF s, t, u
<1>4. /\ s \o t \in Seq(Nat) /\ Len(s \o t) = m + n
      /\ \A i \in 1..(m + n) :
           (s \o t)[i] = IF i <= m THEN s[i] ELSE t[i - m]
  BY <1>1, <1>2, ConcatProperties
<1>5. \A i \in 1..(m + n) : (s \o t)[i] = u[i]
  <2> TAKE i \in 1..(m + n)
  <2>1. CASE i <= m
    BY <1>1, <1>3, <1>4, <2>1
  <2>2. CASE ~(i <= m)
    <3>1. i - m \in 1..n
      BY <2>2
    <3>2. t[i - m] = m + (i - m)
      BY <1>2, <3>1
    <3>3. (s \o t)[i] = t[i - m]
      BY <1>4, <2>2, Zenon
    <3>4. u[i] = i
      BY <1>3, Zenon
    <3> HIDE DEF s, t, u
    <3> QED BY <3>2, <3>3, <3>4
  <2> QED BY <2>1, <2>2
<1>6. s \o t = u
  BY <1>3, <1>4, <1>5, SeqEqual
<1> QED BY <1>6 DEF s, t, u

(* Concatenation is associative.  Named, for the provers to look at one
   instance of it. *)
Regroups(a, b, c) == (a \o b) \o c = a \o (b \o c)

(* Parts of any sequences do. *)
LEMMA AnyRegroups ==
  ASSUME NEW V, NEW a \in Seq(V), NEW b \in Seq(V), NEW c \in Seq(V)
  PROVE  Regroups(a, b, c)
  BY ConcatAssociative DEF Regroups

(* A part moves from the front of what follows to the end of what precedes. *)
PartMoves(a, b, c, d) == (a \o b) \o (c \o d) = (a \o (b \o c)) \o d

(* Parts of any sequences do. *)
LEMMA AnyPartMoves ==
  ASSUME NEW V, NEW a \in Seq(V), NEW b \in Seq(V), NEW c \in Seq(V),
         NEW d \in Seq(V)
  PROVE  PartMoves(a, b, c, d)
<1>1. a \o b \in Seq(V)
  BY ConcatProperties
<1>2. Regroups(a \o b, c, d) /\ Regroups(a, b, c)
  BY <1>1, AnyRegroups, Zenon
<1> QED BY <1>2 DEF PartMoves, Regroups

(* What is taken from the front, and what is left. *)
LEMMA PartTaken ==
  ASSUME NEW V, NEW s \in Seq(V), NEW n \in 0..Len(s)
  PROVE  /\ SubSeq(s, 1, n) \in Seq(V) /\ Len(SubSeq(s, 1, n)) = n
         /\ SubSeq(s, n + 1, Len(s)) \in Seq(V)
         /\ SubSeq(s, 1, n) \o SubSeq(s, n + 1, Len(s)) = s
<1>1. /\ Len(s) \in Nat /\ 1 \in 1..(Len(s) + 1) /\ n \in (1 - 1)..Len(s)
      /\ Len(s) \in n..Len(s) /\ n \in Int /\ n + 1 \in Int
      /\ \A i \in 1..Len(s) : s[i] \in V
  BY LenProperties
<1>2. SubSeq(s, 1, n) \in Seq(V) /\ Len(SubSeq(s, 1, n)) = n
  BY <1>1, SubSeqProperties
<1>3. SubSeq(s, n + 1, Len(s)) \in Seq(V)
  BY <1>1, SubSeqProperties
<1>4. SubSeq(s, 1, n) \o SubSeq(s, n + 1, Len(s)) = SubSeq(s, 1, Len(s))
  BY <1>1, ConcatAdjacentSubSeq
<1>5. SubSeq(s, 1, Len(s)) = s
  BY SubSeqFull
<1> QED BY <1>2, <1>3, <1>4, <1>5

(* Nothing is compressed, kept or to be taken at first. *)
LEMMA DigestStart ==
  ASSUME DigestInit
  PROVE  DigestIInv
<1>1. /\ <<>> \in Seq(Nat) /\ <<>> \in Seq(Seq(Hashable)) /\ Len(<<>>) = 0
      /\ BLOCK \in Nat /\ 0 < BLOCK
  BY EmptySeq, DigestAssumption
<1>2. FlattenSeq(<<>>) = <<>>
  BY <1>1 DEF FlattenSeq
<1>3. Numbers(1, 0) = <<>>
  BY NumbersType, EmptySeq
<1>4. <<>> \o <<>> \o <<>> = <<>>
  BY <1>1, ConcatEmptySeq
<1>5. /\ md = [buf |-> <<>>, length |-> 0] /\ in = <<>> /\ hashed = <<>>
      /\ message = 0 /\ final = FALSE
  BY DEF DigestInit
<1>6. DigestRight
  <2>1. \A i \in DOMAIN hashed : Len(hashed[i]) = BLOCK
    BY <1>1, <1>5
  <2> QED BY <1>1, <1>2, <1>3, <1>4, <1>5, <2>1 DEF DigestRight
<1>7. LengthCounts
  BY <1>1, <1>2, <1>5 DEF LengthCounts
<1> QED BY <1>1, <1>5, <1>6, <1>7 DEF DigestIInv

(* sha512_update takes a part of any length. *)
LEMMA UpdateStep ==
  ASSUME DigestIInv, NEW n \in 0..MaxMessage, sha512_update(n)
  PROVE  DigestIInv'
<1>1. /\ in = <<>> /\ ~final /\ final' = final /\ md' = md /\ hashed' = hashed
      /\ in' = Numbers(message + 1, message + n) /\ message' = message + n
      /\ message \in Nat /\ n \in Nat
  BY DigestAssumption DEF sha512_update, DigestIInv
<1>2. in' \in Seq(Nat) /\ message' \in Nat
  BY <1>1, NumbersType
<1> DEFINE flat == FlattenSeq(hashed)
<1>3. flat \in Seq(Hashable) /\ md.buf \in Seq(Hashable) /\ in' \in Seq(Hashable)
  BY <1>2, FlattenSeqType, SeqMonotonic DEF DigestIInv, Hashable
<1>4. flat \o md.buf = Numbers(1, message)
  <2>1. flat \o md.buf \o <<>> = Numbers(1, message)
    BY <1>1 DEF DigestIInv, DigestRight
  <2> QED BY <1>3, <2>1, ConcatProperties, ConcatEmptySeq
<1>5. flat \o md.buf \o in' = Numbers(1, message')
  BY <1>1, <1>4, NumbersJoin
<1>6. DigestRight'
  BY <1>1, <1>5 DEF DigestIInv, DigestRight
<1> QED BY <1>1, <1>2, <1>6 DEF DigestIInv, LengthCounts

(* A turn of the loop: a whole block is compressed, or all that is left is
   kept. *)
LEMMA TurnStep ==
  ASSUME DigestIInv, UpdateTurn
  PROVE  DigestIInv'
<1> DEFINE flat == FlattenSeq(hashed)
           direct == md.buf = <<>> /\ Len(in) >= BLOCK
           room == BLOCK - Len(md.buf)
           n == IF Len(in) < room THEN Len(in) ELSE room
           taken == SubSeq(in, 1, n)
           rest == SubSeq(in, n + 1, Len(in))
           buf == md.buf \o taken
<1>1. /\ in # <<>> /\ message' = message /\ final' = final
      /\ IF direct \/ Len(buf) = BLOCK
         THEN /\ hashed' = Append(hashed, buf)
              /\ md' = [buf |-> <<>>, length |-> md.length + BLOCK]
              /\ in' = rest
         ELSE /\ md' = [md EXCEPT !.buf = buf]
              /\ in' = <<>>
              /\ hashed' = hashed
  BY DEF UpdateTurn
<1>2. /\ md \in [buf : Seq(Nat), length : Nat]
      /\ in \in Seq(Nat) /\ hashed \in Seq(Seq(Hashable))
      /\ message \in Nat /\ final \in BOOLEAN /\ BLOCK \in Nat /\ 0 < BLOCK
  BY DigestAssumption DEF DigestIInv
<1>3. ~final
  BY <1>1 DEF DigestIInv
<1>4. /\ flat \o md.buf \o in = Numbers(1, message)
      /\ \A i \in DOMAIN hashed : Len(hashed[i]) = BLOCK
      /\ Len(md.buf) < BLOCK /\ md.length = BLOCK * Len(hashed)
      /\ md.length = Len(flat)
  BY <1>3 DEF DigestIInv, DigestRight, LengthCounts
<1>5. /\ Len(in) \in Nat /\ Len(md.buf) \in Nat /\ room \in Nat
      /\ n \in 0..Len(in) /\ Len(hashed) \in Nat
  BY <1>2, <1>4, LenProperties
<1>6. /\ taken \in Seq(Nat) /\ Len(taken) = n
      /\ rest \in Seq(Nat) /\ taken \o rest = in
  <2> HIDE DEF n
  <2> QED BY <1>2, <1>5, PartTaken
<1>7. buf \in Seq(Nat) /\ Len(buf) = Len(md.buf) + n
  <2> HIDE DEF n, taken
  <2> QED BY <1>2, <1>6, ConcatProperties
<1> HIDE DEF taken, rest, buf
<1>8. /\ Nat \subseteq Hashable
      /\ buf \in Seq(Hashable) /\ taken \in Seq(Hashable)
      /\ rest \in Seq(Hashable) /\ md.buf \in Seq(Hashable)
      /\ flat \in Seq(Hashable)
  BY <1>2, <1>6, <1>7, SeqMonotonic, FlattenSeqType DEF Hashable
<1>9. flat \o buf \o rest = Numbers(1, message)
  <2> HIDE DEF flat
  <2>1. PartMoves(flat, md.buf, taken, rest)
    BY <1>8, AnyPartMoves, Zenon
  <2>2. (flat \o md.buf) \o (taken \o rest)
          = (flat \o (md.buf \o taken)) \o rest
    BY <2>1 DEF PartMoves
  <2> QED BY <1>4, <1>6, <2>2 DEF buf
<1>10. CASE direct \/ Len(buf) = BLOCK
  <2>1. /\ hashed' = Append(hashed, buf) /\ md'.buf = <<>>
        /\ md'.length = md.length + BLOCK /\ in' = rest
        /\ md' = [buf |-> <<>>, length |-> md.length + BLOCK]
    BY <1>1, <1>10
  <2>2. Len(buf) = BLOCK
    <3>1. CASE direct
      <4>1. Len(md.buf) = 0 /\ Len(in) >= BLOCK
        BY <3>1, EmptySeq
      <4> QED BY <1>2, <1>5, <1>7, <4>1
    <3> QED BY <1>10, <3>1
  <2>3. /\ hashed' \in Seq(Seq(Hashable)) /\ Len(hashed') = Len(hashed) + 1
        /\ \A i \in 1..Len(hashed) : hashed'[i] = hashed[i]
        /\ hashed'[Len(hashed) + 1] = buf
    BY <1>2, <1>8, <2>1, AppendProperties
  <2>4. FlattenSeq(hashed') = flat \o buf
    BY <1>2, <1>8, <2>1, FlattenAppend
  <2>5. (flat \o buf) \o <<>> = flat \o buf
    <3> HIDE DEF flat
    <3> QED BY <1>8, ConcatProperties, ConcatEmptySeq
  <2>6. Len(flat \o buf) = md.length + BLOCK
    <3> HIDE DEF flat
    <3>1. Len(flat \o buf) = Len(flat) + Len(buf)
      BY <1>8, ConcatProperties
    <3> QED BY <1>4, <2>2, <3>1
  <2>7. \A i \in DOMAIN hashed' : Len(hashed'[i]) = BLOCK
    <3>1. /\ DOMAIN hashed = 1..Len(hashed)
          /\ DOMAIN hashed' = 1..(Len(hashed) + 1)
      BY <1>2, <2>3, LenProperties
    <3>2. \A i \in 1..(Len(hashed) + 1) :
            i \in 1..Len(hashed) \/ i = Len(hashed) + 1
      BY <1>5
    <3> QED BY <1>4, <2>2, <2>3, <3>1, <3>2
  <2>8. md.length + BLOCK = BLOCK * (Len(hashed) + 1)
    BY <1>2, <1>4, <1>5
  <2>9. /\ <<>> \in Seq(Nat) /\ Len(<<>>) = 0
        /\ md' \in [buf : Seq(Nat), length : Nat]
    BY <1>2, <2>1, EmptySeq
  <2>10. DigestRight'
    <3> HIDE DEF flat
    <3> QED BY <1>1, <1>2, <1>3, <1>9, <2>1, <2>3, <2>4, <2>5, <2>7, <2>8, <2>9
            DEF DigestRight
  <2>11. LengthCounts'
    BY <2>1, <2>4, <2>6 DEF LengthCounts
  <2> QED BY <1>1, <1>2, <1>6, <2>1, <2>3, <2>9, <2>10, <2>11 DEF DigestIInv
<1>11. CASE ~(direct \/ Len(buf) = BLOCK)
  <2>1. md' = [md EXCEPT !.buf = buf] /\ in' = <<>> /\ hashed' = hashed
    BY <1>1, <1>11
  <2>2. n = Len(in) /\ Len(buf) < BLOCK
    BY <1>2, <1>4, <1>5, <1>7, <1>11
  <2>3. rest = <<>> /\ <<>> \in Seq(Nat)
    <3>1. Len(in) < n + 1 /\ n + 1 \in Int /\ Len(in) \in Int
      BY <1>5, <2>2
    <3> QED BY <3>1, SubSeqEmpty, EmptySeq DEF rest
  <2>4. md'.buf = buf /\ md'.length = md.length
        /\ md' \in [buf : Seq(Nat), length : Nat]
    BY <1>2, <1>7, <2>1
  <2>5. DigestRight'
    <3> HIDE DEF flat
    <3>1. flat \o buf \o <<>> = Numbers(1, message)
      BY <1>9, <2>3
    <3>2. flat' = flat
      BY <2>1 DEF flat
    <3> QED BY <1>1, <1>3, <1>4, <2>1, <2>2, <2>4, <3>1, <3>2
            DEF DigestRight, flat
  <2>6. LengthCounts'
    BY <1>4, <2>1, <2>4 DEF LengthCounts
  <2> QED BY <1>1, <1>2, <2>1, <2>3, <2>4, <2>5, <2>6 DEF DigestIInv
<1> QED BY <1>10, <1>11

(* The remainder of a number that is a multiple and a bit. *)
LEMMA RemainderIs ==
  ASSUME NEW b \in Nat \ {0}, NEW q \in Int, NEW r \in 0..(b - 1)
  PROVE  (b * q + r) % b = r
<1> DEFINE x == b * q + r
<1>1. x \in Int
  OBVIOUS
<1>2. x = b * (x \div b) + (x % b) /\ x % b \in 0..(b - 1) /\ x \div b \in Int
  <2> HIDE DEF x
  <2> QED BY <1>1
<1>3. b * (q - (x \div b)) = (x % b) - r
  <2>1. \A y \in Int : b * (q - y) = b * q - b * y
    OBVIOUS
  <2> QED BY <1>1, <1>2, <2>1
<1> DEFINE d == q - (x \div b)
<1>4. d \in Int /\ -b < b * d /\ b * d < b
  BY <1>2, <1>3
<1>5. d = 0
  <2> HIDE DEF d
  <2>1. CASE d >= 1
    <3>1. b * d >= b
      BY <1>4, <2>1
    <3> QED BY <1>4, <3>1
  <2>2. CASE d <= -1
    <3>1. b * d <= -b
      BY <1>4, <2>2
    <3> QED BY <1>4, <3>1
  <2> QED BY <1>4, <2>1, <2>2
<1>6. b * d = 0
  BY <1>5
<1> QED BY <1>2, <1>3, <1>6

(* The zeros that the standard asks for, from the bytes in the last block. *)
LEMMA ZerosToPad ==
  ASSUME NEW k \in Nat, NEW l \in 0..(BLOCK - 1), NEW m \in Nat,
         m = BLOCK * k + l
  PROVE  (LENGTH_AT - 1 - m + BLOCK * (m + 1)) % BLOCK
           = IF l + 1 <= LENGTH_AT THEN LENGTH_AT - 1 - l
             ELSE LENGTH_AT - 1 - l + BLOCK
<1>1. /\ BLOCK \in Nat \ {0} /\ LENGTH_AT \in Nat
      /\ 0 < LENGTH_AT /\ LENGTH_AT < BLOCK
  BY DigestAssumption
<1> DEFINE q == m + 1 - k
           r == LENGTH_AT - 1 - l
<1>2. BLOCK * q = BLOCK * (m + 1) - BLOCK * k
  BY <1>1
<1>3. LENGTH_AT - 1 - m + BLOCK * (m + 1) = BLOCK * q + r
  BY <1>1, <1>2
<1>4. CASE l + 1 <= LENGTH_AT
  <2>1. r \in 0..(BLOCK - 1) /\ q \in Int
    BY <1>1, <1>4
  <2>2. (BLOCK * q + r) % BLOCK = r
    BY <1>1, <2>1, RemainderIs
  <2> QED BY <1>3, <1>4, <2>2
<1>5. CASE ~(l + 1 <= LENGTH_AT)
  <2>1. r + BLOCK \in 0..(BLOCK - 1) /\ q - 1 \in Int
    BY <1>1, <1>5
  <2>2. BLOCK * (q - 1) + (r + BLOCK) = BLOCK * q + r
    BY <1>1
  <2>3. (BLOCK * (q - 1) + (r + BLOCK)) % BLOCK = r + BLOCK
    BY <1>1, <2>1, RemainderIs
  <2> QED BY <1>3, <1>5, <2>2, <2>3
<1> QED BY <1>4, <1>5

Zeros(n) == [i \in 1..n |-> "0"]

(* Zeros, and zeros after zeros. *)
LEMMA ZerosJoin ==
  ASSUME NEW a \in Nat, NEW b \in Nat
  PROVE  /\ Zeros(a) \in Seq(Hashable) /\ Len(Zeros(a)) = a
         /\ Zeros(a) \o Zeros(b) = Zeros(a + b)
<1>1. \A n \in Nat : /\ Zeros(n) \in Seq(Hashable) /\ Len(Zeros(n)) = n
                     /\ \A i \in 1..n : Zeros(n)[i] = "0"
  BY DEF Zeros, Hashable
<1> DEFINE s == Zeros(a)
           t == Zeros(b)
           u == Zeros(a + b)
<1>2. /\ s \in Seq(Hashable) /\ Len(s) = a /\ \A i \in 1..a : s[i] = "0"
      /\ t \in Seq(Hashable) /\ Len(t) = b /\ \A i \in 1..b : t[i] = "0"
      /\ u \in Seq(Hashable) /\ Len(u) = a + b
      /\ \A i \in 1..(a + b) : u[i] = "0"
  <2>1. a + b \in Nat
    OBVIOUS
  <2> QED BY <1>1, <2>1
<1> HIDE DEF s, t, u
<1>3. /\ s \o t \in Seq(Hashable) /\ Len(s \o t) = a + b
      /\ \A i \in 1..(a + b) :
           (s \o t)[i] = IF i <= a THEN s[i] ELSE t[i - a]
  BY <1>2, ConcatProperties
<1>4. \A i \in 1..(a + b) : (s \o t)[i] = u[i]
  BY <1>2, <1>3
<1>5. s \o t = u
  BY <1>2, <1>3, <1>4, SeqEqual
<1> QED BY <1>2, <1>5 DEF s, t, u

(* The end in one block, and in two. *)
OneEnd(a, b, c, d) == ((a \o b) \o c) \o d = a \o ((b \o c) \o d)
TwoEnds(a, b, c, d, e) ==
  ((a \o b) \o c) \o (d \o e) = a \o ((b \o (c \o d)) \o e)

(* Both endings of a message regroup. *)
LEMMA Ends ==
  ASSUME NEW V, NEW a \in Seq(V), NEW b \in Seq(V), NEW c \in Seq(V),
         NEW d \in Seq(V), NEW e \in Seq(V)
  PROVE  OneEnd(a, b, c, d) /\ TwoEnds(a, b, c, d, e)
<1>1. /\ a \o b \in Seq(V) /\ b \o c \in Seq(V) /\ c \o d \in Seq(V)
  BY ConcatProperties
<1>2. (a \o b) \o c \in Seq(V) /\ b \o (c \o d) \in Seq(V)
  BY <1>1, ConcatProperties
<1>3. Regroups(a, b, c) /\ Regroups(a, b \o c, d) /\ Regroups(b, c, d)
  BY <1>1, AnyRegroups, Zenon
<1>4. /\ Regroups((a \o b) \o c, d, e)
      /\ Regroups(a, b \o (c \o d), e)
  BY <1>1, <1>2, AnyRegroups, Zenon
<1>5. ((a \o b) \o c) \o d = a \o ((b \o c) \o d)
  BY <1>3, Zenon DEF Regroups
<1>6. ((a \o b) \o c) \o (d \o e) = (((a \o b) \o c) \o d) \o e
  BY <1>4, Zenon DEF Regroups
<1>7. ((a \o b) \o c) \o d = a \o (b \o (c \o d))
  BY <1>3, <1>5, Zenon DEF Regroups
<1>8. (a \o (b \o (c \o d))) \o e = a \o ((b \o (c \o d)) \o e)
  BY <1>4, Zenon DEF Regroups
<1>9. ((a \o b) \o c) \o (d \o e) = a \o ((b \o (c \o d)) \o e)
  BY <1>6, <1>7, <1>8, Zenon
<1> QED BY <1>5, <1>9 DEF OneEnd, TwoEnds

(* A block after blocks, and two. *)
LEMMA LastBlock ==
  ASSUME NEW V, NEW s \in Seq(Seq(V)), NEW b \in Seq(V)
  PROVE  /\ s \o <<b>> \in Seq(Seq(V))
         /\ FlattenSeq(s \o <<b>>) = FlattenSeq(s) \o b
<1>1. Append(s, b) = s \o <<b>> /\ Append(s, b) \in Seq(Seq(V))
  BY AppendIsConcat, AppendProperties
<1>2. FlattenSeq(Append(s, b)) = FlattenSeq(s) \o b
  BY FlattenAppend
<1> QED BY <1>1, <1>2, Zenon

TwoBlocks(V, s, b, c) ==
  /\ s \o <<b, c>> \in Seq(Seq(V))
  /\ FlattenSeq(s \o <<b, c>>) = FlattenSeq(s) \o (b \o c)

(* Two blocks added at the end are joined after what is there. *)
LEMMA LastTwoBlocks ==
  ASSUME NEW V, NEW s \in Seq(Seq(V)), NEW b \in Seq(V), NEW c \in Seq(V)
  PROVE  TwoBlocks(V, s, b, c)
<1>1. /\ s \o <<b>> \in Seq(Seq(V))
      /\ FlattenSeq(s \o <<b>>) = FlattenSeq(s) \o b
  BY LastBlock
<1>2. /\ (s \o <<b>>) \o <<c>> \in Seq(Seq(V))
      /\ FlattenSeq((s \o <<b>>) \o <<c>>) = FlattenSeq(s \o <<b>>) \o c
  BY <1>1, LastBlock
<1>3. /\ <<b>> \in Seq(Seq(V)) /\ <<c>> \in Seq(Seq(V))
      /\ <<b, c>> \in Seq(Seq(V))
  OBVIOUS
<1>4. <<b>> \o <<c>> = <<b, c>>
  <2>1. /\ Len(<<b>>) = 1 /\ Len(<<c>>) = 1 /\ Len(<<b, c>>) = 2
        /\ <<b>>[1] = b /\ <<c>>[1] = c /\ <<b, c>>[1] = b /\ <<b, c>>[2] = c
    OBVIOUS
  <2> DEFINE t == <<b>>
             u == <<c>>
             w == <<b, c>>
  <2> HIDE DEF t, u, w
  <2>2. /\ t \o u \in Seq(Seq(V)) /\ Len(t \o u) = 2
        /\ (t \o u)[1] = t[1] /\ (t \o u)[2] = u[1]
    BY <1>3, <2>1, ConcatProperties DEF t, u
  <2>3. w \in Seq(Seq(V)) /\ Len(w) = 2 /\ w[1] = t[1] /\ w[2] = u[1]
    BY <1>3, <2>1 DEF t, u, w
  <2>4. \A i \in 1..2 : (t \o u)[i] = w[i]
    <3>1. \A i \in 1..2 : i = 1 \/ i = 2
      OBVIOUS
    <3> QED BY <2>2, <2>3, <3>1
  <2>5. t \o u = w
    BY <2>2, <2>3, <2>4, SeqEqual
  <2> QED BY <2>5 DEF t, u, w
<1>5. Regroups(s, <<b>>, <<c>>) /\ Regroups(FlattenSeq(s), b, c)
  <2>1. FlattenSeq(s) \in Seq(V)
    BY FlattenSeqType
  <2> QED BY <1>3, <2>1, AnyRegroups, Zenon
<1>6. (s \o <<b>>) \o <<c>> = s \o <<b, c>>
  BY <1>4, <1>5, Zenon DEF Regroups
<1>7. (FlattenSeq(s) \o b) \o c = FlattenSeq(s) \o (b \o c)
  BY <1>5, Zenon DEF Regroups
<1> QED BY <1>1, <1>2, <1>6, <1>7, Zenon DEF TwoBlocks

(* What pads the message, with z zeros before its length. *)
PaddedBy(z, count) == (<<"80">> \o Zeros(z)) \o <<count>>

(* What is compressed at the end is what was kept, and the padding. *)
LEMMA EndingPads ==
  ASSUME NEW buf \in Seq(Hashable), NEW length \in Nat, Len(buf) < BLOCK,
         NEW s \in Seq(Seq(Hashable))
  PROVE  LET l == Len(buf)
             z == IF l + 1 <= LENGTH_AT THEN ZEROS_TO - 1 - l
                  ELSE BLOCK - 1 - l + ZEROS_TO
         IN  /\ s \o Ending(buf, length) \in Seq(Seq(Hashable))
             /\ FlattenSeq(s \o Ending(buf, length)) =
                  FlattenSeq(s) \o (buf \o PaddedBy(z, <<"length", length>>))
<1> DEFINE l == Len(buf)
           count == <<"length", length>>
           marked == Append(buf, "80")
<1>1. /\ BLOCK \in Nat /\ LENGTH_AT \in Nat /\ ZEROS_TO \in Nat
      /\ LENGTH_AT <= ZEROS_TO /\ ZEROS_TO < BLOCK /\ l \in Nat
  BY DigestAssumption, LenProperties
<1>2. /\ "80" \in Hashable /\ count \in Hashable
      /\ <<"80">> \in Seq(Hashable) /\ <<count>> \in Seq(Hashable)
      /\ <<>> \in Seq(Hashable)
  <2>1. "80" \in Hashable /\ count \in Hashable
    BY DEF Hashable
  <2> HIDE DEF count
  <2> QED BY <2>1
<1>3. /\ marked = buf \o <<"80">> /\ marked \in Seq(Hashable)
      /\ Len(marked) = l + 1
  BY <1>2, AppendIsConcat, AppendProperties
<1> HIDE DEF count, marked
<1>4. CASE l + 1 <= LENGTH_AT
  <2> DEFINE z == ZEROS_TO - 1 - l
             block == ((buf \o <<"80">>) \o Zeros(z)) \o <<count>>
  <2>1. z \in Nat /\ ZEROS_TO - Len(marked) = z
    BY <1>1, <1>3, <1>4
  <2> HIDE DEF z
  <2>2. Filled(marked, ZEROS_TO) = (buf \o <<"80">>) \o Zeros(z)
    BY <1>3, <2>1 DEF Filled, Zeros
  <2>3. /\ Zeros(z) \in Seq(Hashable)
        /\ (buf \o <<"80">>) \o Zeros(z) \in Seq(Hashable)
    BY <1>2, <1>3, <2>1, ZerosJoin, ConcatProperties
  <2>4. Append(Filled(marked, ZEROS_TO), count) = block
    BY <1>2, <2>2, <2>3, AppendIsConcat
  <2>5. Ending(buf, length) = <<block>>
    <3>1. ~(Len(marked) > LENGTH_AT)
      BY <1>1, <1>3, <1>4
    <3>2. Ending(buf, length) = <<Append(Filled(marked, ZEROS_TO), count)>>
      BY <3>1, Zenon DEF Ending, marked, count
    <3> QED BY <2>4, <3>2, Zenon
  <2>6. block \in Seq(Hashable)
    BY <1>2, <2>3, ConcatProperties
  <2>7. block = buf \o PaddedBy(z, count)
    <3>1. OneEnd(buf, <<"80">>, Zeros(z), <<count>>)
      BY <1>2, <2>3, Ends, Zenon
    <3> QED BY <3>1 DEF OneEnd, PaddedBy
  <2> HIDE DEF block
  <2>8. /\ s \o <<block>> \in Seq(Seq(Hashable))
        /\ FlattenSeq(s \o <<block>>) = FlattenSeq(s) \o block
    BY <2>6, LastBlock, Zenon
  <2> QED BY <1>4, <2>5, <2>7, <2>8 DEF z, count
<1>5. CASE ~(l + 1 <= LENGTH_AT)
  <2> DEFINE y == BLOCK - 1 - l
             z == y + ZEROS_TO
             first == (buf \o <<"80">>) \o Zeros(y)
             second == Zeros(ZEROS_TO) \o <<count>>
  <2>1. y \in Nat /\ BLOCK - Len(marked) = y
    BY <1>1, <1>3
  <2> HIDE DEF y
  <2>2. Filled(marked, BLOCK) = first
    BY <1>3, <2>1 DEF Filled, Zeros
  <2>3. /\ Zeros(y) \in Seq(Hashable) /\ Zeros(ZEROS_TO) \in Seq(Hashable)
        /\ Zeros(y) \o Zeros(ZEROS_TO) = Zeros(z)
    BY <1>1, <2>1, ZerosJoin
  <2>4. Filled(<<>>, ZEROS_TO) = Zeros(ZEROS_TO)
    <3>1. Len(<<>>) = 0 /\ ZEROS_TO - 0 = ZEROS_TO
      BY <1>1
    <3>2. <<>> \o Zeros(ZEROS_TO) = Zeros(ZEROS_TO)
      BY <2>3, ConcatEmptySeq
    <3> QED BY <3>1, <3>2 DEF Filled, Zeros
  <2>5. Append(Filled(<<>>, ZEROS_TO), count) = second
    BY <1>2, <2>3, <2>4, AppendIsConcat
  <2>6. Ending(buf, length) = <<first, second>>
    <3>1. Len(marked) > LENGTH_AT
      BY <1>1, <1>3, <1>5
    <3>2. Ending(buf, length) =
            <<Filled(marked, BLOCK), Append(Filled(<<>>, ZEROS_TO), count)>>
      BY <3>1, Zenon DEF Ending, marked, count
    <3> QED BY <2>2, <2>5, <3>2, Zenon
  <2>7. first \in Seq(Hashable) /\ second \in Seq(Hashable)
    BY <1>2, <1>3, <2>3, ConcatProperties
  <2>8. first \o second = buf \o PaddedBy(z, count)
    <3>1. TwoEnds(buf, <<"80">>, Zeros(y), Zeros(ZEROS_TO), <<count>>)
      BY <1>2, <2>3, Ends, Zenon
    <3> QED BY <2>3, <3>1 DEF TwoEnds, PaddedBy
  <2> HIDE DEF first, second
  <2>9. /\ s \o <<first, second>> \in Seq(Seq(Hashable))
        /\ FlattenSeq(s \o <<first, second>>) =
             FlattenSeq(s) \o (first \o second)
    <3>1. TwoBlocks(Hashable, s, first, second)
      BY <2>7, LastTwoBlocks, Zenon
    <3> QED BY <3>1, Zenon DEF TwoBlocks
  <2> QED BY <1>5, <2>6, <2>8, <2>9 DEF y, z, count
<1> QED BY <1>4, <1>5

(* sha512_final. *)
LEMMA FinalStep ==
  ASSUME DigestIInv, sha512_final
  PROVE  DigestIInv'
<1> DEFINE flat == FlattenSeq(hashed)
           l == Len(md.buf)
           count == <<"length", message>>
           z == IF l + 1 <= LENGTH_AT THEN ZEROS_TO - 1 - l
                ELSE BLOCK - 1 - l + ZEROS_TO
<1>1. /\ in = <<>> /\ ~final /\ final' = TRUE
      /\ hashed' = hashed \o Ending(md.buf, md.length + l)
      /\ md' = [md EXCEPT !.length = @ + l]
      /\ in' = in /\ message' = message
  BY DEF sha512_final
<1>2. /\ md \in [buf : Seq(Nat), length : Nat]
      /\ in \in Seq(Nat) /\ hashed \in Seq(Seq(Hashable)) /\ message \in Nat
      /\ flat \o md.buf \o in = Numbers(1, message)
      /\ l < BLOCK /\ md.length = BLOCK * Len(hashed)
      /\ md.length = Len(flat)
  BY <1>1 DEF DigestIInv, DigestRight, LengthCounts
<1>3. /\ flat \in Seq(Hashable) /\ md.buf \in Seq(Hashable)
      /\ l \in Nat /\ Len(hashed) \in Nat
      /\ BLOCK \in Nat /\ LENGTH_AT \in Nat /\ ZEROS_TO \in Nat
      /\ LENGTH_AT <= ZEROS_TO
  BY <1>2, FlattenSeqType, SeqMonotonic, LenProperties, DigestAssumption
     DEF Hashable
<1> HIDE DEF flat
<1>4. flat \o md.buf = Numbers(1, message)
  BY <1>1, <1>2, <1>3, ConcatProperties, ConcatEmptySeq
<1>5. message = BLOCK * Len(hashed) + l
  <2>1. Len(flat \o md.buf) = Len(flat) + l
    BY <1>3, ConcatProperties
  <2>2. Len(Numbers(1, message)) = message
    <3>1. 1 \in Nat \ {0} /\ message \in Nat /\ 1 <= message + 1
      BY <1>2
    <3>2. Len(Numbers(1, message)) = message - 1 + 1
      BY <3>1, NumbersType, Zenon
    <3> QED BY <3>1, <3>2
  <2> QED BY <1>2, <1>4, <2>1, <2>2
<1>6. /\ hashed' \in Seq(Seq(Hashable))
      /\ FlattenSeq(hashed') = flat \o (md.buf \o PaddedBy(z, count))
  <2>1. md.length + l = message
    BY <1>2, <1>5
  <2> QED BY <1>1, <1>2, <1>3, <2>1, EndingPads DEF flat
<1>7. Padding = PaddedBy(z, count)
  <2>1. l \in 0..(BLOCK - 1)
    BY <1>2, <1>3
  <2>2. (LENGTH_AT - 1 - message + BLOCK * (message + 1)) % BLOCK
          = IF l + 1 <= LENGTH_AT THEN LENGTH_AT - 1 - l
            ELSE LENGTH_AT - 1 - l + BLOCK
    BY <1>2, <1>3, <1>5, <2>1, ZerosToPad
  <2>3. ((LENGTH_AT - 1 - message + BLOCK * (message + 1)) % BLOCK)
          + ZEROS_TO - LENGTH_AT = z
    <3> DEFINE x == (LENGTH_AT - 1 - message + BLOCK * (message + 1)) % BLOCK
    <3>1. x = IF l + 1 <= LENGTH_AT THEN LENGTH_AT - 1 - l
              ELSE LENGTH_AT - 1 - l + BLOCK
      BY <2>2, Zenon
    <3> HIDE DEF x, l
    <3>2. x + ZEROS_TO - LENGTH_AT = z
      BY <1>3, <3>1
    <3> QED BY <3>2 DEF x
  <2> HIDE DEF z
  <2> QED BY <2>3 DEF Padding, PaddedBy, Zeros
<1>8. flat \o (md.buf \o PaddedBy(z, count)) = Numbers(1, message) \o Padding
  <2>1. PaddedBy(z, count) \in Seq(Hashable)
    <3>1. z \in Nat
      BY <1>2, <1>3
    <3>2. /\ <<"80">> \in Seq(Hashable) /\ <<count>> \in Seq(Hashable)
      <4>1. "80" \in Hashable /\ count \in Hashable
        BY <1>2 DEF Hashable
      <4> HIDE DEF count
      <4> QED BY <4>1
    <3> HIDE DEF z, count
    <3> QED BY <3>1, <3>2, ZerosJoin, ConcatProperties DEF PaddedBy
  <2>2. Regroups(flat, md.buf, PaddedBy(z, count))
    BY <1>3, <2>1, AnyRegroups, Zenon
  <2> QED BY <1>4, <1>7, <2>2 DEF Regroups
<1>9. DigestRight'
  <2>1. Padding' = Padding
    BY <1>1 DEF Padding
  <2> QED BY <1>1, <1>6, <1>8, <2>1 DEF DigestRight
<1>10. md' \in [buf : Seq(Nat), length : Nat]
  <2>1. md.length + l \in Nat
    BY <1>2, <1>3
  <2> HIDE DEF l
  <2> QED BY <1>1, <1>2, <2>1
<1> QED BY <1>1, <1>2, <1>6, <1>9, <1>10 DEF DigestIInv, LengthCounts

(* Every step of the digest. *)
LEMMA DigestStep ==
  ASSUME DigestIInv, [DigestNext]_digestVars
  PROVE  DigestIInv'
<1>1. CASE UNCHANGED digestVars
  BY <1>1 DEF digestVars, DigestIInv, DigestRight, LengthCounts, Padding
<1> QED BY <1>1, UpdateStep, TurnStep, FinalStep DEF DigestNext

(* Bytes and blocks are what they may be, the length counts the blocks, and
   the digest is right, after any parts and any turns. *)
THEOREM DigestInvariant == DigestSpec => []DigestIInv
BY DigestStart, DigestStep, PTL DEF DigestSpec

(* sha512_update and sha512_final compress the padded message of FIPS 180-4,
   however the message is cut into parts, and keep every byte in its order
   until then (sha512.c). *)
THEOREM DigestOfTheMessage == DigestSpec => []DigestRight
<1>1. DigestIInv => DigestRight
  BY DEF DigestIInv
<1> QED BY DigestInvariant, <1>1, PTL

(* The digest among the foundations is the digest by itself. *)
THEOREM DigestRunsAsByItself == Spec => DigestSpec
<1>1. Init => DigestInit
  BY DEF Init
<1>2. [Next]_foundationVars => [DigestNext]_digestVars
  BY DEF Next, foundationVars, digestVars
<1> QED BY <1>1, <1>2, PTL DEF Spec, DigestSpec

-----------------------------------------------------------------------------
(***************************************************************************)
(* The chains of squarings and products of fe_invert and fe_pow22523, for  *)
(* every modulus of the exponents: so the exponents themselves are p - 2   *)
(* and (p - 5) / 8 of the field with 2^255 - 19 elements.                  *)
(***************************************************************************)

(* f is the powers of two up to the nth. *)
Doublings(n, f) == f = [k \in 0..n |-> IF k = 0 THEN 1 ELSE 2 * f[k - 1]]

Doubled(n) == (CHOOSE f : Doublings(n, f))[n]

(* There are powers of two. *)
LEMMA DoublingsExist ==
  ASSUME NEW m \in Nat
  PROVE  \E f : Doublings(m, f)
<1> DEFINE T == {n \in Nat : ~ \E f : Doublings(n, f)}
<1> SUFFICES ASSUME T # {} PROVE FALSE
  OBVIOUS
<1>1. PICK n \in T : \A k \in T : n <= k
  <2> HIDE DEF T
  <2> QED BY LeastOf DEF T
<1>2. CASE n = 0
  <2>1. Doublings(0, [k \in 0..0 |-> 1])
    BY DEF Doublings
  <2> QED BY <2>1, <1>2
<1>3. CASE n # 0
  <2>1. n - 1 \in Nat /\ n - 1 \notin T
    BY <1>3, <1>1
  <2>2. PICK f : Doublings(n - 1, f)
    BY <2>1
  <2> DEFINE g == [k \in 0..n |-> IF k = 0 THEN 1 ELSE 2 * f[k - 1]]
  <2>3. \A k \in 0..(n - 1) : f[k] = g[k]
    BY <2>1, <2>2 DEF Doublings
  <2>4. \A k \in 0..n : k # 0 => k - 1 \in 0..(n - 1)
    BY <2>1
  <2>5. \A k \in 0..n : (IF k = 0 THEN 1 ELSE 2 * f[k - 1])
                          = (IF k = 0 THEN 1 ELSE 2 * g[k - 1])
    <3> HIDE DEF g
    <3> QED BY <2>3, <2>4
  <2>6. Doublings(n, g)
    BY <2>5, Zenon DEF Doublings
  <2> QED BY <2>6
<1> QED BY <1>2, <1>3

(* Each is twice the one before. *)
LEMMA DoubledStep ==
  ASSUME NEW n \in Nat
  PROVE  Doubled(0) = 1 /\ Doubled(n + 1) = 2 * Doubled(n)
<1> DEFINE F(k) == CHOOSE f : Doublings(k, f)
<1>1. \A k \in Nat : Doublings(k, F(k))
  BY DoublingsExist, Zenon
<1>2. \A k \in Nat : \A i \in 0..k :
        F(k)[i] = IF i = 0 THEN 1 ELSE 2 * F(k)[i - 1]
  <2> TAKE k \in Nat
  <2>1. F(k) = [i \in 0..k |-> IF i = 0 THEN 1 ELSE 2 * F(k)[i - 1]]
    BY <1>1, Zenon DEF Doublings
  <2> QED BY <2>1, Zenon
<1>3. \A k \in Nat : Doubled(k) = F(k)[k]
  BY DEF Doubled
<1> HIDE DEF F
<1>4. \A k \in 0..n : F(n)[k] = F(n + 1)[k]
  <2> DEFINE T == {k \in 0..n : F(n)[k] # F(n + 1)[k]}
  <2> SUFFICES ASSUME T # {} PROVE FALSE
    OBVIOUS
  <2>1. PICK k \in T : \A i \in T : k <= i
    <3>1. T \subseteq Nat
      OBVIOUS
    <3> HIDE DEF T
    <3> QED BY <3>1, LeastOf
  <2>2. k \in 0..n /\ k \in 0..(n + 1) /\ n + 1 \in Nat
    BY <2>1
  <2>3. /\ F(n)[k] = IF k = 0 THEN 1 ELSE 2 * F(n)[k - 1]
        /\ F(n + 1)[k] = IF k = 0 THEN 1 ELSE 2 * F(n + 1)[k - 1]
    BY <1>2, <2>2
  <2>4. k # 0
    BY <2>1, <2>3
  <2>5. k - 1 \in 0..n /\ k - 1 \notin T
    BY <2>1, <2>2, <2>4
  <2> QED BY <2>1, <2>3, <2>5
<1>5. Doubled(0) = 1
  BY <1>2, <1>3
<1>6. F(n + 1)[n + 1] = 2 * F(n + 1)[n]
  <2>1. n + 1 \in Nat /\ n + 1 \in 0..(n + 1) /\ n + 1 # 0 /\ (n + 1) - 1 = n
    OBVIOUS
  <2> QED BY <1>2, <2>1
<1> QED BY <1>3, <1>4, <1>5, <1>6

(* They are whole numbers. *)
LEMMA DoubledType ==
  ASSUME NEW n \in Nat
  PROVE  Doubled(n) \in Int
<1> DEFINE T == {k \in Nat : Doubled(k) \notin Int}
<1> SUFFICES ASSUME T # {} PROVE FALSE
  OBVIOUS
<1>1. PICK k \in T : \A i \in T : k <= i
  <2> HIDE DEF T
  <2> QED BY LeastOf DEF T
<1>2. k # 0
  BY <1>1, DoubledStep
<1>3. k - 1 \in Nat /\ k - 1 \notin T /\ (k - 1) + 1 = k
  BY <1>1, <1>2
<1>4. Doubled((k - 1) + 1) = 2 * Doubled(k - 1)
  BY <1>3, DoubledStep
<1> QED BY <1>1, <1>3, <1>4

(* 2^(a + b) = 2^a * 2^b *)
LEMMA DoubledSum ==
  ASSUME NEW a \in Nat, NEW b \in Nat
  PROVE  Doubled(a + b) = Doubled(a) * Doubled(b)
<1> DEFINE T == {k \in Nat : Doubled(a + k) # Doubled(a) * Doubled(k)}
<1> SUFFICES ASSUME T # {} PROVE FALSE
  OBVIOUS
<1>1. PICK k \in T : \A i \in T : k <= i
  <2> HIDE DEF T
  <2> QED BY LeastOf DEF T
<1>2. k \in Nat /\ Doubled(a + k) # Doubled(a) * Doubled(k)
  BY <1>1
<1>3. k # 0
  <2>1. Doubled(0) = 1 /\ a + 0 = a /\ Doubled(a) \in Int
    BY DoubledStep, DoubledType
  <2> QED BY <1>2, <2>1
<1> DEFINE j == k - 1
<1>4. j \in Nat /\ j \notin T /\ k = j + 1 /\ a + k = (a + j) + 1 /\ a + j \in Nat
  BY <1>1, <1>2, <1>3
<1>5. Doubled(a + j) = Doubled(a) * Doubled(j)
  BY <1>4
<1> HIDE DEF j, T
<1>6. /\ Doubled(j + 1) = 2 * Doubled(j)
      /\ Doubled((a + j) + 1) = 2 * Doubled(a + j)
  BY <1>4, DoubledStep
<1>7. Doubled(a) \in Int /\ Doubled(j) \in Int
  BY <1>4, DoubledType
<1>8. \A x, y \in Int : 2 * (x * y) = x * (2 * y)
  OBVIOUS
<1> QED BY <1>2, <1>4, <1>5, <1>6, <1>7, <1>8

-----------------------------------------------------------------------------
\* Remainders.

(* Numbers that differ by a multiple have the same remainder. *)
LEMMA SameRemainder ==
  ASSUME NEW m \in Nat \ {0}, NEW a \in Int, NEW b \in Int, NEW q \in Int,
         a = b + m * q
  PROVE  a % m = b % m
<1>1. /\ b = m * (b \div m) + (b % m) /\ b % m \in 0..(m - 1)
      /\ b \div m \in Int
  OBVIOUS
<1> DEFINE p == q + (b \div m)
<1>2. p \in Int /\ a = m * p + (b % m)
  <2>1. \A x, y \in Int : m * (x + y) = m * x + m * y
    OBVIOUS
  <2>2. m * p = m * q + m * (b \div m)
    BY <1>1, <2>1
  <2>3. m * q \in Int /\ m * (b \div m) \in Int
    BY <1>1
  <2> QED BY <1>1, <2>2, <2>3
<1> HIDE DEF p
<1>3. (m * p + (b % m)) % m = b % m
  BY <1>1, <1>2, RemainderIs
<1> QED BY <1>2, <1>3

(* A number may be reduced before it is multiplied, and before it is added
   to. *)
LEMMA ReducedFirst ==
  ASSUME NEW m \in Nat \ {0}, NEW a \in Int, NEW c \in Int
  PROVE  /\ a % m \in Int
         /\ ((a % m) * c) % m = (a * c) % m
         /\ ((a % m) + c) % m = (a + c) % m
<1> DEFINE r == a % m
           q == a \div m
<1>1. r \in Int /\ q \in Int /\ a = m * q + r
  OBVIOUS
<1> HIDE DEF r, q
<1>2. a * c = r * c + m * (q * c)
  <2>1. \A x, y, z \in Int : (x + y) * z = x * z + y * z
    OBVIOUS
  <2>2. a * c = (m * q) * c + r * c
    BY <1>1, <2>1
  <2>3. (m * q) * c = m * (q * c)
    BY <1>1
  <2>4. r * c \in Int /\ m * (q * c) \in Int
    BY <1>1
  <2> QED BY <2>2, <2>3, <2>4
<1>3. a + c = (r + c) + m * q
  BY <1>1
<1>4. /\ r * c \in Int /\ q * c \in Int /\ a * c \in Int
      /\ r + c \in Int /\ a + c \in Int
  BY <1>1
<1>5. (a * c) % m = (r * c) % m
  BY <1>2, <1>4, SameRemainder
<1>6. (a + c) % m = (r + c) % m
  BY <1>1, <1>3, <1>4, SameRemainder
<1> QED BY <1>1, <1>5, <1>6 DEF r

(* Both terms of a sum, and both factors of a product. *)
LEMMA BothReduced ==
  ASSUME NEW m \in Nat \ {0}, NEW a \in Int, NEW b \in Int
  PROVE  /\ ((a % m) + (b % m)) % m = (a + b) % m
         /\ ((a % m) * (b % m)) % m = (a * b) % m
<1>1. a % m \in Int /\ b % m \in Int
  BY ReducedFirst
<1>2. ((a % m) + (b % m)) % m = (a + (b % m)) % m
  BY <1>1, ReducedFirst
<1>3. ((b % m) + a) % m = (b + a) % m
  BY ReducedFirst
<1>4. ((a % m) * (b % m)) % m = (a * (b % m)) % m
  BY <1>1, ReducedFirst
<1>5. ((b % m) * a) % m = (b * a) % m
  BY ReducedFirst
<1>6. \A x, y \in Int : x + y = y + x /\ x * y = y * x
  OBVIOUS
<1> QED BY <1>1, <1>2, <1>3, <1>4, <1>5, <1>6

-----------------------------------------------------------------------------
\* What n squarings make of an exponent.

(* One step of Squared. *)
Exponent(m, p, k) ==
  IF k = 0 THEN 1
  ELSE IF k % 2 = 1 THEN (2 * p[k - 1]) % m
  ELSE (p[k \div 2] * p[k \div 2]) % m

Exponents(m, n, p) == p = [k \in 0..n |-> Exponent(m, p, k)]

Squarings(m, n) == CHOOSE p : Exponents(m, n, p)

(* Halves and predecessors come before. *)
LEMMA Before ==
  ASSUME NEW k \in Nat \ {0}
  PROVE  /\ k - 1 \in 0..(k - 1) /\ k \div 2 \in 0..(k - 1)
         /\ k % 2 # 1 => k = (k \div 2) + (k \div 2)
  OBVIOUS

(* Any number of squarings has its steps. *)
LEMMA ExponentsExist ==
  ASSUME NEW m, NEW n \in Nat
  PROVE  \E p : Exponents(m, n, p)
<1> DEFINE T == {i \in Nat : ~ \E p : Exponents(m, i, p)}
<1> SUFFICES ASSUME T # {} PROVE FALSE
  OBVIOUS
<1>1. PICK i \in T : \A j \in T : i <= j
  <2> HIDE DEF T
  <2> QED BY LeastOf DEF T
<1>2. CASE i = 0
  <2>1. Exponents(m, 0, [k \in 0..0 |-> 1])
    BY DEF Exponents, Exponent
  <2> QED BY <2>1, <1>2
<1>3. CASE i # 0
  <2>1. i - 1 \in Nat /\ i - 1 \notin T
    BY <1>3, <1>1
  <2>2. PICK p : Exponents(m, i - 1, p)
    BY <2>1
  <2> DEFINE g == [k \in 0..i |-> Exponent(m, p, k)]
  <2>3. \A k \in 0..(i - 1) : p[k] = g[k]
    <3>1. p = [k \in 0..(i - 1) |-> Exponent(m, p, k)]
      BY <2>2 DEF Exponents
    <3>2. \A k \in 0..(i - 1) : p[k] = Exponent(m, p, k)
      BY <3>1, Zenon
    <3>3. \A k \in 0..(i - 1) : k \in 0..i
      BY <2>1
    <3> QED BY <3>2, <3>3, Zenon
  <2>4. \A k \in 0..i : Exponent(m, p, k) = Exponent(m, g, k)
    <3> TAKE k \in 0..i
    <3> HIDE DEF g
    <3>1. k # 0 => /\ k - 1 \in 0..(i - 1) /\ k \div 2 \in 0..(i - 1)
      BY <2>1, Before
    <3>2. CASE k = 0
      BY <3>2 DEF Exponent
    <3>3. CASE k # 0
      <4>1. p[k - 1] = g[k - 1] /\ p[k \div 2] = g[k \div 2]
        BY <2>3, <3>1, <3>3, Zenon
      <4> QED BY <3>3, <4>1, Zenon DEF Exponent
    <3> QED BY <3>2, <3>3
  <2>5. Exponents(m, i, g)
    BY <2>4, Zenon DEF Exponents
  <2> QED BY <2>5
<1> QED BY <1>2, <1>3

(* After n squarings the exponent is 2^n times what it was. *)
LEMMA SquaredDoubles ==
  ASSUME NEW m \in Nat \ {0}, NEW e \in Int, NEW n \in Nat
  PROVE  Squared(e, n, m) = (e * Doubled(n)) % m
<1> DEFINE p == Squarings(m, n)
<1>1. Squared(e, n, m) = (e * p[n]) % m
  BY Zenon DEF Squared, Squarings, Exponents, Exponent
<1>2. \A k \in 0..n : p[k] = Exponent(m, p, k)
  <2>1. Exponents(m, n, p)
    BY ExponentsExist, Zenon DEF Squarings
  <2>2. p = [k \in 0..n |-> Exponent(m, p, k)]
    BY <2>1, Zenon DEF Exponents
  <2> QED BY <2>2, Zenon
<1> HIDE DEF p
<1>3. \A k \in 0..n : p[k] \in Int /\ p[k] % m = Doubled(k) % m
  <2> DEFINE T == {k \in 0..n : ~(p[k] \in Int /\ p[k] % m = Doubled(k) % m)}
  <2> SUFFICES ASSUME T # {} PROVE FALSE
    OBVIOUS
  <2>1. PICK k \in T : \A i \in T : k <= i
    <3>1. T \subseteq Nat
      OBVIOUS
    <3> HIDE DEF T
    <3> QED BY <3>1, LeastOf
  <2>2. k \in 0..n /\ ~(p[k] \in Int /\ p[k] % m = Doubled(k) % m)
    BY <2>1
  <2>3. p[k] = Exponent(m, p, k)
    BY <1>2, <2>2, Zenon
  <2>4. k # 0
    <3>1. Doubled(0) = 1 /\ 1 \in Int
      BY DoubledStep
    <3>2. k = 0 => p[k] = 1
      BY <2>3, Zenon DEF Exponent
    <3> QED BY <2>2, <3>1, <3>2, Zenon
  <2> DEFINE a == k - 1
             h == k \div 2
  <2>5. a \in 0..n /\ h \in 0..n /\ a \notin T /\ h \notin T
    <3>1. k \in Nat \ {0} /\ a \in 0..(k - 1) /\ h \in 0..(k - 1)
      BY <2>2, <2>4, Before
    <3>2. \A i \in 0..(k - 1) : i \in 0..n /\ ~(k <= i)
      BY <2>2
    <3> HIDE DEF T, a, h
    <3> QED BY <2>1, <3>1, <3>2
  <2>6. /\ p[a] \in Int /\ p[a] % m = Doubled(a) % m
        /\ p[h] \in Int /\ p[h] % m = Doubled(h) % m
    BY <2>5
  <2>7. /\ a \in Nat /\ h \in Nat /\ k = a + 1
        /\ k % 2 # 1 => k = h + h
    <3>1. k \in Nat \ {0}
      BY <2>2, <2>4
    <3> QED BY <2>5, <3>1, Before
  <2>8. Doubled(a) \in Int /\ Doubled(h) \in Int
    BY <2>7, DoubledType
  <2>9. CASE k % 2 = 1
    <3>1. p[k] = (2 * p[a]) % m
      BY <2>3, <2>4, <2>9, Zenon DEF Exponent
    <3>2. Doubled(k) = 2 * Doubled(a)
      BY <2>7, DoubledStep
    <3> HIDE DEF a, h, T
    <3>3. \A x \in Int : /\ (2 * x) % m = ((x % m) * 2) % m
                         /\ (2 * x) % m \in Int
                         /\ ((2 * x) % m) % m = (2 * x) % m
      <4> TAKE x \in Int
      <4>1. 2 * x \in Int /\ 2 * x = x * 2 /\ 2 \in Int /\ 0 \in Int
        OBVIOUS
      <4>2. (((2 * x) % m) + 0) % m = (2 * x + 0) % m /\ (2 * x) % m \in Int
        BY <4>1, ReducedFirst
      <4>3. ((x % m) * 2) % m = (x * 2) % m
        BY <4>1, ReducedFirst
      <4> QED BY <4>1, <4>2, <4>3
    <3>4. (2 * p[a]) % m = (2 * Doubled(a)) % m
      <4>1. (2 * p[a]) % m = ((p[a] % m) * 2) % m
        BY <2>6, <3>3, Zenon
      <4>2. (2 * Doubled(a)) % m = ((Doubled(a) % m) * 2) % m
        BY <2>8, <3>3, Zenon
      <4> QED BY <2>6, <4>1, <4>2, Zenon
    <3> QED BY <2>2, <2>8, <3>1, <3>2, <3>3, <3>4
  <2>10. CASE k % 2 # 1
    <3>1. p[k] = (p[h] * p[h]) % m
      BY <2>3, <2>4, <2>10, Zenon DEF Exponent
    <3>2. Doubled(k) = Doubled(h) * Doubled(h)
      BY <2>7, <2>10, DoubledSum
    <3> HIDE DEF a, h, T
    <3>3. \A x \in Int : /\ (x * x) % m = ((x % m) * (x % m)) % m
                         /\ (x * x) % m \in Int
                         /\ ((x * x) % m) % m = (x * x) % m
      <4> TAKE x \in Int
      <4>1. x * x \in Int /\ 0 \in Int
        OBVIOUS
      <4>2. (((x * x) % m) + 0) % m = (x * x + 0) % m /\ (x * x) % m \in Int
        BY <4>1, ReducedFirst
      <4>3. ((x % m) * (x % m)) % m = (x * x) % m
        BY BothReduced
      <4> QED BY <4>1, <4>2, <4>3
    <3>4. (p[h] * p[h]) % m = (Doubled(h) * Doubled(h)) % m
      <4>1. /\ (p[h] * p[h]) % m = ((p[h] % m) * (p[h] % m)) % m
            /\ (Doubled(h) * Doubled(h)) % m
                 = ((Doubled(h) % m) * (Doubled(h) % m)) % m
        BY <2>6, <2>8, <3>3, Zenon
      <4> QED BY <2>6, <4>1, Zenon
    <3> QED BY <2>2, <2>8, <3>1, <3>2, <3>3, <3>4
  <2> QED BY <2>9, <2>10
<1>4. p[n] \in Int /\ p[n] % m = Doubled(n) % m /\ Doubled(n) \in Int
  BY <1>3, DoubledType
<1>5. (p[n] * e) % m = (Doubled(n) * e) % m
  <2>1. /\ ((p[n] % m) * e) % m = (p[n] * e) % m
        /\ ((Doubled(n) % m) * e) % m = (Doubled(n) * e) % m
    BY <1>4, ReducedFirst, Zenon
  <2> QED BY <1>4, <2>1, Zenon
<1>6. \A x \in Int : e * x = x * e
  OBVIOUS
<1> QED BY <1>1, <1>4, <1>5, <1>6

-----------------------------------------------------------------------------
\* The chains.

(* 2^a - 1 ones, squared b times, and 2^b - 1 ones. *)
LEMMA LongerOnes ==
  ASSUME NEW m \in Nat \ {0}, NEW a \in Nat, NEW b \in Nat
  PROVE  Mul(Squared((Doubled(a) - 1) % m, b, m), (Doubled(b) - 1) % m, m)
           = (Doubled(a + b) - 1) % m
<1> DEFINE A == Doubled(a)
           B == Doubled(b)
<1>1. A \in Int /\ B \in Int /\ Doubled(a + b) = A * B
  BY DoubledType, DoubledSum
<1> HIDE DEF A, B
<1>2. /\ A - 1 \in Int /\ B - 1 \in Int /\ A * B - B \in Int
      /\ (A - 1) * B = A * B - B
      /\ (A * B - B) + (B - 1) = A * B - 1
  <2>1. A * B \in Int /\ (A - 1) * B = A * B - B
    BY <1>1
  <2> QED BY <1>1, <2>1
<1>3. /\ (A - 1) % m \in Int
      /\ (((A - 1) % m) * B) % m = ((A - 1) * B) % m
  BY <1>1, <1>2, ReducedFirst, Zenon
<1>4. Squared((A - 1) % m, b, m) = (((A - 1) % m) * B) % m
  BY <1>3, SquaredDoubles, Zenon DEF B
<1>5. (((A * B - B) % m) + ((B - 1) % m)) % m
        = ((A * B - B) + (B - 1)) % m
  BY <1>2, BothReduced, Zenon
<1>6. Squared((A - 1) % m, b, m) = (A * B - B) % m
  BY <1>2, <1>3, <1>4, Zenon
<1>7. Mul(Squared((A - 1) % m, b, m), (B - 1) % m, m) = (A * B - 1) % m
  BY <1>2, <1>5, <1>6, Zenon DEF Mul
<1> QED BY <1>1, <1>7, Zenon DEF A, B

(* Powers small enough to write down. *)
LEMMA SmallPowers ==
  Doubled(1) = 2 /\ Doubled(2) = 4 /\ Doubled(3) = 8 /\ Doubled(5) = 32
<1>1. Doubled(0) = 1 /\ Doubled(0 + 1) = 2 * Doubled(0)
  BY DoubledStep
<1>2. Doubled(1 + 1) = 2 * Doubled(1) /\ Doubled(2 + 1) = 2 * Doubled(2)
  BY DoubledStep
<1>3. Doubled(3 + 1) = 2 * Doubled(3) /\ Doubled(4 + 1) = 2 * Doubled(4)
  BY DoubledStep
<1> QED BY <1>1, <1>2, <1>3

(* The exponents 9 and 11, and the 250 ones. *)
LEMMA ChainOfOnes ==
  ASSUME NEW m \in Nat \ {0}
  PROVE  Z11(m) = 11 % m /\ Ones(m) = (Doubled(250) - 1) % m
<1> DEFINE R(x) == x % m
<1>1. \A a, b \in Int : R(a) \in Int /\ R(R(a) + b) = R(a + b)
  BY ReducedFirst
<1>2. \A a, b \in Int : R(R(a) * b) = R(a * b)
  BY ReducedFirst
<1>3. \A a, b \in Int : R(R(a) + R(b)) = R(a + b)
  BY BothReduced
<1>4. \A a, b : Mul(a, b, m) = R(a + b)
  BY Zenon DEF Mul
<1>5. \A e \in Int : Squared(e, 1, m) = R(e * 2) /\ Squared(e, 3, m) = R(e * 8)
  <2> TAKE e \in Int
  <2>1. Squared(e, 1, m) = R(e * Doubled(1)) /\ Squared(e, 3, m) = R(e * Doubled(3))
    BY SquaredDoubles
  <2> QED BY <2>1, SmallPowers, Zenon
<1> HIDE DEF R
<1>6. Z9(m) = R(9)
  <2>1. Z9(m) = R(1 + Squared(1, 3, m))
    BY <1>4, Zenon DEF Z9
  <2>2. Squared(1, 3, m) = R(8) /\ R(8) \in Int
    BY <1>1, <1>5
  <2>3. R(R(8) + 1) = R(9)
    BY <1>1
  <2> QED BY <2>1, <2>2, <2>3
<1>7. Z11(m) = R(11)
  <2>1. Z11(m) = R(Squared(1, 1, m) + Z9(m))
    BY <1>4, Zenon DEF Z11
  <2>2. Squared(1, 1, m) = R(2)
    BY <1>5
  <2>3. R(R(2) + R(9)) = R(11)
    BY <1>3
  <2> QED BY <1>6, <2>1, <2>2, <2>3
<1>8. Mul(Z9(m), Squared(Z11(m), 1, m), m) = R(31)
  <2>1. Squared(R(11), 1, m) = R(R(11) * 2)
    BY <1>1, <1>5
  <2>2. R(R(11) * 2) = R(22)
    BY <1>2
  <2>3. R(R(9) + R(22)) = R(31)
    BY <1>3
  <2> QED BY <1>4, <1>6, <1>7, <2>1, <2>2, <2>3
<1> DEFINE o(n) == (Doubled(n) - 1) % m
<1>9. o(5) = R(31) /\ o(250) = R(Doubled(250) - 1) /\ Z11(m) = 11 % m
  <2>1. Doubled(5) - 1 = 31
    BY SmallPowers
  <2> QED BY <1>7, <2>1, SMT DEF R
<1>10. Mul(Z9(m), Squared(Z11(m), 1, m), m) = o(5)
  BY <1>8, <1>9, SMT
<1>11. \A a, b \in Nat : Mul(Squared(o(a), b, m), o(b), m) = o(a + b)
  BY LongerOnes, Zenon
<1> HIDE DEF o
<1>12. Mul(Squared(o(5), 5, m), o(5), m) = o(10)
  BY <1>11, SMT
<1>13. Mul(Squared(o(10), 10, m), o(10), m) = o(20)
  BY <1>11, SMT
<1>14. Mul(Squared(o(20), 20, m), o(20), m) = o(40)
  BY <1>11, SMT
<1>15. Mul(Squared(o(40), 10, m), o(10), m) = o(50)
  BY <1>11, SMT
<1>16. Mul(Squared(o(50), 50, m), o(50), m) = o(100)
  BY <1>11, SMT
<1>17. Mul(Squared(o(100), 100, m), o(100), m) = o(200)
  BY <1>11, SMT
<1>18. Mul(Squared(o(200), 50, m), o(50), m) = o(250)
  BY <1>11, SMT
<1>19. Ones(m) = o(250)
  BY <1>10, <1>12, <1>13, <1>14, <1>15, <1>16, <1>17, <1>18, SMT DEF Ones
<1> QED BY <1>9, <1>19, SMT DEF o

(* fe_invert raises to 2^255 - 21 and fe_pow22523 to 2^252 - 3, for every
   modulus of the exponents (fe.c). *)
THEOREM ChainsReachTheirExponents == PowersRight
<1> SUFFICES ASSUME NEW m \in Moduli
             PROVE  /\ fe_invert(m) = (Squared(1, 255, m) - 21) % m
                    /\ fe_pow22523(m) = (Squared(1, 252, m) - 3) % m
  BY DEF PowersRight
<1>1. m \in Nat \ {0}
  BY FieldAssumption
<1> DEFINE R(x) == x % m
<1>2. \A a, b \in Int : R(a) \in Int /\ R(R(a) + b) = R(a + b)
  BY <1>1, ReducedFirst
<1>3. \A a, b \in Int : R(R(a) * b) = R(a * b)
  BY <1>1, ReducedFirst
<1>4. \A a, b \in Int : R(R(a) + R(b)) = R(a + b)
  BY <1>1, BothReduced
<1>5. \A a, b : Mul(a, b, m) = R(a + b)
  BY Zenon DEF Mul
<1>6. \A e \in Int, n \in Nat : Squared(e, n, m) = R(e * Doubled(n))
  BY <1>1, SquaredDoubles
<1> DEFINE D == Doubled(250)
<1>7. D \in Int /\ Doubled(255) = D * 32 /\ Doubled(252) = D * 4
  <2>1. \A a, b \in Nat : Doubled(a + b) = Doubled(a) * Doubled(b)
    BY DoubledSum
  <2>2. /\ Doubled(250 + 5) = Doubled(250) * Doubled(5)
        /\ Doubled(250 + 2) = Doubled(250) * Doubled(2)
    <3> HIDE DEF D
    <3> QED BY <2>1, SMT
  <2>3. Doubled(250) \in Int
    BY DoubledType, SMT
  <2> QED BY <2>2, <2>3, SmallPowers, SMT
<1>8. Ones(m) = R(D - 1) /\ Z11(m) = R(11)
  BY <1>1, ChainOfOnes, SMT
<1> HIDE DEF R, D
<1>9. Squared(1, 255, m) = R(D * 32) /\ Squared(1, 252, m) = R(D * 4)
  <2>1. /\ Squared(1, 255, m) = R(1 * Doubled(255))
        /\ Squared(1, 252, m) = R(1 * Doubled(252))
    BY <1>6, SMT
  <2>2. 1 * (D * 32) = D * 32 /\ 1 * (D * 4) = D * 4
    BY <1>7, SMT
  <2> QED BY <1>7, <2>1, <2>2, SMT
<1>10. fe_invert(m) = R(D * 32 - 21)
  <2>1. fe_invert(m) = R(Squared(Ones(m), 5, m) + Z11(m))
    BY <1>5, Zenon DEF fe_invert
  <2>2. Squared(R(D - 1), 5, m) = R(R(D - 1) * 32)
    <3>1. D - 1 \in Int /\ R(D - 1) \in Int
      BY <1>2, <1>7, SMT
    <3>2. Squared(R(D - 1), 5, m) = R(R(D - 1) * Doubled(5))
      BY <1>6, <3>1, SMT
    <3> QED BY <3>2, SmallPowers, Zenon
  <2>3. R(R(D - 1) * 32) = R((D - 1) * 32) /\ (D - 1) * 32 \in Int
    BY <1>3, <1>7, SMT
  <2>4. (D - 1) * 32 + 11 = D * 32 - 21
    BY <1>7, SMT
  <2>5. R(R((D - 1) * 32) + R(11)) = R((D - 1) * 32 + 11)
    BY <1>4, <2>3, SMT
  <2> QED BY <1>8, <2>1, <2>2, <2>3, <2>4, <2>5, SMT
<1>11. fe_pow22523(m) = R(D * 4 - 3)
  <2>1. fe_pow22523(m) = R(Squared(Ones(m), 2, m) + 1)
    BY <1>5, Zenon DEF fe_pow22523
  <2>2. Squared(R(D - 1), 2, m) = R(R(D - 1) * 4)
    <3>1. D - 1 \in Int /\ R(D - 1) \in Int
      BY <1>2, <1>7, SMT
    <3>2. Squared(R(D - 1), 2, m) = R(R(D - 1) * Doubled(2))
      BY <1>6, <3>1, SMT
    <3> QED BY <3>2, SmallPowers, Zenon
  <2>3. R(R(D - 1) * 4) = R((D - 1) * 4) /\ (D - 1) * 4 \in Int
    BY <1>3, <1>7, SMT
  <2>4. (D - 1) * 4 + 1 = D * 4 - 3
    BY <1>7, SMT
  <2>5. R(R((D - 1) * 4) + 1) = R((D - 1) * 4 + 1)
    BY <1>2, <2>3, SMT
  <2> QED BY <1>8, <2>1, <2>2, <2>3, <2>4, <2>5, SMT
<1>12. \A a, c \in Int : R(R(a) - c) = R(a - c)
  <2> TAKE a, c \in Int
  <2>1. -c \in Int /\ R(a) \in Int /\ R(a) + (-c) = R(a) - c /\ a + (-c) = a - c
    BY <1>2, SMT
  <2> QED BY <1>2, <2>1, SMT
<1>13. D * 32 \in Int /\ D * 4 \in Int
  BY <1>7, SMT
<1>14. R(Squared(1, 255, m) - 21) = R(D * 32 - 21)
  BY <1>9, <1>12, <1>13, SMT
<1>15. R(Squared(1, 252, m) - 3) = R(D * 4 - 3)
  BY <1>9, <1>12, <1>13, SMT
<1> QED BY <1>10, <1>11, <1>14, <1>15, Zenon DEF R

-----------------------------------------------------------------------------
(***************************************************************************)
(* The residues of field elements, for any even radix and any smaller      *)
(* fold.  The limbs of an element are weighed and summed (Value), and that *)
(* value, modulo p, is what each operation is followed by; a carry only    *)
(* moves weight from a limb to the next, but for the last, which folds.    *)
(***************************************************************************)

(* A fold over the first n of seq, as FoldLeft defines it: the last first. *)
Folded(G, start, seq, s, f) ==
  IF s = {} THEN start ELSE G[f[s \ {Max(s)}]][seq[Max(s)]]

\* f has the folds of any of the first n.
Folds(G, start, seq, n, f) ==
  f = [s \in SUBSET (1..n) |-> Folded(G, start, seq, s, f)]

(* The greatest of some numbers up to n, and what is left without it. *)
LEMMA GreatestOf ==
  ASSUME NEW n \in Nat, NEW s \in SUBSET (1..n), s # {}
  PROVE  /\ Max(s) \in s
         /\ \A k \in s : Max(s) >= k
         /\ s \ {Max(s)} \in SUBSET (1..(n - 1))
         /\ n \in s => n = Max(s)
<1> DEFINE above(x) == n - x
           T == {above(x) : x \in s}
<1>1. T \subseteq Nat /\ T # {}
  <2>1. \A x \in s : above(x) \in Nat
    OBVIOUS
  <2> HIDE DEF above
  <2> QED BY <2>1
<1>2. PICK t \in T : \A u \in T : t <= u
  <2> HIDE DEF T
  <2> QED BY <1>1, LeastOf
<1>3. \E x \in s : \A y \in s : x >= y
  <2>1. PICK x \in s : t = above(x)
    BY <1>2
  <2>2. \A y \in s : t <= above(y)
    BY <1>2
  <2> QED BY <2>1, <2>2
<1>4. Max(s) \in s /\ \A k \in s : Max(s) >= k
  <2> HIDE DEF T
  <2> QED BY <1>3, Zenon DEF Max
<1> HIDE DEF T
<1>5. s \ {Max(s)} \in SUBSET (1..(n - 1)) /\ (n \in s => n = Max(s))
  <2> DEFINE x == Max(s)
  <2>1. x \in s /\ \A k \in s : x >= k
    BY <1>4
  <2> HIDE DEF x
  <2>2. \A k \in s \ {x} : k \in 1..(n - 1)
    BY <2>1
  <2>3. n \in s => n = x
    BY <2>1
  <2> QED BY <2>2, <2>3 DEF x
<1> QED BY <1>4, <1>5

(* Any sequence can be folded. *)
LEMMA FoldsExist ==
  ASSUME NEW G, NEW start, NEW seq, NEW m \in Nat
  PROVE  \E f : Folds(G, start, seq, m, f)
<1> DEFINE T == {n \in Nat : ~ \E f : Folds(G, start, seq, n, f)}
<1> SUFFICES ASSUME T # {} PROVE FALSE
  OBVIOUS
<1>1. PICK n \in T : \A k \in T : n <= k
  <2> HIDE DEF T
  <2> QED BY LeastOf DEF T
<1>2. CASE n = 0
  <2>1. \A s \in SUBSET (1..0) : s = {}
    OBVIOUS
  <2>2. \A f : \A s \in SUBSET (1..0) : start = Folded(G, start, seq, s, f)
    BY <2>1, Zenon DEF Folded
  <2>3. Folds(G, start, seq, 0, [s \in SUBSET (1..0) |-> start])
    BY <2>2, Zenon DEF Folds
  <2> QED BY <1>2, <2>3
<1>3. CASE n # 0
  <2>1. n - 1 \in Nat /\ n - 1 \notin T /\ n \in Nat
    BY <1>3, <1>1
  <2>2. PICK f : Folds(G, start, seq, n - 1, f)
    BY <2>1
  <2> DEFINE g == [s \in SUBSET (1..n) |-> Folded(G, start, seq, s, f)]
  <2>3. \A s \in SUBSET (1..(n - 1)) : f[s] = g[s]
    <3>1. \A s \in SUBSET (1..(n - 1)) : f[s] = Folded(G, start, seq, s, f)
      BY <2>2, Zenon DEF Folds
    <3>2. SUBSET (1..(n - 1)) \subseteq SUBSET (1..n)
      BY <2>1
    <3> QED BY <3>1, <3>2, Zenon
  <2>4. \A s \in SUBSET (1..n) :
          Folded(G, start, seq, s, f) = Folded(G, start, seq, s, g)
    <3> TAKE s \in SUBSET (1..n)
    <3>1. s # {} => s \ {Max(s)} \in SUBSET (1..(n - 1))
      BY <2>1, GreatestOf
    <3>2. s # {} => f[s \ {Max(s)}] = g[s \ {Max(s)}]
      BY <2>3, <3>1, Zenon
    <3> HIDE DEF g
    <3> QED BY <3>2, Zenon DEF Folded
  <2>5. Folds(G, start, seq, n, g)
    BY <2>4, Zenon DEF Folds
  <2> QED BY <2>5
<1> QED BY <1>2, <1>3

(* What each step of a fold keeps, the fold does. *)
LEMMA FoldsStay ==
  ASSUME NEW K, NEW n \in Nat, NEW f, f[{}] \in K,
         \A s \in SUBSET (1..n) : s # {} /\ f[s \ {Max(s)}] \in K => f[s] \in K
  PROVE  \A s \in SUBSET (1..n) : f[s] \in K
<1> DEFINE T == {k \in 0..n : \E s \in SUBSET (1..k) : f[s] \notin K}
<1> SUFFICES ASSUME T # {} PROVE FALSE
  <2>1. n \in 0..n
    OBVIOUS
  <2> QED BY <2>1
<1>1. PICK k \in T : \A i \in T : k <= i
  <2>1. T \subseteq Nat
    OBVIOUS
  <2> HIDE DEF T
  <2> QED BY <2>1, LeastOf
<1>2. PICK s \in SUBSET (1..k) : f[s] \notin K
  BY <1>1
<1>3. k \in 0..n /\ s \in SUBSET (1..n)
  BY <1>1, <1>2
<1>4. s # {}
  BY <1>2, Zenon
<1>5. s \ {Max(s)} \in SUBSET (1..(k - 1))
  BY <1>3, <1>4, GreatestOf
<1>6. k # 0
  <2>1. 1..0 = {}
    OBVIOUS
  <2> QED BY <1>2, <1>4, <2>1, Zenon
<1>7. k - 1 \in 0..n /\ k - 1 \notin T
  BY <1>1, <1>3, <1>6
<1>8. f[s \ {Max(s)}] \in K
  BY <1>5, <1>7
<1> QED BY <1>2, <1>3, <1>4, <1>8

(* The same, of CarryProduct and CarryOnce. *)
LEMMA CarriesStay ==
  ASSUME NEW K, NEW h \in K, NEW n \in Nat, NEW seq, DOMAIN seq = 1..n,
         \A k \in 1..n : seq[k] \in Limbs,
         \A v \in K, i \in Limbs : Carry(v, i) \in K
  PROVE  FoldLeft(Carry, h, seq) \in K
<1> DEFINE Eq(f) == f = [s \in SUBSET (DOMAIN seq) |->
                           IF s = {} THEN h
                           ELSE Carry(f[s \ {Max(s)}], seq[Max(s)])]
           G == [v \in K |-> [i \in Limbs |-> Carry(v, i)]]
<1>1. FoldLeft(Carry, h, seq) = (CHOOSE f : Eq(f))[DOMAIN seq]
  BY Zenon DEF FoldLeft, MapThenFoldSet
<1> HIDE DEF G
<1>2. \A v \in K, i \in Limbs : G[v][i] = Carry(v, i)
  BY DEF G
<1>3. \A s \in SUBSET (1..n) : s # {} => seq[Max(s)] \in Limbs
  BY GreatestOf
<1>4. \E f : Eq(f)
  <2>1. PICK f : Folds(G, h, seq, n, f)
    BY FoldsExist
  <2>2. \A s \in SUBSET (1..n) : f[s] = Folded(G, h, seq, s, f)
    BY <2>1, Zenon DEF Folds
  <2>3. f[{}] = h
    BY <2>2, Zenon DEF Folded
  <2>4. \A s \in SUBSET (1..n) : s # {} => f[s] = G[f[s \ {Max(s)}]][seq[Max(s)]]
    BY <2>2, Zenon DEF Folded
  <2>5. \A s \in SUBSET (1..n) :
          s # {} /\ f[s \ {Max(s)}] \in K
            => f[s] = Carry(f[s \ {Max(s)}], seq[Max(s)]) /\ f[s] \in K
    <3> TAKE s \in SUBSET (1..n)
    <3> HAVE s # {} /\ f[s \ {Max(s)}] \in K
    <3>1. f[s] = G[f[s \ {Max(s)}]][seq[Max(s)]] /\ seq[Max(s)] \in Limbs
      BY <1>3, <2>4
    <3> DEFINE v == f[s \ {Max(s)}]
               i == seq[Max(s)]
    <3>2. f[s] = G[v][i] /\ v \in K /\ i \in Limbs
      BY <3>1
    <3> HIDE DEF v, i
    <3>3. f[s] = Carry(v, i) /\ Carry(v, i) \in K
      BY <1>2, <3>2
    <3> QED BY <3>3, Zenon DEF v, i
  <2>6. \A s \in SUBSET (1..n) : f[s] \in K
    BY <2>3, <2>5, FoldsStay
  <2>7. \A s \in SUBSET (1..n) : s # {} => s \ {Max(s)} \in SUBSET (1..n)
    OBVIOUS
  <2>8. \A s \in SUBSET (1..n) :
          Folded(G, h, seq, s, f) = IF s = {} THEN h
                                    ELSE Carry(f[s \ {Max(s)}], seq[Max(s)])
    <3> TAKE s \in SUBSET (1..n)
    <3>1. CASE s = {}
      BY <3>1, Zenon DEF Folded
    <3>2. CASE s # {}
      <4>1. f[s] = Carry(f[s \ {Max(s)}], seq[Max(s)])
        BY <2>5, <2>6, <2>7, <3>2, Zenon
      <4> QED BY <2>2, <3>2, <4>1, Zenon
    <3> QED BY <3>1, <3>2
  <2>9. Eq(f)
    BY <2>1, <2>8, Zenon DEF Folds
  <2> QED BY <2>9
<1> DEFINE f == CHOOSE f : Eq(f)
<1>5. f = [s \in SUBSET (1..n) |->
             IF s = {} THEN h ELSE Carry(f[s \ {Max(s)}], seq[Max(s)])]
  BY <1>4, Zenon
<1> HIDE DEF f
<1>6. f[{}] = h
  BY <1>5
<1>7. \A s \in SUBSET (1..n) : s # {} => f[s] = Carry(f[s \ {Max(s)}], seq[Max(s)])
  BY <1>5, Zenon
<1>8. \A s \in SUBSET (1..n) : s # {} /\ f[s \ {Max(s)}] \in K => f[s] \in K
  BY <1>3, <1>7
<1>9. \A s \in SUBSET (1..n) : f[s] \in K
  BY <1>6, <1>8, FoldsStay
<1> QED BY <1>1, <1>9, Zenon DEF f

(* Places below a place. *)
LEMMA OneLess ==
  ASSUME NEW n \in Nat, NEW k \in 0..n, k # 0
  PROVE  k - 1 \in 0..n /\ k \in 1..n /\ ~(k <= k - 1)
  OBVIOUS

(* The same from the other side. *)
LEMMA Lower1 ==
  ASSUME NEW n \in Nat, NEW k \in 1..n, NEW i \in 1..k
  PROVE  /\ i - 1 \in 0..n /\ i - 1 # k /\ i \in 0..n
         /\ i # k => i \in 1..(k - 1)
  OBVIOUS

(* A column of values, each from the one below it. *)
LEMMA StairsExist ==
  ASSUME NEW start \in Int, NEW n \in Nat, NEW G \in [1..n -> [Int -> Int]]
  PROVE  \E f \in [0..n -> Int] :
           f[0] = start /\ \A i \in 1..n : f[i] = G[i][f[i - 1]]
<1> DEFINE Climbs(k, f) ==
             /\ f \in [0..n -> Int] /\ f[0] = start
             /\ \A i \in 1..k : f[i] = G[i][f[i - 1]]
           T == {k \in 0..n : ~ \E f : Climbs(k, f)}
<1> SUFFICES ASSUME T # {} PROVE FALSE
  <2>1. n \in 0..n
    OBVIOUS
  <2> QED BY <2>1
<1>1. PICK k \in T : \A i \in T : k <= i
  <2>1. T \subseteq Nat
    OBVIOUS
  <2> HIDE DEF T
  <2> QED BY <2>1, LeastOf
<1>2. k # 0
  <2>1. Climbs(0, [i \in 0..n |-> start])
    OBVIOUS
  <2> HIDE DEF Climbs
  <2> QED BY <1>1, <2>1
<1>3. k - 1 \in 0..n /\ k - 1 \notin T /\ k \in 1..n
  <2>1. k \in 0..n
    BY <1>1
  <2>2. \A i \in T : i \in Nat
    OBVIOUS
  <2>3. k - 1 \in T => k <= k - 1
    BY <1>1, Zenon
  <2> HIDE DEF T, Climbs
  <2>4. k - 1 \in 0..n /\ k \in 1..n /\ ~(k <= k - 1)
    BY <1>2, <2>1, OneLess, Zenon
  <2> QED BY <2>3, <2>4, Zenon
<1>4. PICK f : Climbs(k - 1, f)
  BY <1>3
<1> DEFINE v == G[k][f[k - 1]]
           g == [f EXCEPT ![k] = v]
<1>5. v \in Int
  BY <1>3, <1>4
<1>6. /\ g \in [0..n -> Int] /\ g[0] = start /\ g[k] = v
      /\ \A i \in 0..n : i # k => g[i] = f[i]
  <2> HIDE DEF v
  <2>1. f \in [0..n -> Int] /\ f[0] = start
    BY <1>4, Zenon
  <2>2. k \in 0..n /\ 0 \in 0..n /\ k # 0
    BY <1>3
  <2> HIDE DEF Climbs
  <2>3. g \in [0..n -> Int]
    BY <1>5, <2>1, <2>2
  <2>4. g[k] = v
    BY <2>1, <2>2
  <2>5. \A i \in 0..n : i # k => g[i] = f[i]
    BY <2>1, <2>2
  <2> QED BY <2>1, <2>2, <2>3, <2>4, <2>5, Zenon
<1> HIDE DEF g
<1>7. \A i \in 1..k : g[i] = G[i][g[i - 1]]
  <2> HIDE DEF T, Climbs
  <2> TAKE i \in 1..k
  <2>1. g[i - 1] = f[i - 1]
    <3>1. i - 1 \in 0..n /\ i - 1 # k
      BY <1>3, Lower1, Zenon
    <3> QED BY <1>6, <3>1, Zenon
  <2>2. CASE i = k
    BY <1>6, <2>1, <2>2, Zenon
  <2>3. CASE i # k
    <3>1. g[i] = f[i] /\ i \in 1..(k - 1)
      <4>1. i \in 0..n /\ i \in 1..(k - 1)
        BY <1>3, <2>3, Lower1, Zenon
      <4> QED BY <1>6, <2>3, <4>1, Zenon
    <3> QED BY <1>4, <2>1, <3>1, Zenon DEF Climbs
  <2> QED BY <2>2, <2>3
<1>8. Climbs(k, g)
  <2> HIDE DEF g
  <2> QED BY <1>6, <1>7
<1> QED BY <1>1, <1>8

(* The radices and the fold are numbers the steps can be made with. *)
LEMMA Radices ==
  /\ \A i \in Int : Radix(i) \in Nat \ {0}
  /\ OddRadix \in Nat \ {0} /\ FOLD \in Nat /\ FOLD < OddRadix
  BY FieldAssumption DEF Radix

(* The weights of the limbs, from the recursion that defines them. *)
LEMMA Weights ==
  /\ Weight[0] = 1
  /\ \A i \in 0..9 : Weight[i + 1] = Weight[i] * Radix(i)
  /\ \A i \in 0..10 : Weight[i] \in Nat \ {0}
<1> DEFINE W(f) == f = [i \in 0..10 |-> IF i = 0 THEN 1
                                        ELSE f[i - 1] * Radix(i - 1)]
           G == [i \in 1..10 |-> [x \in Int |-> x * Radix(i - 1)]]
<1>1. \A i \in 1..10 : /\ \A x \in Int : x * Radix(i - 1) \in Int
                       /\ i - 1 \in Int /\ Radix(i - 1) \in Nat \ {0}
  <2> TAKE i \in 1..10
  <2>1. i - 1 \in Int
    OBVIOUS
  <2>2. Radix(i - 1) \in Nat \ {0}
    BY <2>1, Radices
  <2> QED BY <2>1, <2>2
<1>2. G \in [1..10 -> [Int -> Int]]
  BY <1>1
<1>3. \E f : W(f)
  <2>1. PICK f \in [0..10 -> Int] :
          f[0] = 1 /\ \A i \in 1..10 : f[i] = G[i][f[i - 1]]
    <3>1. 1 \in Int /\ 10 \in Nat
      OBVIOUS
    <3> HIDE DEF G
    <3> QED BY <1>2, <3>1, StairsExist, Zenon
  <2>2. \A i \in 1..10 : f[i] = f[i - 1] * Radix(i - 1)
    <3> TAKE i \in 1..10
    <3>1. f[i - 1] \in Int
      OBVIOUS
    <3>2. f[i] = G[i][f[i - 1]]
      BY <2>1
    <3> QED BY <3>1, <3>2, Zenon
  <2>3. \A i \in 0..10 : f[i] = IF i = 0 THEN 1 ELSE f[i - 1] * Radix(i - 1)
    BY <2>1, <2>2
  <2>4. f = [i \in 0..10 |-> f[i]]
    OBVIOUS
  <2>5. W(f)
    BY <2>3, <2>4, Zenon
  <2> QED BY <2>5
<1>4. W(Weight)
  BY <1>3, Zenon DEF Weight
<1>5. \A i \in 0..10 : Weight[i] = IF i = 0 THEN 1 ELSE Weight[i - 1] * Radix(i - 1)
  BY <1>4, Zenon
<1> HIDE DEF W, G
<1>6. Weight[0] = 1
  BY <1>5
<1>7. \A i \in 0..9 : Weight[i + 1] = Weight[i] * Radix(i)
  <2> TAKE i \in 0..9
  <2>1. i + 1 \in 0..10 /\ i + 1 # 0 /\ (i + 1) - 1 = i
    OBVIOUS
  <2> QED BY <1>5, <2>1, Zenon
<1>8. \A i \in 0..10 : Weight[i] \in Nat \ {0}
  <2> DEFINE T == {i \in 0..10 : Weight[i] \notin Nat \ {0}}
  <2> SUFFICES ASSUME T # {} PROVE FALSE
    OBVIOUS
  <2>1. PICK i \in T : \A j \in T : i <= j
    <3>1. T \subseteq Nat
      OBVIOUS
    <3> HIDE DEF T
    <3> QED BY <3>1, LeastOf
  <2>2. i # 0
    BY <1>6, <2>1
  <2>3. Weight[i - 1] \in Nat \ {0}
    BY <2>1, <2>2
  <2>4. Weight[i] = Weight[i - 1] * Radix(i - 1) /\ Radix(i - 1) \in Nat \ {0}
    <3>1. i \in 0..10 /\ i \in 1..10
      BY <2>1, <2>2
    <3> HIDE DEF T
    <3> QED BY <1>1, <1>5, <2>2, <3>1, Zenon
  <2>5. \A x, y \in Nat \ {0} : x * y \in Nat \ {0}
    OBVIOUS
  <2>6. Weight[i] \in Nat \ {0}
    BY <2>3, <2>4, <2>5, Zenon
  <2> QED BY <2>1, <2>6
<1> QED BY <1>6, <1>7, <1>8

(* The fold is less than the weight beyond the last limb. *)
LEMMA PrimeIs ==
  Prime \in Nat \ {0} /\ Weight[10] = Prime + FOLD
<1>1. Weight[10] = Weight[9] * OddRadix /\ Weight[9] \in Nat \ {0}
  <2>1. Radix(9) = OddRadix
    BY DEF Radix
  <2>2. Weight[9 + 1] = Weight[9] * Radix(9)
    BY Weights
  <2> QED BY <2>1, <2>2, Weights
<1>2. \A x \in Nat \ {0}, y \in Nat : x * y \in Nat /\ x * y >= y
  OBVIOUS
<1>3. Weight[10] \in Nat /\ Weight[10] >= OddRadix
  BY <1>1, <1>2, Radices
<1> QED BY <1>3, Radices DEF Prime

-----------------------------------------------------------------------------
\* Numbers that are the same modulo p.
Alike(a, b) == a % Prime = b % Prime

(* Sums and products of numbers alike are alike. *)
LEMMA AlikeSums ==
  ASSUME NEW a \in Int, NEW b \in Int, NEW c \in Int, NEW d \in Int,
         Alike(a, b), Alike(c, d)
  PROVE  Alike(a + c, b + d) /\ Alike(a * c, b * d)
<1>1. /\ ((a % Prime) + (c % Prime)) % Prime = (a + c) % Prime
      /\ ((b % Prime) + (d % Prime)) % Prime = (b + d) % Prime
      /\ ((a % Prime) * (c % Prime)) % Prime = (a * c) % Prime
      /\ ((b % Prime) * (d % Prime)) % Prime = (b * d) % Prime
  BY BothReduced, PrimeIs, Zenon
<1> QED BY <1>1, Zenon DEF Alike

(* Multiples of p do not matter. *)
LEMMA AlikeMultiples ==
  ASSUME NEW a \in Int, NEW q \in Int
  PROVE  Alike(a + q * Prime, a)
<1> DEFINE p == Prime
<1>1. p \in Nat \ {0}
  BY PrimeIs
<1> HIDE DEF p
<1>2. a + q * p \in Int /\ a + q * p = a + p * q
  BY <1>1
<1> QED BY <1>1, <1>2, SameRemainder DEF Alike, p

(* Nor does reducing. *)
LEMMA AlikeItself ==
  ASSUME NEW a \in Int
  PROVE  Alike(a % Prime, a) /\ a % Prime \in 0..(Prime - 1)
<1> DEFINE p == Prime
<1>1. p \in Nat \ {0}
  BY PrimeIs
<1> HIDE DEF p
<1>2. a % p \in 0..(p - 1)
  BY <1>1
<1>3. ((a % p) + 0) % p = (a + 0) % p
  <2>1. 0 \in Int
    OBVIOUS
  <2> QED BY <1>1, <2>1, ReducedFirst, Zenon
<1>4. a + 0 = a /\ (a % p) + 0 = a % p
  BY <1>2
<1> QED BY <1>2, <1>3, <1>4, Zenon DEF Alike, p

\* Ten numbers, of either sign, and their sum.
Total(t) == t[0] + t[1] + t[2] + t[3] + t[4] + t[5] + t[6] + t[7] + t[8] + t[9]

Tens == [Limbs -> Int]

(* u adds up the ten numbers t, as SumOver does. *)
Added(t, i, u) == IF i = -1 THEN 0 ELSE u[i - 1] + t[i]

\* u has the sums up to every place.
Sums(t, u) == u = [i \in -1..9 |-> Added(t, i, u)]

(* The places of a sum, one more and one less. *)
LEMMA ShortSteps ==
  /\ \A i \in 1..10 : i - 1 \in Limbs /\ i - 1 \in 0..10 /\ i \in 0..10
  /\ \A i \in -1..9 : /\ i + 1 \in 0..10
                      /\ i # -1 => /\ i + 1 \in 1..10 /\ (i + 1) - 1 = i
                                   /\ i \in Limbs /\ (i - 1) + 1 = i
                                   /\ i - 1 \in -1..9
                      /\ i = -1 => i + 1 = 0
  /\ 1 \in Int /\ 0 \in Int /\ 10 \in Nat
  BY DEF Limbs

(* Ten numbers have a sum. *)
LEMMA SumsExist ==
  ASSUME NEW t \in Tens
  PROVE  \E u : Sums(t, u)
<1> DEFINE G == [i \in 1..10 |-> [x \in Int |-> x + t[i - 1]]]
<1>1. \A i \in 1..10 : t[i - 1] \in Int
  BY ShortSteps DEF Tens
<1>2. \A i \in 1..10, x \in Int : x + t[i - 1] \in Int
  BY <1>1
<1>3. G \in [1..10 -> [Int -> Int]]
  BY <1>2
<1>4. PICK f \in [0..10 -> Int] :
        f[0] = 0 /\ \A i \in 1..10 : f[i] = G[i][f[i - 1]]
  <2> HIDE DEF G
  <2> QED BY <1>3, ShortSteps, StairsExist, Zenon
<1>5. \A i \in 1..10 : f[i] = f[i - 1] + t[i - 1]
  <2> TAKE i \in 1..10
  <2>1. f[i - 1] \in Int
    BY ShortSteps
  <2>2. f[i] = G[i][f[i - 1]]
    BY <1>4
  <2> QED BY <2>1, <2>2, Zenon
<1> DEFINE u == [i \in -1..9 |-> f[i + 1]]
<1>6. \A i \in -1..9 : f[i + 1] = Added(t, i, u)
  <2> TAKE i \in -1..9
  <2>1. CASE i = -1
    BY <1>4, <2>1, ShortSteps, Zenon DEF Added
  <2>2. CASE i # -1
    <3>1. u[i - 1] = f[i] /\ f[i + 1] = f[i] + t[i]
      <4>1. u[i - 1] = f[(i - 1) + 1] /\ (i - 1) + 1 = i
        BY <2>2, ShortSteps, Zenon
      <4>2. f[i + 1] = f[(i + 1) - 1] + t[(i + 1) - 1] /\ (i + 1) - 1 = i
        BY <1>5, <2>2, ShortSteps, Zenon
      <4> QED BY <4>1, <4>2, Zenon
    <3> HIDE DEF u
    <3> QED BY <2>2, <3>1, Zenon DEF Added
  <2> QED BY <2>1, <2>2
<1>7. Sums(t, u)
  BY <1>6, Zenon DEF Sums
<1> QED BY <1>7

(* It is their total. *)
LEMMA SumsTotal ==
  ASSUME NEW t \in Tens, NEW u, Sums(t, u)
  PROVE  u[9] = Total(t)
<1>1. \A i \in -1..9 : u[i] = Added(t, i, u)
  BY Zenon DEF Sums
<1>2. u[-1] = 0 /\ \A i \in Limbs : u[i] = u[i - 1] + t[i]
  <2>1. -1 \in -1..9 /\ \A i \in Limbs : i \in -1..9 /\ i # -1
    BY DEF Limbs
  <2> QED BY <1>1, <2>1, Zenon DEF Added
<1>3. /\ u[0] = u[-1] + t[0] /\ u[1] = u[0] + t[1] /\ u[2] = u[1] + t[2]
      /\ u[3] = u[2] + t[3] /\ u[4] = u[3] + t[4] /\ u[5] = u[4] + t[5]
      /\ u[6] = u[5] + t[6] /\ u[7] = u[6] + t[7] /\ u[8] = u[7] + t[8]
      /\ u[9] = u[8] + t[9]
  BY <1>2 DEF Limbs
<1>4. /\ t[0] \in Int /\ t[1] \in Int /\ t[2] \in Int /\ t[3] \in Int
      /\ t[4] \in Int /\ t[5] \in Int /\ t[6] \in Int /\ t[7] \in Int
      /\ t[8] \in Int /\ t[9] \in Int
  BY DEF Tens, Limbs
<1> QED BY <1>2, <1>3, <1>4 DEF Total

(* The total of integers is one. *)
LEMMA TotalType ==
  ASSUME NEW t \in Tens
  PROVE  Total(t) \in Int
  BY DEF Tens, Limbs, Total

(* Totals add up. *)
LEMMA TotalSum ==
  ASSUME NEW t \in Tens, NEW u \in Tens
  PROVE  /\ [i \in Limbs |-> t[i] + u[i]] \in Tens
         /\ Total([i \in Limbs |-> t[i] + u[i]]) = Total(t) + Total(u)
  BY DEF Tens, Limbs, Total

(* Totals multiply. *)
LEMMA TotalTimes ==
  ASSUME NEW t \in Tens, NEW c \in Int
  PROVE  /\ [i \in Limbs |-> t[i] * c] \in Tens
         /\ Total([i \in Limbs |-> t[i] * c]) = Total(t) * c
<1> DEFINE u == [i \in Limbs |-> t[i] * c]
<1>1. u \in Tens /\ \A i \in Limbs : t[i] \in Int /\ u[i] \in Int
  BY DEF Tens
<1>3. \A i \in Limbs : u[i] = t[i] * c
  OBVIOUS
<1> HIDE DEF u
<1> DEFINE a1 == t[0] + t[1]
           a2 == a1 + t[2]
           a3 == a2 + t[3]
           a4 == a3 + t[4]
           a5 == a4 + t[5]
           a6 == a5 + t[6]
           a7 == a6 + t[7]
           a8 == a7 + t[8]
           a9 == a8 + t[9]
           b1 == u[0] + u[1]
           b2 == b1 + u[2]
           b3 == b2 + u[3]
           b4 == b3 + u[4]
           b5 == b4 + u[5]
           b6 == b5 + u[6]
           b7 == b6 + u[7]
           b8 == b7 + u[8]
           b9 == b8 + u[9]
<1>4. \A k \in Limbs : t[k] \in Int /\ u[k] \in Int
  BY <1>1
<1>5. \A a, b, x, y \in Int :
        x = a * c /\ y = b * c => x + y = (a + b) * c /\ a + b \in Int /\ x + y \in Int
  OBVIOUS
<1>6. b1 = a1 * c /\ a1 \in Int /\ b1 \in Int
  BY <1>3, <1>4, <1>5 DEF Limbs
<1> HIDE DEF a1, b1
<1>7. b2 = a2 * c /\ a2 \in Int /\ b2 \in Int
  BY <1>3, <1>4, <1>5, <1>6 DEF Limbs
<1> HIDE DEF a2, b2
<1>8. b3 = a3 * c /\ a3 \in Int /\ b3 \in Int
  BY <1>3, <1>4, <1>5, <1>7 DEF Limbs
<1> HIDE DEF a3, b3
<1>9. b4 = a4 * c /\ a4 \in Int /\ b4 \in Int
  BY <1>3, <1>4, <1>5, <1>8 DEF Limbs
<1> HIDE DEF a4, b4
<1>10. b5 = a5 * c /\ a5 \in Int /\ b5 \in Int
  BY <1>3, <1>4, <1>5, <1>9 DEF Limbs
<1> HIDE DEF a5, b5
<1>11. b6 = a6 * c /\ a6 \in Int /\ b6 \in Int
  BY <1>3, <1>4, <1>5, <1>10 DEF Limbs
<1> HIDE DEF a6, b6
<1>12. b7 = a7 * c /\ a7 \in Int /\ b7 \in Int
  BY <1>3, <1>4, <1>5, <1>11 DEF Limbs
<1> HIDE DEF a7, b7
<1>13. b8 = a8 * c /\ a8 \in Int /\ b8 \in Int
  BY <1>3, <1>4, <1>5, <1>12 DEF Limbs
<1> HIDE DEF a8, b8
<1>14. b9 = a9 * c /\ a9 \in Int /\ b9 \in Int
  BY <1>3, <1>4, <1>5, <1>13 DEF Limbs
<1>15. Total(u) = b9 /\ Total(t) = a9
  BY Zenon DEF Total, a1, b1, a2, b2, a3, b3, a4, b4, a5, b5, a6, b6, a7, b7, a8, b8, a9, b9
<1> QED BY <1>1, <1>14, <1>15, Zenon DEF u

(* Ten numbers alike have totals alike. *)
LEMMA TotalAlike ==
  ASSUME NEW t \in Tens, NEW u \in Tens, \A i \in Limbs : Alike(t[i], u[i])
  PROVE  Alike(Total(t), Total(u))
<1>1. /\ t[0] \in Int /\ t[1] \in Int /\ t[2] \in Int /\ t[3] \in Int
      /\ t[4] \in Int /\ t[5] \in Int /\ t[6] \in Int /\ t[7] \in Int
      /\ t[8] \in Int /\ t[9] \in Int
  BY DEF Tens, Limbs
<1>2. /\ u[0] \in Int /\ u[1] \in Int /\ u[2] \in Int /\ u[3] \in Int
      /\ u[4] \in Int /\ u[5] \in Int /\ u[6] \in Int /\ u[7] \in Int
      /\ u[8] \in Int /\ u[9] \in Int
  BY DEF Tens, Limbs
<1>3. /\ Alike(t[0], u[0]) /\ Alike(t[1], u[1]) /\ Alike(t[2], u[2])
      /\ Alike(t[3], u[3]) /\ Alike(t[4], u[4]) /\ Alike(t[5], u[5])
      /\ Alike(t[6], u[6]) /\ Alike(t[7], u[7]) /\ Alike(t[8], u[8])
      /\ Alike(t[9], u[9])
  BY DEF Limbs
<1>4. \A a, b, c, d \in Int :
        Alike(a, b) /\ Alike(c, d)
          => Alike(a + c, b + d) /\ a + c \in Int /\ b + d \in Int
  BY AlikeSums
<1> DEFINE a1 == t[0] + t[1]
           a2 == a1 + t[2]
           a3 == a2 + t[3]
           a4 == a3 + t[4]
           a5 == a4 + t[5]
           a6 == a5 + t[6]
           a7 == a6 + t[7]
           a8 == a7 + t[8]
           a9 == a8 + t[9]
           b1 == u[0] + u[1]
           b2 == b1 + u[2]
           b3 == b2 + u[3]
           b4 == b3 + u[4]
           b5 == b4 + u[5]
           b6 == b5 + u[6]
           b7 == b6 + u[7]
           b8 == b7 + u[8]
           b9 == b8 + u[9]
<1>5. Alike(a1, b1) /\ a1 \in Int /\ b1 \in Int
  BY <1>1, <1>2, <1>3, <1>4, Zenon
<1> HIDE DEF a1, b1
<1>6. Alike(a2, b2) /\ a2 \in Int /\ b2 \in Int
  BY <1>1, <1>2, <1>3, <1>4, <1>5, Zenon
<1> HIDE DEF a2, b2
<1>7. Alike(a3, b3) /\ a3 \in Int /\ b3 \in Int
  BY <1>1, <1>2, <1>3, <1>4, <1>6, Zenon
<1> HIDE DEF a3, b3
<1>8. Alike(a4, b4) /\ a4 \in Int /\ b4 \in Int
  BY <1>1, <1>2, <1>3, <1>4, <1>7, Zenon
<1> HIDE DEF a4, b4
<1>9. Alike(a5, b5) /\ a5 \in Int /\ b5 \in Int
  BY <1>1, <1>2, <1>3, <1>4, <1>8, Zenon
<1> HIDE DEF a5, b5
<1>10. Alike(a6, b6) /\ a6 \in Int /\ b6 \in Int
  BY <1>1, <1>2, <1>3, <1>4, <1>9, Zenon
<1> HIDE DEF a6, b6
<1>11. Alike(a7, b7) /\ a7 \in Int /\ b7 \in Int
  BY <1>1, <1>2, <1>3, <1>4, <1>10, Zenon
<1> HIDE DEF a7, b7
<1>12. Alike(a8, b8) /\ a8 \in Int /\ b8 \in Int
  BY <1>1, <1>2, <1>3, <1>4, <1>11, Zenon
<1> HIDE DEF a8, b8
<1>13. Alike(a9, b9) /\ a9 \in Int /\ b9 \in Int
  BY <1>1, <1>2, <1>3, <1>4, <1>12, Zenon
<1>14. Total(t) = a9 /\ Total(u) = b9
  BY Zenon DEF Total, a1, b1, a2, b2, a3, b3, a4, b4, a5, b5, a6, b6, a7, b7, a8, b8, a9, b9
<1> QED BY <1>13, <1>14, Zenon

(* Something moves from one place to the next. *)
LEMMA TotalMove ==
  ASSUME NEW t \in Tens, NEW u \in Tens, NEW i \in Limbs, NEW d \in Int, NEW e \in Int,
         u[i] = t[i] - d, u[(i + 1) % 10] = t[(i + 1) % 10] + e,
         \A k \in Limbs : k # i /\ k # (i + 1) % 10 => u[k] = t[k]
  PROVE  Total(u) = Total(t) + (e - d)
<1>1. /\ t[0] \in Int /\ t[1] \in Int /\ t[2] \in Int /\ t[3] \in Int
      /\ t[4] \in Int /\ t[5] \in Int /\ t[6] \in Int /\ t[7] \in Int
      /\ t[8] \in Int /\ t[9] \in Int
  BY DEF Tens, Limbs
<1>2. \A k \in 0..9 : k # i /\ k # (i + 1) % 10 => u[k] = t[k]
  BY DEF Limbs
<1>3. CASE i = 0
  <2>1. (i + 1) % 10 = 1
    BY <1>3
  <2> QED BY <1>1, <1>2, <1>3, <2>1 DEF Total
<1>4. CASE i = 1
  <2>1. (i + 1) % 10 = 2
    BY <1>4
  <2> QED BY <1>1, <1>2, <1>4, <2>1 DEF Total
<1>5. CASE i = 2
  <2>1. (i + 1) % 10 = 3
    BY <1>5
  <2> QED BY <1>1, <1>2, <1>5, <2>1 DEF Total
<1>6. CASE i = 3
  <2>1. (i + 1) % 10 = 4
    BY <1>6
  <2> QED BY <1>1, <1>2, <1>6, <2>1 DEF Total
<1>7. CASE i = 4
  <2>1. (i + 1) % 10 = 5
    BY <1>7
  <2> QED BY <1>1, <1>2, <1>7, <2>1 DEF Total
<1>8. CASE i = 5
  <2>1. (i + 1) % 10 = 6
    BY <1>8
  <2> QED BY <1>1, <1>2, <1>8, <2>1 DEF Total
<1>9. CASE i = 6
  <2>1. (i + 1) % 10 = 7
    BY <1>9
  <2> QED BY <1>1, <1>2, <1>9, <2>1 DEF Total
<1>10. CASE i = 7
  <2>1. (i + 1) % 10 = 8
    BY <1>10
  <2> QED BY <1>1, <1>2, <1>10, <2>1 DEF Total
<1>11. CASE i = 8
  <2>1. (i + 1) % 10 = 9
    BY <1>11
  <2> QED BY <1>1, <1>2, <1>11, <2>1 DEF Total
<1>12. CASE i = 9
  <2>1. (i + 1) % 10 = 0
    BY <1>12
  <2> QED BY <1>1, <1>2, <1>12, <2>1 DEF Total
<1> QED BY <1>3, <1>4, <1>5, <1>6, <1>7, <1>8, <1>9, <1>10, <1>11, <1>12 DEF Limbs

\* Limbs at their weights.
Weighed(h) == [i \in Limbs |-> h[i] * Weight[i]]

(* The number that limbs stand for. *)
Value(h) == Total(Weighed(h))

(* Limbs that are integers have a value. *)
LEMMA WeighedType ==
  ASSUME NEW h \in Tens
  PROVE  Weighed(h) \in Tens /\ Value(h) \in Int
<1>1. \A i \in Limbs : h[i] * Weight[i] \in Int
  <2> TAKE i \in Limbs
  <2>1. h[i] \in Int
    BY DEF Tens
  <2>2. Weight[i] \in Int
    BY Weights DEF Limbs
  <2> QED BY <2>1, <2>2
<1>2. Weighed(h) \in Tens
  BY <1>1 DEF Weighed, Tens
<1> QED BY <1>2, TotalType DEF Value

(* A carry of any size leaves the value alike: from the last limb it folds. *)
LEMMA CarriedAlike ==
  ASSUME NEW h \in Tens, NEW i \in Limbs, NEW c \in Int
  PROVE  Carried(h, i, c) \in Tens /\ Alike(Value(Carried(h, i, c)), Value(h))
<1> DEFINE g == Carried(h, i, c)
           j == (i + 1) % 10
           up == IF i = 9 THEN FOLD * c ELSE c
           t == Weighed(h)
           u == Weighed(g)
           d == c * Radix(i) * Weight[i]
           e == up * Weight[j]
<1>1. /\ j \in Limbs /\ j # i /\ i \in Int
      /\ up \in Int /\ Radix(i) \in Int
      /\ Weight[i] \in Int /\ Weight[j] \in Int
      /\ h[i] \in Int /\ h[j] \in Int
  <2>1. j \in 0..9 /\ j # i /\ i \in 0..9 /\ i \in Int
    BY DEF Limbs
  <2> HIDE DEF j
  <2>2. Weight[i] \in Int /\ Weight[j] \in Int
    BY <2>1, Weights
  <2>3. h[i] \in Int /\ h[j] \in Int
    BY <2>1 DEF Tens, Limbs
  <2>4. Radix(i) \in Int /\ FOLD \in Int
    BY <2>1, Radices
  <2>5. up \in Int
    BY <2>4
  <2> QED BY <2>1, <2>2, <2>3, <2>4, <2>5 DEF Limbs
<1>2. /\ g \in Tens /\ g[i] = h[i] - c * Radix(i) /\ g[j] = h[j] + up
      /\ \A k \in Limbs : k # i /\ k # j => g[k] = h[k]
  <2> HIDE DEF j, up
  <2>1. g = [h EXCEPT ![i] = h[i] - c * Radix(i), ![j] = h[j] + up]
    BY <1>1, Zenon DEF Carried, j, up
  <2> HIDE DEF g
  <2> DEFINE x == h[i] - c * Radix(i)
             y == h[j] + up
  <2>2. x \in Int /\ y \in Int
    BY <1>1
  <2> HIDE DEF x, y
  <2>3. g = [h EXCEPT ![i] = x, ![j] = y]
    BY <2>1 DEF x, y
  <2>4. g \in Tens /\ g[i] = x /\ g[j] = y /\ \A k \in Limbs : k # i /\ k # j => g[k] = h[k]
    BY <1>1, <2>2, <2>3 DEF Tens
  <2> QED BY <2>4 DEF x, y
<1>3. t \in Tens /\ u \in Tens
  BY <1>2, WeighedType
<1>4. u[i] = t[i] - d /\ u[j] = t[j] + e /\ d \in Int /\ e \in Int
  <2>1. /\ u[i] = g[i] * Weight[i] /\ u[j] = g[j] * Weight[j]
        /\ t[i] = h[i] * Weight[i] /\ t[j] = h[j] * Weight[j]
    BY <1>1, Zenon DEF Weighed
  <2> HIDE DEF t, u, g, j, up
  <2> QED BY <1>1, <1>2, <2>1
<1>5. \A k \in Limbs : k # i /\ k # j => u[k] = t[k]
  <2> HIDE DEF g, j
  <2> QED BY <1>2 DEF Weighed
<1>6. Value(g) = Value(h) + (e - d)
  <2> HIDE DEF t, u, g, d, e, up
  <2>1. Total(u) = Total(t) + (e - d)
    BY <1>3, <1>4, <1>5, TotalMove
  <2> QED BY <2>1 DEF Value, t, u
<1>7. e - d = 0 \/ e - d = (-c) * Prime
  <2>1. CASE i # 9
    <3>1. i \in 0..9 /\ i + 1 \in 0..9 /\ j = i + 1
      BY <2>1 DEF Limbs
    <3>2. Weight[j] = Weight[i] * Radix(i)
      BY <3>1, Weights, Zenon
    <3>3. up = c
      BY <2>1
    <3> HIDE DEF j, up
    <3>4. e = d
      BY <1>1, <3>2, <3>3
    <3> QED BY <1>4, <3>4
  <2>2. CASE i = 9
    <3>1. j = 0 /\ Weight[j] = 1 /\ 9 + 1 = 10 /\ 9 \in 0..9
      BY <2>2, Weights
    <3>2. Weight[10] = Weight[i] * Radix(i)
      BY <2>2, <3>1, Weights, Zenon
    <3>3. up = FOLD * c
      BY <2>2
    <3> HIDE DEF j, up
    <3>4. e = FOLD * c /\ d = c * Weight[10] /\ FOLD \in Int /\ Prime \in Int
      BY <1>1, <3>1, <3>2, <3>3, Radices, PrimeIs
    <3> QED BY <3>4, PrimeIs
  <2> QED BY <2>1, <2>2
<1>8. Alike(Value(g), Value(h))
  <2> HIDE DEF g, d, e
  <2>1. Value(h) \in Int
    BY WeighedType
  <2>2. CASE e - d = 0
    BY <1>6, <2>1, <2>2 DEF Alike
  <2>3. CASE e - d = (-c) * Prime
    <3>1. -c \in Int
      OBVIOUS
    <3> QED BY <1>6, <2>1, <2>3, <3>1, AlikeMultiples
  <2> QED BY <1>7, <2>2, <2>3
<1> QED BY <1>2, <1>8

(* Carries keep the number. *)
LEMMA CarriesAlike ==
  ASSUME NEW h \in Tens
  PROVE  /\ CarryProduct(h) \in Tens /\ Alike(Value(CarryProduct(h)), Value(h))
         /\ CarryOnce(h) \in Tens /\ Alike(Value(CarryOnce(h)), Value(h))
<1> DEFINE K == {v \in Tens : Alike(Value(v), Value(h))}
<1>1. h \in K
  BY DEF Alike
<1>2. \A v \in K, i \in Limbs : Carry(v, i) \in K
  <2> TAKE v \in K, i \in Limbs
  <2>1. v \in Tens /\ Alike(Value(v), Value(h))
    OBVIOUS
  <2>2. v[i] \in Int /\ Radix(i) \in Nat \ {0}
    BY <2>1, Radices DEF Tens, Limbs
  <2> DEFINE c == (v[i] + Radix(i) \div 2) \div Radix(i)
  <2>3. c \in Int
    BY <2>2
  <2> HIDE DEF c
  <2>4. Carried(v, i, c) \in Tens /\ Alike(Value(Carried(v, i, c)), Value(v))
    BY <2>1, <2>3, CarriedAlike
  <2>5. Carry(v, i) = Carried(v, i, c)
    BY Zenon DEF Carry, c
  <2> QED BY <2>1, <2>4, <2>5 DEF Alike
<1> HIDE DEF K
<1> DEFINE p == <<0, 4, 1, 5, 2, 6, 3, 7, 4, 8, 9, 0>>
           o == <<9, 1, 3, 5, 7, 0, 2, 4, 6, 8>>
<1>3. DOMAIN p = 1..12 /\ \A k \in 1..12 : p[k] \in Limbs
  BY DEF Limbs
<1>4. DOMAIN o = 1..10 /\ \A k \in 1..10 : o[k] \in Limbs
  BY DEF Limbs
<1>5. 12 \in Nat /\ 10 \in Nat
  OBVIOUS
<1> HIDE DEF p, o
<1>6. FoldLeft(Carry, h, p) \in K
  BY <1>1, <1>2, <1>3, <1>5, CarriesStay, Zenon
<1>7. FoldLeft(Carry, h, o) \in K
  BY <1>1, <1>2, <1>4, <1>5, CarriesStay, Zenon
<1>8. CarryProduct(h) \in K /\ CarryOnce(h) \in K
  BY <1>6, <1>7, Zenon DEF CarryProduct, CarryOnce, p, o
<1> QED BY <1>8 DEF K

(* The parts of a number above place i, as NumberOf goes through them. *)
Below(h, i, f) ==
  IF i = 10 THEN 0 ELSE (f[i + 1] * Radix(i) + h[i]) % Prime

\* f has those of every place.
Downward(h, f) == f = [i \in 0..10 |-> Below(h, i, f)]

(* The places that NumberOf goes through, from the last to the first. *)
LEMMA Countdown ==
  /\ \A i \in 1..10 : /\ 10 - i \in 0..9 /\ 10 - i \in Limbs /\ 10 - i \in 0..10
                      /\ (10 - i) + 1 = 10 - (i - 1)
                      /\ i - 1 \in 0..10
  /\ \A i \in 0..10 : /\ 10 - i \in 0..10 /\ 10 - (10 - i) = i
                      /\ i # 10 => /\ i + 1 \in 0..10 /\ 10 - i \in 1..10
                                   /\ i \in Limbs /\ i \in 0..9
                                   /\ (10 - i) - 1 = 10 - (i + 1)
  /\ 0 \in Int /\ 10 \in Nat /\ 10 - 10 = 0 /\ 0 \in 0..10 /\ 10 - 0 = 10
  BY DEF Limbs

(* NumberOf has its intermediate numbers. *)
LEMMA DownwardExists ==
  ASSUME NEW h \in Tens
  PROVE  \E f : Downward(h, f)
<1> DEFINE v(i, x) == (x * Radix(10 - i) + h[10 - i]) % Prime
           G == [i \in 1..10 |-> [x \in Int |-> v(i, x)]]
<1>1. \A i \in 1..10, x \in Int : v(i, x) \in Int
  <2> TAKE i \in 1..10, x \in Int
  <2>1. 10 - i \in Int /\ 10 - i \in Limbs
    BY Countdown
  <2>2. Radix(10 - i) \in Int /\ h[10 - i] \in Int
    BY <2>1, Radices DEF Tens
  <2>3. x * Radix(10 - i) + h[10 - i] \in Int
    BY <2>2
  <2> QED BY <2>3, PrimeIs
<1> HIDE DEF v
<1>2. G \in [1..10 -> [Int -> Int]]
  BY <1>1
<1>3. PICK c \in [0..10 -> Int] :
        c[0] = 0 /\ \A i \in 1..10 : c[i] = G[i][c[i - 1]]
  <2> HIDE DEF G
  <2> QED BY <1>2, Countdown, StairsExist, Zenon
<1>4. \A i \in 1..10 : c[i] = v(i, c[i - 1])
  <2> TAKE i \in 1..10
  <2>1. c[i - 1] \in Int
    BY Countdown
  <2>2. c[i] = G[i][c[i - 1]]
    BY <1>3
  <2> QED BY <2>1, <2>2, Zenon
<1> DEFINE f == [i \in 0..10 |-> c[10 - i]]
<1>5. \A i \in 0..10 : c[10 - i] = Below(h, i, f)
  <2> TAKE i \in 0..10
  <2>1. CASE i = 10
    <3>1. c[10 - i] = 0
      BY <1>3, <2>1, Countdown, Zenon
    <3> QED BY <2>1, <3>1, Zenon DEF Below
  <2>2. CASE i # 10
    <3>1. /\ f[i + 1] = c[10 - (i + 1)] /\ (10 - i) - 1 = 10 - (i + 1)
          /\ 10 - (10 - i) = i /\ 10 - i \in 1..10
      BY <2>2, Countdown, Zenon
    <3>2. c[10 - i] = v(10 - i, c[10 - (i + 1)])
      BY <1>4, <3>1, Zenon
    <3>3. v(10 - i, c[10 - (i + 1)]) = (c[10 - (i + 1)] * Radix(i) + h[i]) % Prime
      BY <3>1, Zenon DEF v
    <3> HIDE DEF f
    <3> QED BY <2>2, <3>1, <3>2, <3>3, Zenon DEF Below
  <2> QED BY <2>1, <2>2
<1>6. Downward(h, f)
  BY <1>5, Zenon DEF Downward
<1> QED BY <1>6

(* One step of it: what is above place i, weighed. *)
LEMMA HornerStep ==
  ASSUME NEW x \in Int, NEW r \in Int, NEW y \in Int, NEW w \in Int,
         NEW v \in Int, NEW s \in Int, v = w * r, Alike(x * v, s)
  PROVE  Alike(((x * r + y) % Prime) * w, s + y * w)
<1> DEFINE z == x * r + y
<1>1. z \in Int /\ z * w = x * v + y * w /\ x * v \in Int /\ y * w \in Int
  <2>1. x * v = (x * r) * w
    OBVIOUS
  <2>2. \A a, b \in Int : (a + b) * w = a * w + b * w
    OBVIOUS
  <2>3. x * r \in Int
    OBVIOUS
  <2>4. z * w = (x * r) * w + y * w
    BY <2>2, <2>3
  <2> QED BY <2>1, <2>3, <2>4
<1> HIDE DEF z
<1>2. Alike((z % Prime) * w, z * w)
  <2>1. Alike(z % Prime, z) /\ z % Prime \in Int
    BY <1>1, AlikeItself
  <2>2. Alike(w, w)
    BY DEF Alike
  <2> QED BY <1>1, <2>1, <2>2, AlikeSums
<1>3. Alike(x * v + y * w, s + y * w)
  <2>1. Alike(y * w, y * w)
    BY DEF Alike
  <2> QED BY <1>1, <2>1, AlikeSums
<1> QED BY <1>1, <1>2, <1>3, Zenon DEF Alike, z

(* The number that limbs stand for is their value modulo p. *)
LEMMA NumberIsValue ==
  ASSUME NEW h \in Tens
  PROVE  NumberOf(h) = Value(h) % Prime
<1> DEFINE f == CHOOSE f : Downward(h, f)
           t == Weighed(h)
<1>1. Downward(h, f)
  BY DownwardExists, Zenon
<1>2. NumberOf(h) = f[0]
  BY Zenon DEF NumberOf, Downward, Below
<1> HIDE DEF f
<1>3. \A i \in 0..10 : f[i] = Below(h, i, f)
  BY <1>1, Zenon DEF Downward
<1>4. f[10] = 0
  BY <1>3, Countdown, Zenon DEF Below
<1>5. \A i \in 0..9 : f[i] = (f[i + 1] * Radix(i) + h[i]) % Prime
  <2>1. \A i \in 0..9 : i \in 0..10 /\ i # 10
    OBVIOUS
  <2> QED BY <1>3, <2>1, Zenon DEF Below
<1>6. \A i \in 0..9 : /\ Radix(i) \in Int /\ h[i] \in Int /\ Weight[i] \in Int
                      /\ Weight[i + 1] = Weight[i] * Radix(i)
                      /\ Weight[i + 1] \in Int
                      /\ t[i] = h[i] * Weight[i] /\ t[i] \in Int
  <2> TAKE i \in 0..9
  <2>1. i \in Limbs /\ i \in 0..10 /\ i + 1 \in 0..10 /\ i \in Int
    BY DEF Limbs
  <2>2. t[i] = h[i] * Weight[i]
    BY <2>1, Zenon DEF Weighed
  <2>3. t[i] \in Int
    BY <2>1, WeighedType DEF Tens
  <2> HIDE DEF t
  <2> QED BY <2>1, <2>2, <2>3, Weights, Radices DEF Tens
<1> HIDE DEF t
<1>7. \A i \in 0..9, s \in Int :
        f[i + 1] \in Int /\ Alike(f[i + 1] * Weight[i + 1], s)
          => f[i] \in Int /\ Alike(f[i] * Weight[i], s + t[i]) /\ s + t[i] \in Int
  <2> TAKE i \in 0..9, s \in Int
  <2> HAVE f[i + 1] \in Int /\ Alike(f[i + 1] * Weight[i + 1], s)
  <2> DEFINE x == f[i + 1]
             r == Radix(i)
             y == h[i]
             w == Weight[i]
             v == Weight[i + 1]
             u == t[i]
  <2>1. /\ x \in Int /\ r \in Int /\ y \in Int /\ w \in Int /\ v \in Int
        /\ v = w * r /\ u = y * w /\ u \in Int /\ Alike(x * v, s)
        /\ f[i] = (x * r + y) % Prime
    BY <1>5, <1>6
  <2> HIDE DEF x, r, y, w, v, u
  <2>2. Alike(((x * r + y) % Prime) * w, s + y * w)
    BY <2>1, HornerStep
  <2>3. (x * r + y) % Prime \in Int
    <3>1. x * r + y \in Int
      BY <2>1
    <3> QED BY <3>1, AlikeItself
  <2>4. f[i] \in Int /\ Alike(f[i] * w, s + u) /\ s + u \in Int
    BY <2>1, <2>2, <2>3
  <2> QED BY <2>4 DEF w, u
<1> DEFINE s9 == 0 + t[9]
           s8 == s9 + t[8]
           s7 == s8 + t[7]
           s6 == s7 + t[6]
           s5 == s6 + t[5]
           s4 == s5 + t[4]
           s3 == s4 + t[3]
           s2 == s3 + t[2]
           s1 == s2 + t[1]
           s0 == s1 + t[0]
           Up(i, s) == f[i] \in Int /\ Alike(f[i] * Weight[i], s) /\ s \in Int
<1>8. f[10] \in Int /\ Alike(f[10] * Weight[10], 0)
  <2>1. Weight[10] \in Int
    BY Weights
  <2> QED BY <1>4, <2>1 DEF Alike
<1>9. \A i \in 0..9, s \in Int : Up(i + 1, s) => Up(i, s + t[i])
  BY <1>7, Zenon
<1>10. Up(10, 0)
  BY <1>8
<1> HIDE DEF Up
<1>11. Up(9, s9)
  BY <1>9, <1>10
<1>12. Up(8, s8)
  <2>1. s9 \in Int
    BY <1>11 DEF Up
  <2> HIDE DEF s9
  <2> QED BY <1>9, <1>11, <2>1
<1>13. Up(7, s7)
  <2>1. s8 \in Int
    BY <1>12 DEF Up
  <2> HIDE DEF s8
  <2> QED BY <1>9, <1>12, <2>1
<1>14. Up(6, s6)
  <2>1. s7 \in Int
    BY <1>13 DEF Up
  <2> HIDE DEF s7
  <2> QED BY <1>9, <1>13, <2>1
<1>15. Up(5, s5)
  <2>1. s6 \in Int
    BY <1>14 DEF Up
  <2> HIDE DEF s6
  <2> QED BY <1>9, <1>14, <2>1
<1>16. Up(4, s4)
  <2>1. s5 \in Int
    BY <1>15 DEF Up
  <2> HIDE DEF s5
  <2> QED BY <1>9, <1>15, <2>1
<1>17. Up(3, s3)
  <2>1. s4 \in Int
    BY <1>16 DEF Up
  <2> HIDE DEF s4
  <2> QED BY <1>9, <1>16, <2>1
<1>18. Up(2, s2)
  <2>1. s3 \in Int
    BY <1>17 DEF Up
  <2> HIDE DEF s3
  <2> QED BY <1>9, <1>17, <2>1
<1>19. Up(1, s1)
  <2>1. s2 \in Int
    BY <1>18 DEF Up
  <2> HIDE DEF s2
  <2> QED BY <1>9, <1>18, <2>1
<1>20. Up(0, s0)
  <2>1. s1 \in Int
    BY <1>19 DEF Up
  <2> HIDE DEF s1
  <2> QED BY <1>9, <1>19, <2>1
<1>21. s0 = Value(h) /\ Value(h) \in Int
  <2>1. \A i \in 0..9 : t[i] \in Int
    BY <1>6
  <2>2. s0 = Total(t)
    BY <2>1 DEF Total
  <2> QED BY <2>2, WeighedType DEF Value, t
<1> HIDE DEF s0
<1>22. f[0] \in Int /\ Alike(f[0] * 1, Value(h))
  BY <1>20, <1>21, Weights DEF Up
<1>23. f[0] = (f[1] * Radix(0) + h[0]) % Prime /\ f[1] * Radix(0) + h[0] \in Int
  <2>1. f[1] \in Int
    BY <1>19 DEF Up
  <2> QED BY <1>5, <1>6, <2>1
<1>24. f[0] \in 0..(Prime - 1)
  BY <1>23, AlikeItself
<1>25. f[0] % Prime = f[0]
  BY <1>24, PrimeIs
<1>26. f[0] * 1 = f[0]
  BY <1>22
<1> QED BY <1>2, <1>22, <1>25, <1>26, Zenon DEF Alike

(* Weights go on beyond the tenth. *)
Beyond(n) == IF n <= 10 THEN Weight[n] ELSE Weight[n - 10] * Weight[10]

(* What two odd places have to spare. *)
Spare(i, j) == IF i % 2 = 1 /\ j % 2 = 1 THEN 2 ELSE 1

(* The radices of the weights beyond the tenth are those of the first ten. *)
LEMMA BeyondGrows ==
  ASSUME NEW n \in 0..18
  PROVE  Beyond(n + 1) = Beyond(n) * Radix(n) /\ Beyond(n) \in Int
<1>1. CASE n <= 9
  <2>1. n \in 0..9 /\ n \in 0..10 /\ n <= 10 /\ n + 1 <= 10
    BY <1>1
  <2> QED BY <2>1, Weights DEF Beyond
<1>2. CASE n > 9
  <2>1. /\ n - 10 \in 0..9 /\ n - 10 \in 0..10 /\ (n + 1) - 10 = (n - 10) + 1
        /\ ~(n + 1 <= 10)
    BY <1>2
  <2>2. Radix(n - 10) = Radix(n)
    <3>1. (n - 10) % 2 = n % 2
      OBVIOUS
    <3> QED BY <3>1 DEF Radix
  <2>3. Weight[(n - 10) + 1] = Weight[n - 10] * Radix(n - 10)
    BY <2>1, Weights
  <2>4. Weight[10] \in Int /\ Weight[n - 10] \in Int /\ Radix(n) \in Int /\ Weight[0] = 1
    BY <2>1, Weights, Radices
  <2>5. Beyond(n) = Weight[n - 10] * Weight[10]
    <3>1. CASE n = 10
      BY <2>4, <3>1 DEF Beyond
    <3>2. CASE n # 10
      BY <1>2, <3>2 DEF Beyond
    <3> QED BY <3>1, <3>2
  <2>6. Beyond(n + 1) = Weight[(n - 10) + 1] * Weight[10]
    BY <2>1 DEF Beyond
  <2>7. \A x, y, z \in Int : (x * y) * z = (x * z) * y /\ x * z \in Int
    OBVIOUS
  <2> QED BY <2>2, <2>3, <2>4, <2>5, <2>6, <2>7
<1> QED BY <1>1, <1>2

(* The factor that two odd places have to spare, a place further on. *)
LEMMA SpareFactor ==
  ASSUME NEW i \in Limbs, NEW j \in 0..9
  PROVE  Spare(i, j) * Radix(j) = Spare(i, j + 1) * Radix(i + j)
<1>1. /\ i \in Nat /\ i % 2 \in {0, 1} /\ j % 2 \in {0, 1}
      /\ (j + 1) % 2 = 1 - (j % 2) 
      /\ (i + j) % 2 = IF i % 2 = j % 2 THEN 0 ELSE 1
  BY DEF Limbs
<1>2. OddRadix \in Int
  BY Radices
<1> QED BY <1>1, <1>2 DEF Spare, Radix

(* The weights of two limbs multiply to that of the sum of their places. *)
LEMMA WeightsMultiply ==
  ASSUME NEW i \in Limbs, NEW j \in Limbs
  PROVE  Weight[i] * Weight[j] = Spare(i, j) * Beyond(i + j)
<1> DEFINE T == {k \in 0..9 : Weight[i] * Weight[k] # Spare(i, k) * Beyond(i + k)}
<1> SUFFICES ASSUME T # {} PROVE FALSE
  BY DEF Limbs
<1>1. PICK k \in T : \A n \in T : k <= n
  <2>1. T \subseteq Nat
    OBVIOUS
  <2> HIDE DEF T
  <2> QED BY <2>1, LeastOf
<1>2. k \in 0..9 /\ Weight[i] * Weight[k] # Spare(i, k) * Beyond(i + k)
  BY <1>1
<1>3. i \in 0..9 /\ i \in 0..10 /\ i <= 10 /\ Weight[i] \in Int
  <2>1. i \in 0..9 /\ i \in 0..10 /\ i <= 10
    BY DEF Limbs
  <2> QED BY <2>1, Weights
<1>4. k # 0
  <2>1. Spare(i, 0) = 1 /\ Beyond(i + 0) = Weight[i] /\ Weight[0] = 1
    <3>1. 0 % 2 = 0
      OBVIOUS
    <3> QED BY <1>3, <3>1, Weights DEF Spare, Beyond
  <2> HIDE DEF T
  <2>2. Weight[i] * Weight[0] = Spare(i, 0) * Beyond(i + 0)
    BY <1>3, <2>1
  <2> QED BY <1>2, <2>2
<1> DEFINE m == k - 1
<1>5. m \in 0..9 /\ k = m + 1 /\ i + m \in 0..18 /\ i + k = (i + m) + 1
  BY <1>2, <1>3, <1>4
<1>6. Weight[i] * Weight[m] = Spare(i, m) * Beyond(i + m)
  <2>1. m \notin T
    <3> HIDE DEF T
    <3>1. k \in 0..9 /\ (m \in T => k <= m)
      BY <1>1, <1>2, Zenon
    <3> QED BY <1>5, <3>1
  <2> QED BY <1>5, <2>1
<1> HIDE DEF T, m
<1>7. /\ Weight[m + 1] = Weight[m] * Radix(m) /\ Weight[m] \in Int
      /\ Radix(m) \in Int
  <2>1. m \in 0..10 /\ m \in Int
    BY <1>5
  <2> QED BY <1>5, <2>1, Weights, Radices
<1>8. Beyond((i + m) + 1) = Beyond(i + m) * Radix(i + m) /\ Beyond(i + m) \in Int
  BY <1>5, BeyondGrows
<1>9. /\ Spare(i, m) * Radix(m) = Spare(i, m + 1) * Radix(i + m)
      /\ Radix(i + m) \in Int /\ Spare(i, m) \in Int /\ Spare(i, m + 1) \in Int
  <2>1. i + m \in Int
    BY <1>5
  <2>2. Spare(i, m) * Radix(m) = Spare(i, m + 1) * Radix(i + m)
    BY <1>5, SpareFactor, Zenon
  <2>3. \A x, y : Spare(x, y) \in Int
    BY DEF Spare
  <2> QED BY <2>1, <2>2, <2>3, Radices
<1>10. Weight[i] * Weight[k] = Spare(i, k) * Beyond(i + k)
  <2> DEFINE a == Weight[i]
             b == Weight[m]
             r == Radix(m)
             s == Spare(i, m)
             q == Beyond(i + m)
             z == Spare(i, m + 1)
             y == Radix(i + m)
  <2>1. /\ a \in Int /\ b \in Int /\ r \in Int /\ s \in Int /\ q \in Int
        /\ z \in Int /\ y \in Int
        /\ a * b = s * q /\ s * r = z * y
    BY <1>3, <1>6, <1>7, <1>8, <1>9
  <2>2. Weight[k] = b * r /\ Beyond(i + k) = q * y /\ Spare(i, k) = z
    BY <1>5, <1>7, <1>8
  <2> HIDE DEF a, b, r, s, q, z, y
  <2>3. a * (b * r) = z * (q * y)
    <3>1. a * (b * r) = (a * b) * r
      BY <2>1
    <3>2. (s * q) * r = (s * r) * q
      BY <2>1
    <3>3. (z * y) * q = z * (q * y)
      BY <2>1
    <3> QED BY <2>1, <3>1, <3>2, <3>3
  <2> QED BY <2>2, <2>3 DEF a
<1> QED BY <1>2, <1>10

(* What limbs i and j contribute to limb k is what their weighed product is. *)
LEMMA CrossAlike ==
  ASSUME NEW f \in Tens, NEW g \in Tens, NEW i \in Limbs, NEW k \in Limbs
  PROVE  /\ Cross(f, g, i, (k - i) % 10) \in Int
         /\ Alike(Cross(f, g, i, (k - i) % 10) * Weight[k],
                  Weighed(f)[i] * Weighed(g)[(k - i) % 10])
<1> DEFINE j == (k - i) % 10
           x == f[i]
           y == g[j]
           s == Spare(i, j)
           a == Weight[i]
           b == Weight[j]
           w == Weight[k]
           F == IF i + j >= 10 THEN FOLD ELSE 1
<1>1. /\ j \in Limbs /\ i \in Limbs /\ k \in Limbs
      /\ i + j = IF i + j >= 10 THEN k + 10 ELSE k
  <2>1. i \in 0..9 /\ k \in 0..9
    BY DEF Limbs
  <2>2. j = IF k >= i THEN k - i ELSE k - i + 10
    BY <2>1
  <2> HIDE DEF j
  <2> QED BY <2>1, <2>2 DEF Limbs
<1>2. Cross(f, g, i, j) = x * y * s * F
  BY Zenon DEF Cross, Spare
<1>3. Weighed(f)[i] = x * a /\ Weighed(g)[j] = y * b
  BY <1>1, Zenon DEF Weighed
<1>4. /\ x \in Int /\ y \in Int /\ s \in Int /\ a \in Int /\ b \in Int
      /\ w \in Int /\ F \in Int /\ FOLD \in Int /\ Prime \in Int
      /\ Weight[10] = Prime + FOLD
  <2> HIDE DEF j
  <2>1. x \in Int /\ y \in Int
    BY <1>1 DEF Tens
  <2>2. a \in Int /\ b \in Int /\ w \in Int
    BY <1>1, Weights DEF Limbs
  <2>3. s \in Int /\ FOLD \in Int /\ F \in Int
    BY Radices DEF Spare
  <2> QED BY <2>1, <2>2, <2>3, PrimeIs
<1>5. a * b = s * Beyond(i + j)
  BY <1>1, WeightsMultiply
<1>6. CASE i + j >= 10
  <2>1. Beyond(i + j) = w * Weight[10] /\ F = FOLD
    <3>1. i + j = k + 10
      BY <1>1, <1>6
    <3>2. CASE k = 0
      BY <1>4, <1>6, <3>1, <3>2, Weights DEF Beyond
    <3>3. CASE k # 0
      <4>1. k \in 0..9 /\ ~(k + 10 <= 10) /\ (k + 10) - 10 = k
        BY <3>3 DEF Limbs
      <4> QED BY <1>6, <3>1, <4>1 DEF Beyond
    <3> QED BY <3>2, <3>3
  <2> DEFINE q == x * y * s * w
  <2>2. (x * a) * (y * b) = (x * y * s * F) * w + q * Prime /\ q \in Int
    <3>1. a * b = s * (w * (Prime + FOLD))
      BY <1>4, <1>5, <2>1
    <3>2. F = FOLD
      BY <2>1
    <3> HIDE DEF x, y, s, a, b, w, F, j
    <3>3. (x * a) * (y * b) = (x * y) * (a * b)
      BY <1>4
    <3>4. (x * y) * (s * (w * (Prime + FOLD))) = (x * y * s * FOLD) * w + (x * y * s * w) * Prime
      BY <1>4
    <3> QED BY <1>4, <3>1, <3>2, <3>3, <3>4
  <2>3. (x * y * s * F) * w \in Int /\ x * y * s * F \in Int
    <3> HIDE DEF x, y, s, w, F
    <3> QED BY <1>4
  <2> HIDE DEF q, x, y, s, a, b, w, F
  <2>4. Alike((x * y * s * F) * w, (x * a) * (y * b))
    BY <2>2, <2>3, AlikeMultiples DEF Alike
  <2> QED BY <1>2, <1>3, <2>3, <2>4 DEF w
<1>7. CASE ~(i + j >= 10)
  <2>1. Beyond(i + j) = w /\ F = 1
    <3>1. i + j = k /\ k <= 10
      BY <1>1, <1>7 DEF Limbs
    <3> QED BY <1>7, <3>1 DEF Beyond
  <2>2. (x * a) * (y * b) = (x * y * s * F) * w /\ x * y * s * F \in Int
    <3>1. a * b = s * w /\ F = 1
      BY <1>5, <2>1
    <3> HIDE DEF x, y, s, a, b, w, F, j
    <3>2. (x * a) * (y * b) = (x * y) * (a * b)
      BY <1>4
    <3>3. (x * y) * (s * w) = (x * y * s * 1) * w
      BY <1>4
    <3> QED BY <1>4, <3>1, <3>2, <3>3
  <2> HIDE DEF x, y, s, a, b, w, F
  <2> QED BY <1>2, <1>3, <2>2, Zenon DEF Alike, w
<1> QED BY <1>6, <1>7

(* The sums that Product and Square take. *)
LEMMA ProductSums ==
  ASSUME NEW f \in Tens, NEW g \in Tens, NEW k \in Limbs
  PROVE  /\ [i \in Limbs |-> Cross(f, g, i, (k - i) % 10)] \in Tens
         /\ Product(f, g)[k] = Total([i \in Limbs |-> Cross(f, g, i, (k - i) % 10)])
<1> DEFINE t == [i \in Limbs |-> Cross(f, g, i, (k - i) % 10)]
           U(u) == u = [i \in -1..9 |-> IF i = -1 THEN 0
                          ELSE u[i - 1] + Cross(f, g, i, (k - i) % 10)]
<1>1. t \in Tens
  BY CrossAlike DEF Tens
<1>2. \A i \in -1..9 : i # -1 => t[i] = Cross(f, g, i, (k - i) % 10)
  BY ShortSteps, Zenon
<1> HIDE DEF t
<1>3. \A u : Sums(t, u) <=> U(u)
  <2>1. \A u : \A i \in -1..9 :
          Added(t, i, u) = IF i = -1 THEN 0
                           ELSE u[i - 1] + Cross(f, g, i, (k - i) % 10)
    BY <1>2, Zenon DEF Added
  <2> TAKE u
  <2>2. [i \in -1..9 |-> Added(t, i, u)] =
          [i \in -1..9 |-> IF i = -1 THEN 0
                           ELSE u[i - 1] + Cross(f, g, i, (k - i) % 10)]
    BY <2>1, Zenon
  <2> QED BY <2>2, Zenon DEF Sums
<1> DEFINE c == CHOOSE u : U(u)
<1>4. Product(f, g)[k] = c[9]
  BY Zenon DEF Product, SumOver
<1>5. U(c)
  <2>1. \E u : U(u)
    BY <1>1, <1>3, SumsExist, Zenon
  <2> QED BY <2>1, Zenon
<1>6. c[9] = Total(t)
  <2>1. Sums(t, c)
    BY <1>3, <1>5, Zenon
  <2> HIDE DEF c
  <2> QED BY <1>1, <2>1, SumsTotal, Zenon
<1> QED BY <1>1, <1>4, <1>6, Zenon DEF t

(* A row of a product, which starts at another place. *)
Row(b, i) == [k \in Limbs |-> b[(k - i) % 10]]
Turned(b) == [k \in Limbs |-> IF k = 0 THEN b[9] ELSE b[k - 1]]

(* Turning ten numbers by one place leaves their total. *)
LEMMA TurnedTotal ==
  ASSUME NEW b \in Tens
  PROVE  Turned(b) \in Tens /\ Total(Turned(b)) = Total(b)
<1> DEFINE t == Turned(b)
<1>1. /\ t[0] = b[9] /\ t[1] = b[0] /\ t[2] = b[1] /\ t[3] = b[2]
      /\ t[4] = b[3] /\ t[5] = b[4] /\ t[6] = b[5] /\ t[7] = b[6]
      /\ t[8] = b[7] /\ t[9] = b[8]
  BY DEF Limbs, Turned
<1>2. t \in Tens
  BY DEF Tens, Limbs, Turned
<1>3. /\ b[0] \in Int /\ b[1] \in Int /\ b[2] \in Int /\ b[3] \in Int
      /\ b[4] \in Int /\ b[5] \in Int /\ b[6] \in Int /\ b[7] \in Int
      /\ b[8] \in Int /\ b[9] \in Int
  BY DEF Tens, Limbs
<1> HIDE DEF t
<1>4. Total(t) = Total(b)
  BY <1>1, <1>3 DEF Total
<1> QED BY <1>2, <1>4 DEF t

(* So does turning them by any. *)
LEMMA RowTotal ==
  ASSUME NEW b \in Tens, NEW i \in Limbs
  PROVE  Row(b, i) \in Tens /\ Total(Row(b, i)) = Total(b)
<1> DEFINE Ok(a, n) == Row(a, n) \in Tens /\ Total(Row(a, n)) = Total(a)
           T == {n \in 0..9 : \E a \in Tens : ~Ok(a, n)}
<1> SUFFICES ASSUME T # {} PROVE FALSE
  BY DEF Limbs
<1>1. PICK n \in T : \A m \in T : n <= m
  <2>1. T \subseteq Nat
    OBVIOUS
  <2> HIDE DEF T
  <2> QED BY <2>1, LeastOf
<1>2. PICK a \in Tens : ~Ok(a, n)
  BY <1>1
<1>3. n \in 0..9
  BY <1>1
<1>4. n # 0
  <2>1. \A k \in Limbs : (k - 0) % 10 = k
    BY DEF Limbs
  <2>2. Row(a, 0) = a
    BY <2>1 DEF Row, Tens
  <2> QED BY <1>2, <2>2
<1>5. n - 1 \in 0..9 /\ n - 1 \notin T
  <2> HIDE DEF T
  <2>1. n - 1 \in T => n <= n - 1
    BY <1>1, Zenon
  <2> QED BY <1>3, <1>4, <2>1
<1>6. Ok(Turned(a), n - 1)
  BY <1>5, TurnedTotal
<1>7. Row(Turned(a), n - 1) = Row(a, n)
  <2>1. \A k \in Limbs :
          /\ (k - (n - 1)) % 10 \in Limbs
          /\ (k - n) % 10 = IF (k - (n - 1)) % 10 = 0 THEN 9
                            ELSE ((k - (n - 1)) % 10) - 1
    <3> TAKE k \in Limbs
    <3>1. k \in 0..9
      BY DEF Limbs
    <3>2. (k - (n - 1)) % 10 = IF k >= n - 1 THEN k - (n - 1) ELSE k - (n - 1) + 10
      <4> DEFINE m == n - 1
      <4>1. m \in 0..9
        BY <1>5
      <4> HIDE DEF m
      <4>2. (k - m) % 10 = IF k >= m THEN k - m ELSE k - m + 10
        BY <3>1, <4>1
      <4> QED BY <4>2, Zenon DEF m
    <3>3. (k - n) % 10 = IF k >= n THEN k - n ELSE k - n + 10
      BY <1>3, <3>1
    <3> QED BY <1>3, <3>1, <3>2, <3>3 DEF Limbs
  <2>2. \A k \in Limbs : Turned(a)[(k - (n - 1)) % 10] = a[(k - n) % 10]
    BY <2>1 DEF Turned
  <2> QED BY <2>2, Zenon DEF Row
<1> QED BY <1>2, <1>6, <1>7, TurnedTotal

(* A square of rows is added up by columns as by rows. *)
LEMMA TotalsSwap ==
  ASSUME NEW t \in [Limbs -> Tens]
  PROVE  /\ [i \in Limbs |-> Total(t[i])] \in Tens
         /\ [k \in Limbs |-> Total([i \in Limbs |-> t[i][k]])] \in Tens
         /\ \A k \in Limbs : [i \in Limbs |-> t[i][k]] \in Tens
         /\ Total([k \in Limbs |-> Total([i \in Limbs |-> t[i][k]])])
              = Total([i \in Limbs |-> Total(t[i])])
<1> DEFINE c(k) == [i \in Limbs |-> t[i][k]]
<1>1. \A k \in Limbs : c(k) \in Tens
  BY DEF Tens
<1>2. \A i \in Limbs : t[i] \in Tens /\ Total(t[i]) \in Int
  BY TotalType
<1>3. \A k \in Limbs : Total(c(k)) \in Int
  <2> HIDE DEF c
  <2> QED BY <1>1, TotalType
<1> DEFINE s(n, k) == t[n][k]
<1>4. \A n, k \in 0..9 : s(n, k) \in Int
  BY DEF Limbs, Tens
<1>5. \A k \in 0..9 :
        Total(c(k)) = s(0, k) + s(1, k) + s(2, k) + s(3, k) + s(4, k) + s(5, k) + s(6, k)
                              + s(7, k) + s(8, k) + s(9, k)
  BY DEF Total, Limbs
<1>6. \A n \in 0..9 :
        Total(t[n]) = s(n, 0) + s(n, 1) + s(n, 2) + s(n, 3) + s(n, 4) + s(n, 5) + s(n, 6)
                              + s(n, 7) + s(n, 8) + s(n, 9)
  BY DEF Total, Limbs
<1> DEFINE C == [k \in Limbs |-> Total(c(k))]
           R == [i \in Limbs |-> Total(t[i])]
<1>7. C \in Tens /\ R \in Tens
  BY <1>2, <1>3 DEF Tens
<1>8. \A k \in 0..9 : C[k] = Total(c(k)) /\ R[k] = Total(t[k])
  BY DEF Limbs
<1> HIDE DEF C, R, c, s
<1>9. Total(C) = Total(R)
  BY <1>4, <1>5, <1>6, <1>8, SMTT(60) DEF Total
<1> QED BY <1>1, <1>7, <1>9 DEF C, R, c

(* The limbs of a product, before carries, are the product. *)
LEMMA ProductAlike ==
  ASSUME NEW f \in Tens, NEW g \in Tens
  PROVE  /\ Product(f, g) \in Tens
         /\ Alike(Value(Product(f, g)), Value(f) * Value(g))
<1> DEFINE a == Weighed(f)
           b == Weighed(g)
           h == Product(f, g)
           x(k) == [i \in Limbs |-> Cross(f, g, i, (k - i) % 10)]
           y(k) == [i \in Limbs |-> Cross(f, g, i, (k - i) % 10) * Weight[k]]
           z(k) == [i \in Limbs |-> a[i] * b[(k - i) % 10]]
           rows == [i \in Limbs |-> [k \in Limbs |-> a[i] * b[(k - i) % 10]]]
<1>1. a \in Tens /\ b \in Tens
  BY WeighedType
<1>2. \A k \in Limbs : x(k) \in Tens /\ h[k] = Total(x(k)) /\ h[k] \in Int
  <2> TAKE k \in Limbs
  <2>1. x(k) \in Tens /\ h[k] = Total(x(k))
    BY ProductSums, Zenon
  <2> HIDE DEF x, h
  <2> QED BY <2>1, TotalType
<1>3. h \in Tens
  <2>1. h = [k \in Limbs |-> h[k]]
    BY Zenon DEF Product
  <2> HIDE DEF h, x
  <2> QED BY <1>2, <2>1 DEF Tens
<1>4. \A i, k \in Limbs : (k - i) % 10 \in Limbs
  BY DEF Limbs
<1>5. \A i, k \in Limbs : a[i] * b[(k - i) % 10] \in Int
  <2> HIDE DEF a, b
  <2> TAKE i, k \in Limbs
  <2>1. a[i] \in Int /\ b[(k - i) % 10] \in Int
    BY <1>1, <1>4 DEF Tens
  <2> QED BY <2>1
<1>6. \A k \in Limbs : y(k) \in Tens /\ Weighed(h)[k] = Total(y(k))
  <2> TAKE k \in Limbs
  <2>1. Weight[k] \in Int
    BY Weights DEF Limbs
  <2> DEFINE w == Weight[k]
             u == x(k)
  <2>2. y(k) = [i \in Limbs |-> u[i] * w]
    BY Zenon
  <2>3. Weighed(h)[k] = h[k] * w
    BY Zenon DEF Weighed
  <2> HIDE DEF x, y, h, w, u
  <2>4. u \in Tens /\ h[k] = Total(u) /\ w \in Int
    BY <1>2, <2>1 DEF u, w
  <2> QED BY <2>2, <2>3, <2>4, TotalTimes
<1>7. \A k \in Limbs : z(k) \in Tens /\ Alike(Total(y(k)), Total(z(k)))
  <2> TAKE k \in Limbs
  <2>1. z(k) \in Tens
    <3> HIDE DEF a, b
    <3> QED BY <1>5 DEF Tens
  <2>2. \A i \in Limbs : Alike(y(k)[i], z(k)[i])
    BY CrossAlike, Zenon
  <2> HIDE DEF y, z
  <2> QED BY <1>6, <2>1, <2>2, TotalAlike
<1> DEFINE P == [k \in Limbs |-> Total(z(k))]
<1>8. P \in Tens
  <2> HIDE DEF z
  <2> QED BY <1>7, TotalType DEF Tens
<1>9. Alike(Value(h), Total(P))
  <2>1. Weighed(h) \in Tens
    BY <1>3, WeighedType
  <2>2. \A k \in Limbs : Alike(Weighed(h)[k], P[k])
    <3> HIDE DEF y, z, h
    <3> QED BY <1>6, <1>7
  <2> HIDE DEF P, h
  <2> QED BY <1>8, <2>1, <2>2, TotalAlike DEF Value
<1>10. rows \in [Limbs -> Tens]
  <2> HIDE DEF a, b
  <2> QED BY <1>5 DEF Tens
<1> DEFINE R == [i \in Limbs |-> Total(rows[i])]
<1>11. Total(P) = Total(R)
  <2>1. \A k \in Limbs : z(k) = [i \in Limbs |-> rows[i][k]]
    BY Zenon
  <2>2. P = [k \in Limbs |-> Total([i \in Limbs |-> rows[i][k]])]
    <3> HIDE DEF z, rows
    <3> QED BY <2>1, Zenon
  <2> HIDE DEF P, rows
  <2> QED BY <1>10, <2>2, TotalsSwap, Zenon
<1>12. \A i \in Limbs : R[i] = a[i] * Total(b)
  <2> TAKE i \in Limbs
  <2> DEFINE r == Row(b, i)
             c == a[i]
  <2>1. rows[i] = [k \in Limbs |-> c * r[k]]
    BY Zenon DEF Row
  <2>2. r \in Tens /\ Total(r) = Total(b) /\ c \in Int /\ Total(b) \in Int
    <3> HIDE DEF a, b
    <3> QED BY <1>1, RowTotal, TotalType DEF Tens
  <2> HIDE DEF r, c
  <2>3. \A k \in Limbs : c * r[k] = r[k] * c
    BY <2>2 DEF Tens
  <2>4. rows[i] = [k \in Limbs |-> r[k] * c]
    <3> HIDE DEF rows
    <3> QED BY <2>1, <2>3, Zenon
  <2>5. Total(rows[i]) = Total(r) * c
    <3> HIDE DEF rows
    <3> QED BY <2>2, <2>4, TotalTimes
  <2>6. R[i] = Total(b) * c
    BY <2>2, <2>5, Zenon
  <2> HIDE DEF R, b
  <2> QED BY <2>2, <2>6 DEF c
<1>13. Total(R) = Total(a) * Total(b)
  <2> DEFINE B == Total(b)
  <2>1. B \in Int
    <3> HIDE DEF b
    <3> QED BY <1>1, TotalType
  <2>2. R = [i \in Limbs |-> a[i] * B]
    BY <1>12, Zenon
  <2> HIDE DEF R, a, B
  <2>3. Total(R) = Total(a) * B
    BY <1>1, <2>1, <2>2, TotalTimes
  <2> QED BY <2>3 DEF B
<1> QED BY <1>3, <1>9, <1>11, <1>13, Zenon DEF Value

(* What limb i contributes to limb k of a square. *)
Half(f, k, i) ==
  LET j == (k - i) % 10 IN
  IF i > j THEN 0 ELSE IF i = j THEN Cross(f, f, i, i) ELSE 2 * Cross(f, f, i, j)

(* So does reversing them. *)
LEMMA MirrorTotal ==
  ASSUME NEW q \in Tens, NEW k \in Limbs
  PROVE  /\ [i \in Limbs |-> q[(k - i) % 10]] \in Tens
         /\ Total([i \in Limbs |-> q[(k - i) % 10]]) = Total(q)
<1> DEFINE r == [i \in Limbs |-> q[9 - i]]
           n == (k + 1) % 10
<1>1. /\ n \in Limbs /\ \A i \in Limbs : 9 - i \in Limbs
      /\ \A i \in Limbs : (i - n) % 10 \in Limbs /\ 9 - ((i - n) % 10) = (k - i) % 10
  <2>1. k \in 0..9 /\ n = IF k = 9 THEN 0 ELSE k + 1
    BY DEF Limbs
  <2> HIDE DEF n
  <2>2. n \in 0..9
    BY <2>1
  <2>3. \A i \in 0..9 :
          /\ (i - n) % 10 = IF i >= n THEN i - n ELSE i - n + 10
          /\ (k - i) % 10 = IF k >= i THEN k - i ELSE k - i + 10
    BY <2>1, <2>2
  <2> QED BY <2>1, <2>2, <2>3 DEF Limbs
<1>2. r \in Tens
  BY <1>1 DEF Tens
<1>3. Total(r) = Total(q)
  <2>1. /\ r[0] = q[9] /\ r[1] = q[8] /\ r[2] = q[7] /\ r[3] = q[6]
        /\ r[4] = q[5] /\ r[5] = q[4] /\ r[6] = q[3] /\ r[7] = q[2]
        /\ r[8] = q[1] /\ r[9] = q[0]
    BY DEF Limbs
  <2>2. /\ q[0] \in Int /\ q[1] \in Int /\ q[2] \in Int /\ q[3] \in Int
        /\ q[4] \in Int /\ q[5] \in Int /\ q[6] \in Int /\ q[7] \in Int
        /\ q[8] \in Int /\ q[9] \in Int
    BY DEF Tens, Limbs
  <2> HIDE DEF r
  <2> QED BY <2>1, <2>2 DEF Total
<1>4. Row(r, n) = [i \in Limbs |-> q[(k - i) % 10]]
  <2>1. \A i \in Limbs : r[(i - n) % 10] = q[(k - i) % 10]
    <3> HIDE DEF n
    <3> QED BY <1>1, Zenon
  <2> HIDE DEF r, n
  <2> QED BY <2>1, Zenon DEF Row
<1> HIDE DEF r, n
<1> QED BY <1>1, <1>2, <1>3, <1>4, RowTotal, Zenon

(* Each pair of limbs counts twice, whichever of the two comes first. *)
LEMMA HalvesType ==
  ASSUME NEW f \in Tens, NEW k \in Limbs
  PROVE  /\ [i \in Limbs |-> Half(f, k, i)] \in Tens
         /\ \A i \in Limbs :
              Half(f, k, i) + Half(f, k, (k - i) % 10) = 2 * Cross(f, f, i, (k - i) % 10)
<1>1. \A i \in Limbs :
        /\ (k - i) % 10 \in Limbs /\ (k - ((k - i) % 10)) % 10 = i
        /\ i \in Int
  <2>1. k \in 0..9
    BY DEF Limbs
  <2>2. \A i \in 0..9 : (k - i) % 10 = IF k >= i THEN k - i ELSE k - i + 10
    BY <2>1
  <2>3. \A i \in 0..9 : (k - i) % 10 \in 0..9
    BY <2>1
  <2> QED BY <2>1, <2>2, <2>3 DEF Limbs
<1>2. \A i \in Limbs : Cross(f, f, i, (k - i) % 10) \in Int
  BY CrossAlike
<1>3. \A i, j \in Limbs : Cross(f, f, i, j) = Cross(f, f, j, i)
  <2> TAKE i, j \in Limbs
  <2> DEFINE x == f[i]
             y == f[j]
  <2>1. x \in Int /\ y \in Int
    BY DEF Tens
  <2>2. i + j = j + i
    BY DEF Limbs
  <2>3. x * y = y * x
    <3> HIDE DEF x, y
    <3> QED BY <2>1
  <2>4. (IF i % 2 = 1 /\ j % 2 = 1 THEN 2 ELSE 1) = (IF j % 2 = 1 /\ i % 2 = 1 THEN 2 ELSE 1)
    BY Zenon
  <2> QED BY <2>2, <2>3, <2>4, Zenon DEF Cross
<1> DEFINE j(i) == (k - i) % 10
           c(i) == Cross(f, f, i, j(i))
<1>4. \A i \in Limbs : /\ j(i) \in Limbs /\ j(j(i)) = i /\ i \in Int /\ j(i) \in Int
                       /\ c(i) \in Int /\ c(j(i)) = c(i)
                       /\ i = j(i) => c(i) = Cross(f, f, i, i)
  <2> TAKE i \in Limbs
  <2>1. j(i) \in Limbs /\ j(j(i)) = i /\ i \in Int
    BY <1>1
  <2> HIDE DEF j
  <2>2. j(i) \in Int
    BY <2>1 DEF Limbs
  <2>3. c(j(i)) = Cross(f, f, j(i), i)
    BY <2>1, Zenon
  <2>4. c(i) \in Int
    BY <1>2, Zenon DEF j
  <2> QED BY <1>3, <2>1, <2>2, <2>3, <2>4, Zenon
<1>5. \A i \in Limbs : Half(f, k, i) = IF i > j(i) THEN 0
                                       ELSE IF i = j(i) THEN Cross(f, f, i, i)
                                       ELSE 2 * c(i)
  BY Zenon DEF Half
<1> HIDE DEF j, c
<1>6. \A i \in Limbs : Half(f, k, i) = IF i > j(i) THEN 0
                                       ELSE IF i = j(i) THEN c(i) ELSE 2 * c(i)
  BY <1>4, <1>5, Zenon
<1>7. \A i \in Limbs : /\ Half(f, k, i) \in Int
                       /\ Half(f, k, i) + Half(f, k, j(i)) = 2 * c(i)
  BY <1>4, <1>6
<1> QED BY <1>7 DEF Tens, j, c

(* What Square adds up. *)
LEMMA SquareSums ==
  ASSUME NEW f \in Tens, NEW k \in Limbs
  PROVE  Square(f)[k] = Total([i \in Limbs |-> Half(f, k, i)])
<1> DEFINE t == [i \in Limbs |-> Half(f, k, i)]
           U(u) == u = [i \in -1..9 |-> IF i = -1 THEN 0
                          ELSE u[i - 1] + Half(f, k, i)]
<1>1. t \in Tens
  BY HalvesType
<1>2. \A i \in -1..9 : i # -1 => t[i] = Half(f, k, i)
  BY ShortSteps, Zenon
<1> HIDE DEF t
<1>3. \A u : Sums(t, u) <=> U(u)
  <2>1. \A u : \A i \in -1..9 :
          Added(t, i, u) = IF i = -1 THEN 0 ELSE u[i - 1] + Half(f, k, i)
    BY <1>2, Zenon DEF Added
  <2> TAKE u
  <2>2. [i \in -1..9 |-> Added(t, i, u)] =
          [i \in -1..9 |-> IF i = -1 THEN 0 ELSE u[i - 1] + Half(f, k, i)]
    BY <2>1, Zenon
  <2> QED BY <2>2, Zenon DEF Sums
<1> DEFINE c == CHOOSE u : U(u)
<1>4. Square(f)[k] = c[9]
  BY Zenon DEF Square, SumOver, Half
<1>5. U(c)
  <2>1. \E u : U(u)
    BY <1>1, <1>3, SumsExist, Zenon
  <2> QED BY <2>1, Zenon
<1>6. c[9] = Total(t)
  <2>1. Sums(t, c)
    BY <1>3, <1>5, Zenon
  <2> HIDE DEF c
  <2> QED BY <1>1, <2>1, SumsTotal, Zenon
<1> QED BY <1>4, <1>6, Zenon DEF t

(* A square is the product of a number with itself, limb by limb. *)
LEMMA SquareIsProduct ==
  ASSUME NEW f \in Tens
  PROVE  Square(f) = Product(f, f)
<1>1. ASSUME NEW k \in Limbs
      PROVE  Square(f)[k] = Product(f, f)[k]
  <2> DEFINE q == [i \in Limbs |-> Half(f, k, i)]
             m == [i \in Limbs |-> q[(k - i) % 10]]
             x == [i \in Limbs |-> Cross(f, f, i, (k - i) % 10)]
  <2>1. \A i \in Limbs : (k - i) % 10 \in Limbs
    BY DEF Limbs
  <2>2. \A i \in Limbs : q[i] + m[i] = 2 * x[i] /\ x[i] \in Int
    BY <2>1, HalvesType, CrossAlike
  <2>3. q \in Tens /\ m \in Tens /\ Total(m) = Total(q) /\ x \in Tens
    <3>1. q \in Tens
      BY HalvesType
    <3>2. x \in Tens
      BY ProductSums, Zenon
    <3> HIDE DEF q
    <3> QED BY <3>1, <3>2, MirrorTotal
  <2> HIDE DEF q, m, x
  <2>4. Total([i \in Limbs |-> q[i] + m[i]]) = Total(q) + Total(m)
    BY <2>3, TotalSum
  <2>5. Total([i \in Limbs |-> x[i] * 2]) = Total(x) * 2
    <3>1. 2 \in Int
      OBVIOUS
    <3> QED BY <2>3, <3>1, TotalTimes, Zenon
  <2>6. [i \in Limbs |-> q[i] + m[i]] = [i \in Limbs |-> x[i] * 2]
    BY <2>2
  <2>7. Total(q) = Total(x)
    <3>1. Total(q) \in Int /\ Total(x) \in Int
      BY <2>3, TotalType
    <3> QED BY <2>3, <2>4, <2>5, <2>6, <3>1
  <2>8. Square(f)[k] = Total(q)
    BY SquareSums, Zenon DEF q
  <2>9. Product(f, f)[k] = Total(x)
    BY ProductSums, Zenon DEF x
  <2> QED BY <2>7, <2>8, <2>9
<1>2. Square(f) = [k \in Limbs |-> Square(f)[k]]
  BY Zenon DEF Square
<1>3. Product(f, f) = [k \in Limbs |-> Product(f, f)[k]]
  BY Zenon DEF Product
<1>4. [k \in Limbs |-> Square(f)[k]] = [k \in Limbs |-> Product(f, f)[k]]
  BY <1>1, Zenon
<1> QED BY <1>2, <1>3, <1>4, Zenon

(* Division leaves a remainder. *)
LEMMA DivMod ==
  ASSUME NEW n \in Nat, NEW b \in Nat \ {0}
  PROVE  n % b \in Nat /\ n \div b \in Int /\ n = b * (n \div b) + (n % b)
  OBVIOUS

(* Multiples of the divisor leave no trace in the remainder. *)
LEMMA MultipleOff ==
  ASSUME NEW a \in Nat \ {0}, NEW n \in Int, NEW r \in Int, NEW k \in Int, n = r + a * k
  PROVE  n % a = r % a
  BY SameRemainder

(* What is left of a number between two of its cuts. *)
LEMMA BetweenCuts ==
  ASSUME NEW a \in Nat \ {0}, NEW m \in Nat \ {0}, NEW b \in Nat \ {0}, b = a * m,
         NEW n \in Nat
  PROVE  /\ ((n % b) \div a) * a = (n % b) - (n % a)
         /\ (n % b) \div a \in Int
<1>1. b \in Nat \ {0}
  OBVIOUS
<1> DEFINE r == n % b
           q == n \div b
<1>2. r \in Nat /\ q \in Int /\ n = b * q + r
  BY <1>1, DivMod, Zenon
<1> HIDE DEF r, q
<1>3. n = r + a * (m * q) /\ m * q \in Int
  <2>1. b * q = a * (m * q)
    BY <1>2
  <2> QED BY <1>2, <2>1
<1>4. n % a = r % a
  <2> DEFINE k == m * q
  <2>1. n = r + a * k /\ k \in Int /\ r \in Int /\ n \in Int
    BY <1>2, <1>3
  <2> HIDE DEF k
  <2> QED BY <2>1, MultipleOff, Zenon
<1>5. r = a * (r \div a) + (r % a) /\ r \div a \in Int /\ r % a \in Nat
  BY <1>2
<1>6. (r \div a) * a = r - (r % a)
  <2> DEFINE d == r \div a
             e == r % a
  <2>1. r = a * d + e /\ d \in Int /\ e \in Int
    BY <1>5
  <2> HIDE DEF d, e
  <2>2. d * a = r - e
    BY <1>2, <2>1
  <2> QED BY <2>2 DEF d, e
<1> QED BY <1>2, <1>4, <1>5, <1>6 DEF r

(* Each cut is a multiple of the one below. *)
LEMMA CutsDivide ==
  /\ Cut(0) = 1 /\ Cut(10) = Weight[10]
  /\ \A i \in 0..10 : Cut(i) \in Nat \ {0}
  /\ \A i \in 0..9 : \E m \in Nat \ {0} : Cut(i + 1) = Cut(i) * m
<1>1. Cut(0) = 1 /\ Cut(10) = Weight[10]
  BY Weights, LoadAssumption DEF Cut
<1>2. \A i \in 0..10 : Cut(i) \in Nat \ {0}
  BY Weights, LoadAssumption DEF Cut
<1>3. ASSUME NEW i \in 0..9
      PROVE  \E m \in Nat \ {0} : Cut(i + 1) = Cut(i) * m
  <2> DEFINE w == Weight[i]
             r == Radix(i)
  <2>1. /\ w \in Nat \ {0} /\ r \in Nat \ {0} /\ Weight[i + 1] = w * r
        /\ i \in Int /\ i + 1 \in Int
    <3>1. i \in 0..10 /\ i \in Int
      OBVIOUS
    <3> QED BY <3>1, Weights, Radices
  <2> DEFINE e == LoadShift[i]
             e1 == LoadShift[i + 1]
             x == r * e1
  <2>2. e \in Nat \ {0} /\ e1 \in Nat \ {0} /\ x % e = 0
    <3>1. i \in Limbs /\ i \in 0..10 /\ i + 1 \in 0..10
      BY DEF Limbs
    <3> QED BY <3>1, LoadAssumption
  <2>3. Cut(i) = w * e /\ Cut(i + 1) = (w * r) * e1
    BY <2>1, Zenon DEF Cut
  <2>4. x \in Nat \ {0}
    <3> HIDE DEF r, e1
    <3> QED BY <2>1, <2>2
  <2> HIDE DEF w, r, e, e1, x
  <2>5. \E m \in Nat \ {0} : x = e * m
    <3> DEFINE m == x \div e
    <3>1. m \in Int /\ x = e * m
      BY <2>2, <2>4
    <3> HIDE DEF m
    <3>2. m > 0
      <4>1. m <= 0 => e * m <= 0
        BY <2>2, <3>1
      <4> QED BY <2>4, <3>1, <4>1
    <3> QED BY <3>1, <3>2
  <2>6. PICK m \in Nat \ {0} : x = e * m
    BY <2>5
  <2>7. (w * r) * e1 = (w * e) * m
    <3>1. (w * r) * e1 = w * x
      BY <2>1, <2>2 DEF x
    <3>2. w * (e * m) = (w * e) * m
      BY <2>1, <2>2
    <3> QED BY <2>6, <3>1, <3>2
  <2> QED BY <2>3, <2>7
<1> QED BY <1>1, <1>2, <1>3

(* fe_frombytes reads all but the top bit. *)
LEMMA FromBytesAlike ==
  ASSUME NEW n \in Nat
  PROVE  /\ fe_frombytes(n) \in Tens
         /\ Alike(Value(fe_frombytes(n)), n % Weight[10])
<1> DEFINE c(i) == n % Cut(i)
           h == [i \in Limbs |-> (c(i + 1) \div Cut(i)) * LoadShift[i]]
           t == Weighed(h)
<1>1. ASSUME NEW i \in 0..9
      PROVE  /\ h[i] \in Int
             /\ t[i] = c(i + 1) - c(i)
  <2>1. PICK m \in Nat \ {0} : Cut(i + 1) = Cut(i) * m
    BY CutsDivide
  <2>2. Cut(i) \in Nat \ {0} /\ i \in Limbs /\ Weight[i] \in Nat \ {0} /\ LoadShift[i] \in Nat \ {0}
    <3>1. i \in 0..10 /\ i \in Limbs
      BY DEF Limbs
    <3> QED BY <3>1, CutsDivide, Weights, LoadAssumption
  <2> DEFINE d == c(i + 1) \div Cut(i)
  <2>3. d * Cut(i) = c(i + 1) - c(i) /\ d \in Int
    <3>1. /\ ((n % Cut(i + 1)) \div Cut(i)) * Cut(i) = (n % Cut(i + 1)) - (n % Cut(i))
          /\ (n % Cut(i + 1)) \div Cut(i) \in Int
      <4>1. \A a, b, k \in Nat \ {0} :
              b = a * k => /\ ((n % b) \div a) * a = (n % b) - (n % a)
                           /\ (n % b) \div a \in Int
        BY BetweenCuts, Zenon
      <4>2. Cut(i + 1) \in Nat \ {0}
        <5>1. i + 1 \in 0..10
          OBVIOUS
        <5> QED BY <5>1, CutsDivide
      <4> QED BY <2>1, <2>2, <4>1, <4>2, Zenon
    <3> QED BY <3>1, Zenon DEF c, d
  <2>4. h[i] = d * LoadShift[i] /\ t[i] = (d * LoadShift[i]) * Weight[i]
    BY <2>2, Zenon DEF Weighed
  <2>5. Cut(i) = Weight[i] * LoadShift[i]
    BY DEF Cut
  <2> HIDE DEF d, h, t
  <2>6. (d * LoadShift[i]) * Weight[i] = d * (Weight[i] * LoadShift[i]) /\ d * LoadShift[i] \in Int
    BY <2>2, <2>3
  <2> QED BY <2>3, <2>4, <2>5, <2>6
<1>2. h \in Tens
  <2> HIDE DEF t
  <2>1. \A i \in Limbs : h[i] \in Int
    <3> HIDE DEF h
    <3> QED BY <1>1 DEF Limbs
  <2> DEFINE v(i) == (c(i + 1) \div Cut(i)) * LoadShift[i]
  <2>2. \A i \in Limbs : v(i) \in Int
    BY <2>1
  <2> HIDE DEF v
  <2>3. h = [i \in Limbs |-> v(i)]
    BY DEF v
  <2> HIDE DEF h
  <2> QED BY <2>2, <2>3 DEF Tens
<1>3. \A i \in 0..10 : c(i) \in Int
  <2> TAKE i \in 0..10
  <2>1. Cut(i) \in Nat \ {0}
    BY CutsDivide
  <2> QED BY <2>1
<1>4. c(10) = n % Weight[10] /\ c(0) = 0
  <2>1. n % 1 = 0
    OBVIOUS
  <2> QED BY <2>1, CutsDivide
<1> HIDE DEF c, h
<1>5. Total(t) = c(10) - c(0)
  <2>1. /\ t[0] = c(1) - c(0) /\ t[1] = c(2) - c(1) /\ t[2] = c(3) - c(2)
        /\ t[3] = c(4) - c(3) /\ t[4] = c(5) - c(4) /\ t[5] = c(6) - c(5)
        /\ t[6] = c(7) - c(6) /\ t[7] = c(8) - c(7) /\ t[8] = c(9) - c(8)
        /\ t[9] = c(10) - c(9)
    <3> HIDE DEF t
    <3> QED BY <1>1
  <2>2. /\ c(0) \in Int /\ c(1) \in Int /\ c(2) \in Int /\ c(3) \in Int
        /\ c(4) \in Int /\ c(5) \in Int /\ c(6) \in Int /\ c(7) \in Int
        /\ c(8) \in Int /\ c(9) \in Int /\ c(10) \in Int
    BY <1>3
  <2> HIDE DEF t
  <2> QED BY <2>1, <2>2 DEF Total
<1>6. Value(h) = n % Weight[10]
  <2>1. c(10) \in Int
    BY <1>3
  <2> HIDE DEF t
  <2>2. Total(t) = c(10)
    BY <1>4, <1>5, <2>1
  <2> QED BY <1>4, <2>2 DEF Value, t
<1>7. fe_frombytes(n) = CarryOnce(h)
  BY Zenon DEF fe_frombytes, h, c
<1> QED BY <1>2, <1>6, <1>7, CarriesAlike

(* TimesMod multiplies. *)
LEMMA TimesModIs ==
  ASSUME NEW a \in Int, NEW b \in Nat
  PROVE  TimesMod(a, b) = (a * b) % Prime
<1> DEFINE p == Prime
           U(u) == u = [n \in Nat |-> IF n = 0 THEN 0
                          ELSE (32 * u[n \div 32] + a * (n % 32)) % p]
           w == [n \in Nat |-> (a * n) % p]
<1>1. p \in Nat \ {0}
  BY PrimeIs
<1>2. \A n \in Nat : n \div 32 \in Nat /\ n % 32 \in Nat /\ n = 32 * (n \div 32) + (n % 32)
                     /\ (n # 0 => n \div 32 < n)
  OBVIOUS
<1>3. \A n \in Nat : a * n \in Int /\ (a * n) % p \in Int
  <2> HIDE DEF p
  <2> TAKE n \in Nat
  <2>1. a * n \in Int
    OBVIOUS
  <2> QED BY <1>1, <2>1
<1>4. ASSUME NEW n \in Nat
      PROVE  (32 * ((a * (n \div 32)) % p) + a * (n % 32)) % p = (a * n) % p
  <2> DEFINE q == n \div 32
             m == n % 32
             x == (a * q) % p
  <2>1. q \in Nat /\ m \in Nat /\ n = 32 * q + m /\ x \in Int
    BY <1>2, <1>3
  <2>2. Alike(x, a * q) /\ a * q \in Int
    BY <1>2, <1>3, AlikeItself
  <2> HIDE DEF q, m, x
  <2>3. 32 * (a * q) + a * m = a * n /\ a * m \in Int /\ 32 * x \in Int
        /\ 32 * (a * q) \in Int /\ 32 \in Int
    <3>1. a * (32 * q + m) = 32 * (a * q) + a * m
      BY <2>1
    <3> QED BY <2>1, <2>2, <3>1
  <2>4. Alike(32 * x, 32 * (a * q))
    <3>1. Alike(32, 32)
      BY DEF Alike
    <3> QED BY <2>1, <2>2, <2>3, <3>1, AlikeSums, Zenon
  <2>5. Alike(32 * x + a * m, 32 * (a * q) + a * m)
    <3>1. Alike(a * m, a * m)
      BY DEF Alike
    <3> QED BY <2>3, <2>4, <3>1, AlikeSums, Zenon
  <2> QED BY <2>3, <2>5, Zenon DEF Alike, q, m, x
<1> HIDE DEF p
<1>5. U(w)
  <2>1. \A n \in Nat : (a * n) % p = IF n = 0 THEN 0
                          ELSE (32 * w[n \div 32] + a * (n % 32)) % p
    <3> TAKE n \in Nat
    <3>1. w[n \div 32] = (a * (n \div 32)) % p
      BY <1>2, Zenon
    <3>2. CASE n = 0
      <4>1. a * 0 = 0 /\ 0 % p = 0
        BY <1>1
      <4> QED BY <3>2, <4>1
    <3>3. CASE n # 0
      <4> HIDE DEF w
      <4> QED BY <1>4, <3>1, <3>3, Zenon
    <3> QED BY <3>2, <3>3
  <2> QED BY <2>1, Zenon
<1> DEFINE u == CHOOSE u : U(u)
<1>6. U(u)
  BY <1>5, Zenon
<1>7. TimesMod(a, b) = u[b]
  BY Zenon DEF TimesMod, p
<1> HIDE DEF u, w
<1>8. \A n \in Nat : u[n] = IF n = 0 THEN 0
                          ELSE (32 * u[n \div 32] + a * (n % 32)) % p
  BY <1>6, Zenon
<1> HIDE DEF U
<1> DEFINE T == {n \in Nat : u[n] # (a * n) % p}
<1> SUFFICES ASSUME T # {} PROVE FALSE
  <2>1. u[b] = (a * b) % p
    OBVIOUS
  <2> QED BY <1>7, <2>1 DEF p
<1>9. PICK n \in T : \A k \in T : n <= k
  <2>1. T \subseteq Nat
    OBVIOUS
  <2> HIDE DEF T
  <2> QED BY <2>1, LeastOf
<1>10. n \in Nat /\ u[n] # (a * n) % p
  BY <1>9
<1>11. n # 0
  <2>1. a * 0 = 0 /\ 0 % p = 0
    BY <1>1
  <2>2. n = 0 => u[n] = 0
    BY <1>8, <1>10, Zenon
  <2> QED BY <1>10, <2>1, <2>2, Zenon
<1> DEFINE q == n \div 32
<1>12. q \in Nat /\ q < n
  BY <1>2, <1>10, <1>11
<1>13. q \notin T
  <2>1. q \in T => n <= q
    BY <1>9, Zenon
  <2> HIDE DEF T, q
  <2>2. ~(n <= q)
    BY <1>10, <1>12
  <2> QED BY <2>1, <2>2
<1>14. u[q] = (a * q) % p
  BY <1>12, <1>13
<1>15. u[n] = (32 * u[q] + a * (n % 32)) % p
  BY <1>8, <1>10, <1>11, Zenon
<1>16. u[n] = (a * n) % p
  BY <1>4, <1>10, <1>14, <1>15, Zenon
<1> QED BY <1>10, <1>16

(* Sums and small multiples of limbs, before any carry. *)
LEMMA ValueSum ==
  ASSUME NEW f \in Tens, NEW g \in Tens
  PROVE  fe_add(f, g) \in Tens /\ Value(fe_add(f, g)) = Value(f) + Value(g)
<1> DEFINE h == fe_add(f, g)
           t == Weighed(f)
           u == Weighed(g)
<1>1. h \in Tens
  BY DEF Tens, fe_add
<1>2. t \in Tens /\ u \in Tens
  BY WeighedType
<1>3. ASSUME NEW i \in Limbs
      PROVE  Weighed(h)[i] = t[i] + u[i]
  <2>1. f[i] \in Int /\ g[i] \in Int /\ Weight[i] \in Int
    <3>1. Weight[i] \in Nat
      BY Weights DEF Limbs
    <3> QED BY <3>1 DEF Tens
  <2>2. h[i] = f[i] + g[i]
    BY DEF fe_add
  <2>3. /\ Weighed(h)[i] = h[i] * Weight[i] /\ t[i] = f[i] * Weight[i]
        /\ u[i] = g[i] * Weight[i]
    BY Zenon DEF Weighed, t, u
  <2> DEFINE w == Weight[i]
  <2> HIDE DEF t, u, h, w
  <2>4. (f[i] + g[i]) * w = f[i] * w + g[i] * w
    BY <2>1 DEF w
  <2> QED BY <2>2, <2>3, <2>4, Zenon DEF w
<1> HIDE DEF t, u, h
<1>4. Weighed(h) = [i \in Limbs |-> t[i] + u[i]]
  <2>1. Weighed(h) = [i \in Limbs |-> Weighed(h)[i]]
    BY Zenon DEF Weighed
  <2> QED BY <1>3, <2>1, Zenon
<1>5. Value(h) = Total(t) + Total(u)
  BY <1>2, <1>4, TotalSum, Zenon DEF Value
<1> QED BY <1>1, <1>5, Zenon DEF Value, h, t, u

(* As above. *)
LEMMA ValueTimes ==
  ASSUME NEW f \in Tens, NEW c \in Int
  PROVE  /\ [i \in Limbs |-> f[i] * c] \in Tens
         /\ Value([i \in Limbs |-> f[i] * c]) = Value(f) * c
<1> DEFINE h == [i \in Limbs |-> f[i] * c]
           t == Weighed(f)
<1>1. h \in Tens
  BY DEF Tens
<1>2. t \in Tens
  BY WeighedType
<1>3. ASSUME NEW i \in Limbs
      PROVE  Weighed(h)[i] = t[i] * c
  <2>1. f[i] \in Int /\ Weight[i] \in Int
    <3>1. Weight[i] \in Nat
      BY Weights DEF Limbs
    <3> QED BY <3>1 DEF Tens
  <2>2. h[i] = f[i] * c
    OBVIOUS
  <2>3. Weighed(h)[i] = h[i] * Weight[i] /\ t[i] = f[i] * Weight[i]
    BY Zenon DEF Weighed, t
  <2> DEFINE w == Weight[i]
  <2> HIDE DEF t, h, w
  <2>4. (f[i] * c) * w = (f[i] * w) * c
    BY <2>1 DEF w
  <2> QED BY <2>2, <2>3, <2>4, Zenon DEF w
<1> HIDE DEF t, h
<1>4. Weighed(h) = [i \in Limbs |-> t[i] * c]
  <2>1. Weighed(h) = [i \in Limbs |-> Weighed(h)[i]]
    BY Zenon DEF Weighed
  <2> QED BY <1>3, <2>1, Zenon
<1>5. Value(h) = Total(t) * c
  BY <1>2, <1>4, TotalTimes, Zenon DEF Value
<1> QED BY <1>1, <1>5, Zenon DEF Value, h, t

(* Differences and negatives. *)
LEMMA ValueLess ==
  ASSUME NEW f \in Tens, NEW g \in Tens
  PROVE  /\ fe_neg(f) \in Tens /\ Value(fe_neg(f)) = -Value(f)
         /\ fe_sub(f, g) \in Tens /\ Value(fe_sub(f, g)) = Value(f) - Value(g)
<1> DEFINE N(e) == [i \in Limbs |-> e[i] * (-1)]
<1>1. -1 \in Int
  OBVIOUS
<1>2. \A e \in Tens : N(e) \in Tens /\ Value(N(e)) = Value(e) * (-1)
  BY <1>1, ValueTimes, Zenon
<1>3. \A e \in Tens : \A i \in Limbs : e[i] \in Int
  BY DEF Tens
<1>4. fe_neg(f) = N(f)
  <2>1. \A i \in Limbs : -f[i] = f[i] * (-1)
    BY <1>3
  <2> QED BY <2>1, Zenon DEF fe_neg
<1>5. fe_sub(f, g) = fe_add(f, N(g))
  <2>1. \A i \in Limbs : N(g)[i] = g[i] * (-1)
    BY Zenon
  <2> HIDE DEF N
  <2>2. \A i \in Limbs : f[i] - g[i] = f[i] + N(g)[i]
    BY <1>3, <2>1
  <2> QED BY <2>2, Zenon DEF fe_sub, fe_add
<1> HIDE DEF N
<1>6. Value(f) \in Int /\ Value(g) \in Int
  BY WeighedType
<1>7. /\ Value(f) * (-1) = -Value(f)
      /\ Value(f) + Value(g) * (-1) = Value(f) - Value(g)
  BY <1>6
<1>8. fe_add(f, N(g)) \in Tens /\ Value(fe_add(f, N(g))) = Value(f) + Value(N(g))
  BY <1>2, ValueSum, Zenon
<1> QED BY <1>2, <1>4, <1>5, <1>7, <1>8, Zenon

(* Zero and one. *)
LEMMA ValueConstants ==
  fe_0 \in Tens /\ Value(fe_0) = 0 /\ fe_1 \in Tens /\ Value(fe_1) = 1
<1>1. fe_0 \in Tens /\ fe_1 \in Tens
  BY DEF fe_0, fe_1, Tens, Limbs
<1>2. \A i \in Limbs : Weight[i] \in Int
  BY Weights DEF Limbs
<1>3. /\ \A i \in Limbs : Weighed(fe_0)[i] = 0
      /\ \A i \in Limbs : Weighed(fe_1)[i] = IF i = 0 THEN 1 ELSE 0
  <2> DEFINE z == fe_0
             o == fe_1
             w == Weight
  <2>1. \A i \in Limbs : z[i] = 0 /\ o[i] = IF i = 0 THEN 1 ELSE 0
    BY DEF fe_0, fe_1, Limbs
  <2>2. \A i \in Limbs : Weighed(z)[i] = z[i] * w[i] /\ Weighed(o)[i] = o[i] * w[i]
    BY Zenon DEF Weighed
  <2>3. w[0] = 1 /\ \A i \in Limbs : w[i] \in Int
    BY <1>2, Weights
  <2> HIDE DEF z, o, w
  <2>4. \A i \in Limbs : 0 * w[i] = 0 /\ 1 * w[i] = w[i]
    BY <2>3
  <2>5. \A i \in Limbs : Weighed(z)[i] = 0
    BY <2>1, <2>2, <2>4, Zenon
  <2>6. \A i \in Limbs : Weighed(o)[i] = IF i = 0 THEN 1 ELSE 0
    BY <2>1, <2>2, <2>3, <2>4, Zenon
  <2> QED BY <2>5, <2>6, Zenon DEF z, o
<1> DEFINE t == Weighed(fe_0)
           u == Weighed(fe_1)
<1>4. /\ t[0] = 0 /\ t[1] = 0 /\ t[2] = 0 /\ t[3] = 0 /\ t[4] = 0 /\ t[5] = 0
      /\ t[6] = 0 /\ t[7] = 0 /\ t[8] = 0 /\ t[9] = 0
  <2> HIDE DEF t
  <2> QED BY <1>3 DEF t, Limbs
<1>5. /\ u[0] = 1 /\ u[1] = 0 /\ u[2] = 0 /\ u[3] = 0 /\ u[4] = 0 /\ u[5] = 0
      /\ u[6] = 0 /\ u[7] = 0 /\ u[8] = 0 /\ u[9] = 0
  <2> HIDE DEF u
  <2> QED BY <1>3 DEF u, Limbs
<1> HIDE DEF t, u
<1>6. Total(t) = 0 /\ Total(u) = 1
  BY <1>4, <1>5 DEF Total
<1> QED BY <1>1, <1>6, Zenon DEF Value, t, u

(* Whichever representatives: alike is an equivalence. *)
LEMMA AlikeThrough ==
  ASSUME NEW a, NEW b, NEW c, Alike(a, b), Alike(b, c)
  PROVE  Alike(a, c)
BY DEF Alike

(* As above. *)
LEMMA AlikeBack ==
  ASSUME NEW a, NEW b, Alike(a, b)
  PROVE  Alike(b, a)
BY DEF Alike

(* h is the element n of the field. *)
Is(h, n) == h \in Tens /\ n \in Int /\ Alike(Value(h), n)

(* Every operation returns the element that it is named for. *)
LEMMA OperationsRight ==
  ASSUME NEW f, NEW g, NEW mf \in Nat, NEW mg \in Nat, Is(f, mf), Is(g, mg), CURVE \in Nat
  PROVE  /\ Is(fe_add(f, g), mf + mg) /\ Is(fe_sub(f, g), mf - mg) /\ Is(fe_neg(f), -mf)
         /\ Is(fe_mul(f, g), TimesMod(mf, mg)) /\ Is(fe_sq(f), TimesMod(mf, mf))
         /\ Is(fe_sq2(f), 2 * TimesMod(mf, mf))
         /\ Is(fe_mul121666(f), TimesMod(mf, CURVE))
         /\ Is(fe_0, 0) /\ Is(fe_1, 1)
<1> DEFINE a == Value(f)
           b == Value(g)
<1>1. f \in Tens /\ g \in Tens /\ a \in Int /\ b \in Int /\ Alike(a, mf) /\ Alike(b, mg)
  BY WeighedType DEF Is
<1>2. mf \in Int /\ mg \in Int /\ -1 \in Int /\ 2 \in Int /\ CURVE \in Int
  OBVIOUS
<1>3. \A x \in Int : Alike(x, x)
  BY DEF Alike
<1> HIDE DEF a, b
<1>4. Alike(a + b, mf + mg) /\ mf + mg \in Int
  BY <1>1, <1>2, AlikeSums
<1>5. \A x, y \in Int : Alike(x, y) => Alike(x * (-1), y * (-1)) /\ x * (-1) = -x
                                       /\ y * (-1) = -y
  <2> TAKE x, y \in Int
  <2> HAVE Alike(x, y)
  <2>1. Alike(x * (-1), y * (-1))
    BY <1>2, <1>3, AlikeSums, Zenon
  <2> QED BY <2>1
<1>6. Alike(-a, -mf) /\ Alike(-b, -mg) /\ -mf \in Int /\ -b \in Int /\ -mg \in Int
  <2>1. Alike(a * (-1), mf * (-1)) /\ a * (-1) = -a /\ mf * (-1) = -mf
    BY <1>1, <1>2, <1>5, Zenon
  <2>2. Alike(b * (-1), mg * (-1)) /\ b * (-1) = -b /\ mg * (-1) = -mg
    BY <1>1, <1>2, <1>5, Zenon
  <2>3. -mf \in Int /\ -b \in Int /\ -mg \in Int
    BY <1>1
  <2>4. Alike(-a, -mf)
    BY <2>1, Zenon
  <2> QED BY <2>2, <2>3, <2>4, Zenon
<1>7. Alike(a - b, mf - mg) /\ mf - mg \in Int
  <2>1. Alike(a + (-b), mf + (-mg))
    BY <1>1, <1>2, <1>6, AlikeSums, Zenon
  <2>2. a + (-b) = a - b /\ mf + (-mg) = mf - mg /\ mf - mg \in Int
    BY <1>1, <1>2
  <2> QED BY <2>1, <2>2, Zenon
<1>8. ASSUME NEW x \in Int, NEW y \in Int, NEW m \in Nat, NEW n \in Nat,
             Alike(x, m), Alike(y, n)
      PROVE  Alike(x * y, TimesMod(m, n)) /\ TimesMod(m, n) \in Int
  <2>1. m \in Int /\ n \in Int /\ m * n \in Int
    OBVIOUS
  <2>2. Alike(x * y, m * n)
    BY <1>8, <2>1, AlikeSums, Zenon
  <2>3. Alike((m * n) % Prime, m * n) /\ (m * n) % Prime \in Int
    <3> DEFINE k == m * n
    <3>1. k \in Int
      BY <2>1
    <3> HIDE DEF k
    <3>2. Alike(k % Prime, k) /\ k % Prime \in 0..(Prime - 1)
      BY <3>1, AlikeItself
    <3>3. Prime \in Int
      BY PrimeIs
    <3>4. k % Prime \in Int
      BY <3>2, <3>3
    <3> QED BY <3>2, <3>4, Zenon DEF k
  <2>4. TimesMod(m, n) = (m * n) % Prime
    BY <2>1, TimesModIs, Zenon
  <2>5. Alike(m * n, (m * n) % Prime)
    BY <2>3, AlikeBack, Zenon
  <2> QED BY <2>2, <2>3, <2>4, <2>5, AlikeThrough, Zenon
<1>9. Is(fe_add(f, g), mf + mg)
  BY <1>1, <1>4, ValueSum, Zenon DEF Is, a, b
<1>10. Is(fe_neg(f), -mf) /\ Is(fe_sub(f, g), mf - mg)
  BY <1>1, <1>6, <1>7, ValueLess, Zenon DEF Is, a, b
<1>11. Is(fe_mul(f, g), TimesMod(mf, mg))
  <2>1. Product(f, g) \in Tens /\ Alike(Value(Product(f, g)), a * b)
    BY <1>1, ProductAlike, Zenon DEF a, b
  <2>2. fe_mul(f, g) \in Tens /\ Alike(Value(fe_mul(f, g)), Value(Product(f, g)))
    BY <2>1, CarriesAlike, Zenon DEF fe_mul
  <2> QED BY <1>1, <1>8, <2>1, <2>2, AlikeThrough, Zenon DEF Is
<1>12. /\ Square(f) \in Tens /\ Alike(Value(Square(f)), TimesMod(mf, mf))
       /\ TimesMod(mf, mf) \in Int
  <2>1. Square(f) \in Tens /\ Alike(Value(Square(f)), a * a)
    BY <1>1, ProductAlike, SquareIsProduct, Zenon DEF a
  <2> QED BY <1>1, <1>8, <2>1, AlikeThrough, Zenon
<1>13. Is(fe_sq(f), TimesMod(mf, mf))
  <2>1. fe_sq(f) \in Tens /\ Alike(Value(fe_sq(f)), Value(Square(f)))
    BY <1>12, CarriesAlike, Zenon DEF fe_sq
  <2> QED BY <1>12, <2>1, AlikeThrough, Zenon DEF Is
<1>14. Is(fe_sq2(f), 2 * TimesMod(mf, mf))
  <2> DEFINE h == Square(f)
             s == Value(h)
             m == TimesMod(mf, mf)
             d == fe_add(h, h)
  <2>1. h \in Tens /\ s \in Int /\ m \in Int /\ Alike(s, m)
    BY <1>12, WeighedType, Zenon
  <2>2. d \in Tens /\ Value(d) = s + s
    BY <2>1, ValueSum, Zenon
  <2>3. fe_sq2(f) = CarryProduct(d)
    BY Zenon DEF fe_sq2
  <2> HIDE DEF h, s, m, d
  <2>4. Alike(s + s, m + m) /\ m + m = 2 * m /\ 2 * m \in Int
    BY <2>1, AlikeSums
  <2>5. Alike(Value(d), 2 * m) /\ 2 * m \in Int
    BY <2>2, <2>4, Zenon
  <2>6. CarryProduct(d) \in Tens /\ Alike(Value(CarryProduct(d)), Value(d))
    BY <2>2, CarriesAlike, Zenon
  <2> QED BY <2>3, <2>5, <2>6, AlikeThrough, Zenon DEF Is, m
<1>15. Is(fe_mul121666(f), TimesMod(mf, CURVE))
  <2> DEFINE h == [i \in Limbs |-> f[i] * CURVE]
  <2>1. fe_mul121666(f) = CarryOnce(h)
    <3>1. \A i \in Limbs : CURVE * f[i] = f[i] * CURVE
      BY <1>1, <1>2 DEF Tens
    <3> QED BY <3>1, Zenon DEF fe_mul121666
  <2>2. h \in Tens /\ Value(h) = a * CURVE
    BY <1>1, <1>2, ValueTimes, Zenon DEF a
  <2> HIDE DEF h
  <2>3. CarryOnce(h) \in Tens /\ Alike(Value(CarryOnce(h)), Value(h))
    BY <2>2, CarriesAlike, Zenon
  <2>4. Alike(a * CURVE, TimesMod(mf, CURVE)) /\ TimesMod(mf, CURVE) \in Int
    BY <1>1, <1>2, <1>3, <1>8, Zenon
  <2> QED BY <2>1, <2>2, <2>3, <2>4, AlikeThrough, Zenon DEF Is
<1>16. Is(fe_0, 0) /\ Is(fe_1, 1)
  <2>1. 0 \in Int /\ 1 \in Int
    OBVIOUS
  <2> QED BY <1>3, <2>1, ValueConstants, Zenon DEF Is
<1> QED BY <1>9, <1>10, <1>11, <1>13, <1>14, <1>15, <1>16, Zenon

-----------------------------------------------------------------------------
\* Any calls of fe.c, by themselves.
FieldSpec == FieldInit /\ [][FieldNext]_fieldVars

(* Each element has limbs for the number it is meant to be, the least one. *)
FieldIInv ==
  /\ DOMAIN fe = Elements /\ DOMAIN meant = Elements
  /\ \A x \in Elements : Is(fe[x], meant[x]) /\ meant[x] \in 0..(Prime - 1)

(* Reducing a number does not change the element. *)
LEMMA IsReduced ==
  ASSUME NEW h, NEW n, Is(h, n)
  PROVE  Is(h, n % Prime) /\ n % Prime \in 0..(Prime - 1)
<1>1. n \in Int
  BY DEF Is
<1>2. Alike(n % Prime, n) /\ n % Prime \in 0..(Prime - 1)
  BY <1>1, AlikeItself
<1>3. n % Prime \in Int
  BY <1>2, PrimeIs
<1>4. Alike(n, n % Prime)
  BY <1>2, AlikeBack, Zenon
<1>5. Alike(Value(h), n) /\ h \in Tens
  BY Zenon DEF Is
<1>6. Alike(Value(h), n % Prime)
  BY <1>4, <1>5, AlikeThrough, Zenon
<1> QED BY <1>2, <1>3, <1>5, <1>6, Zenon DEF Is

(* Elements in the invariant are the numbers they are meant to be. *)
LEMMA FieldInvResidues == FieldIInv => ResiduesRight
<1> SUFFICES ASSUME FieldIInv, NEW x \in Elements
             PROVE  NumberOf(fe[x]) = meant[x]
  BY DEF ResiduesRight
<1> DEFINE n == meant[x]
<1>1. fe[x] \in Tens /\ Alike(Value(fe[x]), n) /\ n \in 0..(Prime - 1)
  BY DEF FieldIInv, Is
<1>2. NumberOf(fe[x]) = Value(fe[x]) % Prime
  BY <1>1, NumberIsValue
<1> HIDE DEF n
<1>3. n % Prime = n
  BY <1>1, PrimeIs
<1> QED BY <1>1, <1>2, <1>3 DEF Alike, n

(* Limbs that were read hold their number. *)
LEMMA FieldInitRight == FieldInit => FieldIInv
<1> SUFFICES ASSUME FieldInit PROVE FieldIInv
  OBVIOUS
<1>1. PICK v \in [Elements -> InputValues] :
        /\ fe = [x \in Elements |-> fe_frombytes(v[x])]
        /\ meant = [x \in Elements |-> (v[x] % Weight[10]) % Prime]
  BY DEF FieldInit
<1>2. ASSUME NEW x \in Elements
      PROVE  Is(fe[x], meant[x]) /\ meant[x] \in 0..(Prime - 1)
  <2> DEFINE n == v[x]
  <2>1. n \in Nat
    BY FieldAssumption
  <2>2. fe[x] = fe_frombytes(n) /\ meant[x] = (n % Weight[10]) % Prime
    BY <1>1, Zenon
  <2> HIDE DEF n
  <2>3. Weight[10] \in Nat \ {0}
    BY Weights
  <2>4. n % Weight[10] \in Int
    <3> DEFINE w == Weight[10]
    <3>1. w \in Nat \ {0}
      BY <2>3
    <3> HIDE DEF w
    <3>2. n % w \in Int
      BY <2>1, <3>1
    <3> QED BY <3>2 DEF w
  <2>5. Is(fe_frombytes(n), n % Weight[10])
    BY <2>1, <2>4, FromBytesAlike, Zenon DEF Is
  <2> QED BY <2>2, <2>5, IsReduced, Zenon
<1>3. DOMAIN fe = Elements /\ DOMAIN meant = Elements
  BY <1>1
<1> QED BY <1>2, <1>3 DEF FieldIInv

(* Storing a result as "f". *)
LEMMA BecomesRight ==
  ASSUME FieldIInv, NEW h, NEW n, NEW depth, Is(h, n), Becomes(h, n, depth)
  PROVE  FieldIInv'
<1>1. "f" \in Elements
  BY DEF Elements
<1>2. /\ DOMAIN fe' = Elements /\ DOMAIN meant' = Elements
      /\ fe'["f"] = h /\ meant'["f"] = n % Prime
      /\ \A x \in Elements : x # "f" => fe'[x] = fe[x] /\ meant'[x] = meant[x]
  BY <1>1 DEF Becomes, FieldIInv
<1>3. Is(h, n % Prime) /\ n % Prime \in 0..(Prime - 1)
  BY IsReduced
<1>4. ASSUME NEW x \in Elements
      PROVE  Is(fe'[x], meant'[x]) /\ meant'[x] \in 0..(Prime - 1)
  BY <1>2, <1>3, Zenon DEF FieldIInv
<1>5. FieldIInv' = (/\ DOMAIN fe' = Elements /\ DOMAIN meant' = Elements
                    /\ \A x \in Elements :
                         Is(fe'[x], meant'[x]) /\ meant'[x] \in 0..(Prime - 1))
  BY DEF FieldIInv, Is, Tens, Limbs, Alike, Value, Weighed, Total, Prime, Weight, Radix, Elements
<1> QED BY <1>2, <1>4, <1>5

(* fe_cswap exchanges the elements or leaves them. *)
LEMMA SwapRight ==
  ASSUME FieldIInv, NEW b \in 0..1, fe' = Swap(fe, b), meant' = Swap(meant, b)
  PROVE  FieldIInv'
<1> DEFINE other(x) == CHOOSE y \in Elements : y # x
<1>1. \A x \in Elements : other(x) \in Elements
  BY DEF Elements
<1>2. ASSUME NEW x \in Elements
      PROVE  \E y \in Elements : fe'[x] = fe[y] /\ meant'[x] = meant[y]
  <2>1. /\ fe'[x] = IF b = 1 THEN fe[other(x)] ELSE fe[x]
        /\ meant'[x] = IF b = 1 THEN meant[other(x)] ELSE meant[x]
    BY Zenon DEF Swap
  <2> HIDE DEF other
  <2>2. CASE b = 1
    BY <1>1, <2>1, <2>2
  <2>3. CASE b # 1
    BY <2>1, <2>3
  <2> QED BY <2>2, <2>3
<1>3. DOMAIN fe' = Elements /\ DOMAIN meant' = Elements
  BY DEF Swap
<1> QED BY <1>2, <1>3 DEF FieldIInv

(* Every call keeps elements the numbers they are meant to be. *)
LEMMA FieldStepRight ==
  ASSUME FieldIInv, [FieldNext]_fieldVars
  PROVE  FieldIInv'
<1> DEFINE f == fe["f"]
           g == fe["g"]
           mf == meant["f"]
           mg == meant["g"]
           deeper == sums["f"] + sums["g"] + 1
<1>1. CURVE \in Nat
  BY FieldAssumption
<1>2. Is(f, mf) /\ Is(g, mg) /\ mf \in Nat /\ mg \in Nat
  <2>1. "f" \in Elements /\ "g" \in Elements
    BY DEF Elements
  <2>2. \A n \in 0..(Prime - 1) : n \in Nat
    BY PrimeIs
  <2> QED BY <2>1, <2>2, Zenon DEF FieldIInv
<1>3. CASE UNCHANGED fieldVars
  <2>1. fe' = fe /\ meant' = meant
    BY <1>3 DEF fieldVars
  <2> QED BY <2>1 DEF FieldIInv
<1>4. CASE FieldNext
  <2>1. \/ Becomes(fe_add(f, g), mf + mg, deeper)
        \/ Becomes(fe_sub(f, g), mf - mg, deeper)
        \/ Becomes(fe_neg(f), -mf, sums["f"])
        \/ Becomes(fe_mul(f, g), TimesMod(mf, mg), 0)
        \/ Becomes(fe_sq(f), TimesMod(mf, mf), 0)
        \/ Becomes(fe_sq2(f), 2 * TimesMod(mf, mf), 0)
        \/ Becomes(fe_mul121666(f), TimesMod(mf, CURVE), 1)
        \/ \E b \in 0..1 :
             \/ Becomes(fe_cmov(f, g, b), IF b = 1 THEN mg ELSE mf,
                        sums[IF b = 1 THEN "g" ELSE "f"])
             \/ fe' = Swap(fe, b) /\ meant' = Swap(meant, b)
        \/ Becomes(fe_0, 0, 0) \/ Becomes(fe_1, 1, 0)
    BY <1>4, Zenon DEF FieldNext
  <2> HIDE DEF f, g, mf, mg, deeper
  <2>2. /\ Is(fe_add(f, g), mf + mg) /\ Is(fe_sub(f, g), mf - mg) /\ Is(fe_neg(f), -mf)
        /\ Is(fe_mul(f, g), TimesMod(mf, mg)) /\ Is(fe_sq(f), TimesMod(mf, mf))
        /\ Is(fe_sq2(f), 2 * TimesMod(mf, mf))
        /\ Is(fe_mul121666(f), TimesMod(mf, CURVE))
        /\ Is(fe_0, 0) /\ Is(fe_1, 1)
    BY <1>1, <1>2, OperationsRight, Zenon
  <2>3. \A h, n, depth : Is(h, n) /\ Becomes(h, n, depth) => FieldIInv'
    BY BecomesRight, Zenon
  <2>4. ASSUME NEW b \in 0..1,
               Becomes(fe_cmov(f, g, b), IF b = 1 THEN mg ELSE mf,
                       sums[IF b = 1 THEN "g" ELSE "f"])
        PROVE  FieldIInv'
    <3>1. Is(fe_cmov(f, g, b), IF b = 1 THEN mg ELSE mf)
      BY <1>2, Zenon DEF fe_cmov
    <3> QED BY <2>3, <2>4, <3>1, Zenon
  <2>5. ASSUME NEW b \in 0..1, fe' = Swap(fe, b), meant' = Swap(meant, b)
        PROVE  FieldIInv'
    BY <2>5, SwapRight, Zenon
  <2> QED BY <2>1, <2>2, <2>3, <2>4, <2>5, Zenon
<1> QED BY <1>3, <1>4

(* The invariant of fe.c. *)
LEMMA FieldInvariant == FieldSpec => []FieldIInv
<1>1. FieldInit => FieldIInv
  BY FieldInitRight
<1>2. FieldIInv /\ [FieldNext]_fieldVars => FieldIInv'
  BY FieldStepRight
<1> QED BY <1>1, <1>2, PTL DEF FieldSpec

(* fe.c: limbs that were read keep their residue modulo 2^255 - 19 through
   every product, square, sum, difference and carry, whatever even radix the
   odd limbs have and whatever smaller number folds. *)
THEOREM ElementsKeepTheirResidue == FieldSpec => []ResiduesRight
BY FieldInvariant, FieldInvResidues, PTL

(* The field's arithmetic among the foundations behaves as by itself. *)
THEOREM FieldRunsAsByItself == Spec => FieldSpec
<1>1. Init => FieldInit
  BY DEF Init
<1>2. [Next]_foundationVars => [FieldNext]_fieldVars
  BY DEF Next, foundationVars, fieldVars
<1> QED BY <1>1, <1>2, PTL DEF Spec, FieldSpec

=============================================================================
