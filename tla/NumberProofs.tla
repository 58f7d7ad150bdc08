---------------------------- MODULE NumberProofs ----------------------------
(***************************************************************************)
(* Of the arithmetic in lib/ed25519: for radices wide enough, as those of  *)
(* the code are, every element of the field is written as the one number   *)
(* below p that it is, no word of the field's operations is too narrow,    *)
(* and scalars are the twelve digits of the number modulo the order.       *)
(*                                                                         *)
(* Two arguments carry all of it.  A carry moves weight from one digit to  *)
(* the next and leaves the number, or, with a fold, what it is modulo p or *)
(* the order (LibraryProofs has this of limbs); and bounds on the digits   *)
(* are followed through every carry and fold of an operation, which says   *)
(* that the last digit is the only one that is left to be reduced.         *)
(***************************************************************************)
EXTENDS LibraryProofs

-----------------------------------------------------------------------------
\* Folds over limbs and over digits, step by step.

(* The first k of n places, and what is left without the last. *)
LEMMA FirstSome ==
  ASSUME NEW n \in Nat
  PROVE  /\ \A k \in 0..n : 1..k \in SUBSET (1..n)
         /\ \A k \in 1..n : /\ 1..k # {} /\ Max(1..k) = k /\ (1..k) \ {k} = 1..(k - 1)
                             /\ k \in 0..n /\ k - 1 \in 0..n
<1>1. \A k \in 0..n : 1..k \in SUBSET (1..n)
  OBVIOUS
<1>2. ASSUME NEW k \in 1..n
      PROVE  Max(1..k) = k
  <2>1. k \in Nat /\ 1..k \in SUBSET (1..k) /\ 1..k # {} /\ k \in 1..k
    OBVIOUS
  <2> QED BY <2>1, GreatestOf, Zenon
<1>3. \A k \in 1..n : /\ 1..k # {} /\ (1..k) \ {k} = 1..(k - 1)
                     /\ k \in 0..n /\ k - 1 \in 0..n
  OBVIOUS
<1> QED BY <1>1, <1>2, <1>3, Zenon

\* g goes through a fold of Carry.
CarryTrail(K, h, n, seq, g) ==
  /\ g[0] = h /\ FoldLeft(Carry, h, seq) = g[n]
  /\ \A k \in 0..n : g[k] \in K
  /\ \A k \in 1..n : g[k] = Carry(g[k - 1], seq[k])

(* A fold of carries goes from one to the next. *)
LEMMA CarrySteps ==
  ASSUME NEW K, NEW I, NEW h \in K, NEW n \in Nat, NEW seq, DOMAIN seq = 1..n,
         \A k \in 1..n : seq[k] \in I,
         \A v \in K, i \in I : Carry(v, i) \in K
  PROVE  \E g : CarryTrail(K, h, n, seq, g)
<1> DEFINE Eq(f) == f = [s \in SUBSET (DOMAIN seq) |->
                           IF s = {} THEN h
                           ELSE Carry(f[s \ {Max(s)}], seq[Max(s)])]
           G == [v \in K |-> [i \in I |-> Carry(v, i)]]
<1>1. FoldLeft(Carry, h, seq) = (CHOOSE f : Eq(f))[DOMAIN seq]
  BY Zenon DEF FoldLeft, MapThenFoldSet
<1> HIDE DEF G
<1>2. \A v \in K, i \in I : G[v][i] = Carry(v, i)
  BY DEF G
<1>3. \A s \in SUBSET (1..n) : s # {} => seq[Max(s)] \in I
  BY GreatestOf
<1>4. \E f : Eq(f)
  <2>1. PICK f : Folds(G, h, seq, n, f)
    BY FoldsExist
  <2>2. \A s \in SUBSET (1..n) : f[s] = Folded(G, h, seq, s, f)
    BY <2>1, Zenon DEF Folds
  <2>3. f[{}] = h
    BY <2>2, Zenon DEF Folded
  <2>4. \A s \in SUBSET (1..n) : s # {} => f[s] = G[f[s \ {Max(s)}]][seq[Max(s)]]
    BY <2>2, Zenon DEF Folded
  <2>5. \A s \in SUBSET (1..n) :
          s # {} /\ f[s \ {Max(s)}] \in K
            => f[s] = Carry(f[s \ {Max(s)}], seq[Max(s)]) /\ f[s] \in K
    <3> TAKE s \in SUBSET (1..n)
    <3> HAVE s # {} /\ f[s \ {Max(s)}] \in K
    <3> DEFINE v == f[s \ {Max(s)}]
               i == seq[Max(s)]
    <3>1. f[s] = G[v][i] /\ v \in K /\ i \in I
      BY <1>3, <2>4
    <3> HIDE DEF v, i
    <3>2. f[s] = Carry(v, i) /\ Carry(v, i) \in K
      BY <1>2, <3>1
    <3> QED BY <3>2, Zenon DEF v, i
  <2>6. \A s \in SUBSET (1..n) : f[s] \in K
    BY <2>3, <2>5, FoldsStay
  <2>7. \A s \in SUBSET (1..n) : s # {} => s \ {Max(s)} \in SUBSET (1..n)
    OBVIOUS
  <2>8. \A s \in SUBSET (1..n) :
          Folded(G, h, seq, s, f) = IF s = {} THEN h
                                    ELSE Carry(f[s \ {Max(s)}], seq[Max(s)])
    <3> TAKE s \in SUBSET (1..n)
    <3>1. CASE s = {}
      BY <3>1, Zenon DEF Folded
    <3>2. CASE s # {}
      <4>1. f[s] = Carry(f[s \ {Max(s)}], seq[Max(s)])
        BY <2>5, <2>6, <2>7, <3>2, Zenon
      <4> QED BY <2>2, <3>2, <4>1, Zenon
    <3> QED BY <3>1, <3>2
  <2>9. Eq(f)
    BY <2>1, <2>8, Zenon DEF Folds
  <2> QED BY <2>9
<1> DEFINE f == CHOOSE f : Eq(f)
<1>5. f = [s \in SUBSET (1..n) |->
             IF s = {} THEN h ELSE Carry(f[s \ {Max(s)}], seq[Max(s)])]
  BY <1>4, Zenon
<1> HIDE DEF f
<1>6. f[{}] = h
  BY <1>5
<1>7. \A s \in SUBSET (1..n) : s # {} => f[s] = Carry(f[s \ {Max(s)}], seq[Max(s)])
  BY <1>5, Zenon
<1>8. \A s \in SUBSET (1..n) : s # {} /\ f[s \ {Max(s)}] \in K => f[s] \in K
  BY <1>3, <1>7, Zenon
<1>9. \A s \in SUBSET (1..n) : f[s] \in K
  BY <1>6, <1>8, FoldsStay
<1> DEFINE g == [k \in 0..n |-> f[1..k]]
<1>10. \A k \in 0..n : g[k] = f[1..k] /\ 1..k \in SUBSET (1..n)
  BY FirstSome
<1>11. g[0] = h /\ g[n] = f[1..n] /\ \A k \in 0..n : g[k] \in K
  <2>1. 1..0 = {} /\ 0 \in 0..n /\ n \in 0..n
    OBVIOUS
  <2> QED BY <1>6, <1>9, <1>10, <2>1, Zenon
<1>12. \A k \in 1..n : g[k] = Carry(g[k - 1], seq[k])
  <2> TAKE k \in 1..n
  <2>1. /\ 1..k # {} /\ Max(1..k) = k /\ (1..k) \ {k} = 1..(k - 1)
        /\ k \in 0..n /\ k - 1 \in 0..n
    BY FirstSome
  <2> HIDE DEF g
  <2> QED BY <1>7, <1>10, <2>1, Zenon
<1>13. FoldLeft(Carry, h, seq) = f[1..n]
  BY <1>1, Zenon DEF f
<1> HIDE DEF g
<1>14. CarryTrail(K, h, n, seq, g)
  BY <1>11, <1>12, <1>13, Zenon DEF CarryTrail
<1> QED BY <1>14

\* g goes through a fold of CarryDown.
CarryDownTrail(K, h, n, seq, g) ==
  /\ g[0] = h /\ FoldLeft(CarryDown, h, seq) = g[n]
  /\ \A k \in 0..n : g[k] \in K
  /\ \A k \in 1..n : g[k] = CarryDown(g[k - 1], seq[k])

(* The same of the carries of fe_tobytes. *)
LEMMA CarryDownSteps ==
  ASSUME NEW K, NEW I, NEW h \in K, NEW n \in Nat, NEW seq, DOMAIN seq = 1..n,
         \A k \in 1..n : seq[k] \in I,
         \A v \in K, i \in I : CarryDown(v, i) \in K
  PROVE  \E g : CarryDownTrail(K, h, n, seq, g)
<1> DEFINE Eq(f) == f = [s \in SUBSET (DOMAIN seq) |->
                           IF s = {} THEN h
                           ELSE CarryDown(f[s \ {Max(s)}], seq[Max(s)])]
           G == [v \in K |-> [i \in I |-> CarryDown(v, i)]]
<1>1. FoldLeft(CarryDown, h, seq) = (CHOOSE f : Eq(f))[DOMAIN seq]
  BY Zenon DEF FoldLeft, MapThenFoldSet
<1> HIDE DEF G
<1>2. \A v \in K, i \in I : G[v][i] = CarryDown(v, i)
  BY DEF G
<1>3. \A s \in SUBSET (1..n) : s # {} => seq[Max(s)] \in I
  BY GreatestOf
<1>4. \E f : Eq(f)
  <2>1. PICK f : Folds(G, h, seq, n, f)
    BY FoldsExist
  <2>2. \A s \in SUBSET (1..n) : f[s] = Folded(G, h, seq, s, f)
    BY <2>1, Zenon DEF Folds
  <2>3. f[{}] = h
    BY <2>2, Zenon DEF Folded
  <2>4. \A s \in SUBSET (1..n) : s # {} => f[s] = G[f[s \ {Max(s)}]][seq[Max(s)]]
    BY <2>2, Zenon DEF Folded
  <2>5. \A s \in SUBSET (1..n) :
          s # {} /\ f[s \ {Max(s)}] \in K
            => f[s] = CarryDown(f[s \ {Max(s)}], seq[Max(s)]) /\ f[s] \in K
    <3> TAKE s \in SUBSET (1..n)
    <3> HAVE s # {} /\ f[s \ {Max(s)}] \in K
    <3> DEFINE v == f[s \ {Max(s)}]
               i == seq[Max(s)]
    <3>1. f[s] = G[v][i] /\ v \in K /\ i \in I
      BY <1>3, <2>4
    <3> HIDE DEF v, i
    <3>2. f[s] = CarryDown(v, i) /\ CarryDown(v, i) \in K
      BY <1>2, <3>1
    <3> QED BY <3>2, Zenon DEF v, i
  <2>6. \A s \in SUBSET (1..n) : f[s] \in K
    BY <2>3, <2>5, FoldsStay
  <2>7. \A s \in SUBSET (1..n) : s # {} => s \ {Max(s)} \in SUBSET (1..n)
    OBVIOUS
  <2>8. \A s \in SUBSET (1..n) :
          Folded(G, h, seq, s, f) = IF s = {} THEN h
                                    ELSE CarryDown(f[s \ {Max(s)}], seq[Max(s)])
    <3> TAKE s \in SUBSET (1..n)
    <3>1. CASE s = {}
      BY <3>1, Zenon DEF Folded
    <3>2. CASE s # {}
      <4>1. f[s] = CarryDown(f[s \ {Max(s)}], seq[Max(s)])
        BY <2>5, <2>6, <2>7, <3>2, Zenon
      <4> QED BY <2>2, <3>2, <4>1, Zenon
    <3> QED BY <3>1, <3>2
  <2>9. Eq(f)
    BY <2>1, <2>8, Zenon DEF Folds
  <2> QED BY <2>9
<1> DEFINE f == CHOOSE f : Eq(f)
<1>5. f = [s \in SUBSET (1..n) |->
             IF s = {} THEN h ELSE CarryDown(f[s \ {Max(s)}], seq[Max(s)])]
  BY <1>4, Zenon
<1> HIDE DEF f
<1>6. f[{}] = h
  BY <1>5
<1>7. \A s \in SUBSET (1..n) : s # {} => f[s] = CarryDown(f[s \ {Max(s)}], seq[Max(s)])
  BY <1>5, Zenon
<1>8. \A s \in SUBSET (1..n) : s # {} /\ f[s \ {Max(s)}] \in K => f[s] \in K
  BY <1>3, <1>7, Zenon
<1>9. \A s \in SUBSET (1..n) : f[s] \in K
  BY <1>6, <1>8, FoldsStay
<1> DEFINE g == [k \in 0..n |-> f[1..k]]
<1>10. \A k \in 0..n : g[k] = f[1..k] /\ 1..k \in SUBSET (1..n)
  BY FirstSome
<1>11. g[0] = h /\ g[n] = f[1..n] /\ \A k \in 0..n : g[k] \in K
  <2>1. 1..0 = {} /\ 0 \in 0..n /\ n \in 0..n
    OBVIOUS
  <2> QED BY <1>6, <1>9, <1>10, <2>1, Zenon
<1>12. \A k \in 1..n : g[k] = CarryDown(g[k - 1], seq[k])
  <2> TAKE k \in 1..n
  <2>1. /\ 1..k # {} /\ Max(1..k) = k /\ (1..k) \ {k} = 1..(k - 1)
        /\ k \in 0..n /\ k - 1 \in 0..n
    BY FirstSome
  <2> HIDE DEF g
  <2> QED BY <1>7, <1>10, <2>1, Zenon
<1>13. FoldLeft(CarryDown, h, seq) = f[1..n]
  BY <1>1, Zenon DEF f
<1> HIDE DEF g
<1>14. CarryDownTrail(K, h, n, seq, g)
  BY <1>11, <1>12, <1>13, Zenon DEF CarryDownTrail
<1> QED BY <1>14

\* g goes through a fold of Fold.
FoldTrail(K, h, n, seq, g) ==
  /\ g[0] = h /\ FoldLeft(Fold, h, seq) = g[n]
  /\ \A k \in 0..n : g[k] \in K
  /\ \A k \in 1..n : g[k] = Fold(g[k - 1], seq[k])

(* The same of the folds of a scalar. *)
LEMMA FoldSteps ==
  ASSUME NEW K, NEW I, NEW h \in K, NEW n \in Nat, NEW seq, DOMAIN seq = 1..n,
         \A k \in 1..n : seq[k] \in I,
         \A v \in K, i \in I : Fold(v, i) \in K
  PROVE  \E g : FoldTrail(K, h, n, seq, g)
<1> DEFINE Eq(f) == f = [s \in SUBSET (DOMAIN seq) |->
                           IF s = {} THEN h
                           ELSE Fold(f[s \ {Max(s)}], seq[Max(s)])]
           G == [v \in K |-> [i \in I |-> Fold(v, i)]]
<1>1. FoldLeft(Fold, h, seq) = (CHOOSE f : Eq(f))[DOMAIN seq]
  BY Zenon DEF FoldLeft, MapThenFoldSet
<1> HIDE DEF G
<1>2. \A v \in K, i \in I : G[v][i] = Fold(v, i)
  BY DEF G
<1>3. \A s \in SUBSET (1..n) : s # {} => seq[Max(s)] \in I
  BY GreatestOf
<1>4. \E f : Eq(f)
  <2>1. PICK f : Folds(G, h, seq, n, f)
    BY FoldsExist
  <2>2. \A s \in SUBSET (1..n) : f[s] = Folded(G, h, seq, s, f)
    BY <2>1, Zenon DEF Folds
  <2>3. f[{}] = h
    BY <2>2, Zenon DEF Folded
  <2>4. \A s \in SUBSET (1..n) : s # {} => f[s] = G[f[s \ {Max(s)}]][seq[Max(s)]]
    BY <2>2, Zenon DEF Folded
  <2>5. \A s \in SUBSET (1..n) :
          s # {} /\ f[s \ {Max(s)}] \in K
            => f[s] = Fold(f[s \ {Max(s)}], seq[Max(s)]) /\ f[s] \in K
    <3> TAKE s \in SUBSET (1..n)
    <3> HAVE s # {} /\ f[s \ {Max(s)}] \in K
    <3> DEFINE v == f[s \ {Max(s)}]
               i == seq[Max(s)]
    <3>1. f[s] = G[v][i] /\ v \in K /\ i \in I
      BY <1>3, <2>4
    <3> HIDE DEF v, i
    <3>2. f[s] = Fold(v, i) /\ Fold(v, i) \in K
      BY <1>2, <3>1
    <3> QED BY <3>2, Zenon DEF v, i
  <2>6. \A s \in SUBSET (1..n) : f[s] \in K
    BY <2>3, <2>5, FoldsStay
  <2>7. \A s \in SUBSET (1..n) : s # {} => s \ {Max(s)} \in SUBSET (1..n)
    OBVIOUS
  <2>8. \A s \in SUBSET (1..n) :
          Folded(G, h, seq, s, f) = IF s = {} THEN h
                                    ELSE Fold(f[s \ {Max(s)}], seq[Max(s)])
    <3> TAKE s \in SUBSET (1..n)
    <3>1. CASE s = {}
      BY <3>1, Zenon DEF Folded
    <3>2. CASE s # {}
      <4>1. f[s] = Fold(f[s \ {Max(s)}], seq[Max(s)])
        BY <2>5, <2>6, <2>7, <3>2, Zenon
      <4> QED BY <2>2, <3>2, <4>1, Zenon
    <3> QED BY <3>1, <3>2
  <2>9. Eq(f)
    BY <2>1, <2>8, Zenon DEF Folds
  <2> QED BY <2>9
<1> DEFINE f == CHOOSE f : Eq(f)
<1>5. f = [s \in SUBSET (1..n) |->
             IF s = {} THEN h ELSE Fold(f[s \ {Max(s)}], seq[Max(s)])]
  BY <1>4, Zenon
<1> HIDE DEF f
<1>6. f[{}] = h
  BY <1>5
<1>7. \A s \in SUBSET (1..n) : s # {} => f[s] = Fold(f[s \ {Max(s)}], seq[Max(s)])
  BY <1>5, Zenon
<1>8. \A s \in SUBSET (1..n) : s # {} /\ f[s \ {Max(s)}] \in K => f[s] \in K
  BY <1>3, <1>7, Zenon
<1>9. \A s \in SUBSET (1..n) : f[s] \in K
  BY <1>6, <1>8, FoldsStay
<1> DEFINE g == [k \in 0..n |-> f[1..k]]
<1>10. \A k \in 0..n : g[k] = f[1..k] /\ 1..k \in SUBSET (1..n)
  BY FirstSome
<1>11. g[0] = h /\ g[n] = f[1..n] /\ \A k \in 0..n : g[k] \in K
  <2>1. 1..0 = {} /\ 0 \in 0..n /\ n \in 0..n
    OBVIOUS
  <2> QED BY <1>6, <1>9, <1>10, <2>1, Zenon
<1>12. \A k \in 1..n : g[k] = Fold(g[k - 1], seq[k])
  <2> TAKE k \in 1..n
  <2>1. /\ 1..k # {} /\ Max(1..k) = k /\ (1..k) \ {k} = 1..(k - 1)
        /\ k \in 0..n /\ k - 1 \in 0..n
    BY FirstSome
  <2> HIDE DEF g
  <2> QED BY <1>7, <1>10, <2>1, Zenon
<1>13. FoldLeft(Fold, h, seq) = f[1..n]
  BY <1>1, Zenon DEF f
<1> HIDE DEF g
<1>14. FoldTrail(K, h, n, seq, g)
  BY <1>11, <1>12, <1>13, Zenon DEF FoldTrail
<1> QED BY <1>14

\* g goes through a fold of Rounded.
RoundedTrail(K, h, n, seq, g) ==
  /\ g[0] = h /\ FoldLeft(Rounded, h, seq) = g[n]
  /\ \A k \in 0..n : g[k] \in K
  /\ \A k \in 1..n : g[k] = Rounded(g[k - 1], seq[k])

(* And of its rounded carries. *)
LEMMA RoundedSteps ==
  ASSUME NEW K, NEW I, NEW h \in K, NEW n \in Nat, NEW seq, DOMAIN seq = 1..n,
         \A k \in 1..n : seq[k] \in I,
         \A v \in K, i \in I : Rounded(v, i) \in K
  PROVE  \E g : RoundedTrail(K, h, n, seq, g)
<1> DEFINE Eq(f) == f = [s \in SUBSET (DOMAIN seq) |->
                           IF s = {} THEN h
                           ELSE Rounded(f[s \ {Max(s)}], seq[Max(s)])]
           G == [v \in K |-> [i \in I |-> Rounded(v, i)]]
<1>1. FoldLeft(Rounded, h, seq) = (CHOOSE f : Eq(f))[DOMAIN seq]
  BY Zenon DEF FoldLeft, MapThenFoldSet
<1> HIDE DEF G
<1>2. \A v \in K, i \in I : G[v][i] = Rounded(v, i)
  BY DEF G
<1>3. \A s \in SUBSET (1..n) : s # {} => seq[Max(s)] \in I
  BY GreatestOf
<1>4. \E f : Eq(f)
  <2>1. PICK f : Folds(G, h, seq, n, f)
    BY FoldsExist
  <2>2. \A s \in SUBSET (1..n) : f[s] = Folded(G, h, seq, s, f)
    BY <2>1, Zenon DEF Folds
  <2>3. f[{}] = h
    BY <2>2, Zenon DEF Folded
  <2>4. \A s \in SUBSET (1..n) : s # {} => f[s] = G[f[s \ {Max(s)}]][seq[Max(s)]]
    BY <2>2, Zenon DEF Folded
  <2>5. \A s \in SUBSET (1..n) :
          s # {} /\ f[s \ {Max(s)}] \in K
            => f[s] = Rounded(f[s \ {Max(s)}], seq[Max(s)]) /\ f[s] \in K
    <3> TAKE s \in SUBSET (1..n)
    <3> HAVE s # {} /\ f[s \ {Max(s)}] \in K
    <3> DEFINE v == f[s \ {Max(s)}]
               i == seq[Max(s)]
    <3>1. f[s] = G[v][i] /\ v \in K /\ i \in I
      BY <1>3, <2>4
    <3> HIDE DEF v, i
    <3>2. f[s] = Rounded(v, i) /\ Rounded(v, i) \in K
      BY <1>2, <3>1
    <3> QED BY <3>2, Zenon DEF v, i
  <2>6. \A s \in SUBSET (1..n) : f[s] \in K
    BY <2>3, <2>5, FoldsStay
  <2>7. \A s \in SUBSET (1..n) : s # {} => s \ {Max(s)} \in SUBSET (1..n)
    OBVIOUS
  <2>8. \A s \in SUBSET (1..n) :
          Folded(G, h, seq, s, f) = IF s = {} THEN h
                                    ELSE Rounded(f[s \ {Max(s)}], seq[Max(s)])
    <3> TAKE s \in SUBSET (1..n)
    <3>1. CASE s = {}
      BY <3>1, Zenon DEF Folded
    <3>2. CASE s # {}
      <4>1. f[s] = Rounded(f[s \ {Max(s)}], seq[Max(s)])
        BY <2>5, <2>6, <2>7, <3>2, Zenon
      <4> QED BY <2>2, <3>2, <4>1, Zenon
    <3> QED BY <3>1, <3>2
  <2>9. Eq(f)
    BY <2>1, <2>8, Zenon DEF Folds
  <2> QED BY <2>9
<1> DEFINE f == CHOOSE f : Eq(f)
<1>5. f = [s \in SUBSET (1..n) |->
             IF s = {} THEN h ELSE Rounded(f[s \ {Max(s)}], seq[Max(s)])]
  BY <1>4, Zenon
<1> HIDE DEF f
<1>6. f[{}] = h
  BY <1>5
<1>7. \A s \in SUBSET (1..n) : s # {} => f[s] = Rounded(f[s \ {Max(s)}], seq[Max(s)])
  BY <1>5, Zenon
<1>8. \A s \in SUBSET (1..n) : s # {} /\ f[s \ {Max(s)}] \in K => f[s] \in K
  BY <1>3, <1>7, Zenon
<1>9. \A s \in SUBSET (1..n) : f[s] \in K
  BY <1>6, <1>8, FoldsStay
<1> DEFINE g == [k \in 0..n |-> f[1..k]]
<1>10. \A k \in 0..n : g[k] = f[1..k] /\ 1..k \in SUBSET (1..n)
  BY FirstSome
<1>11. g[0] = h /\ g[n] = f[1..n] /\ \A k \in 0..n : g[k] \in K
  <2>1. 1..0 = {} /\ 0 \in 0..n /\ n \in 0..n
    OBVIOUS
  <2> QED BY <1>6, <1>9, <1>10, <2>1, Zenon
<1>12. \A k \in 1..n : g[k] = Rounded(g[k - 1], seq[k])
  <2> TAKE k \in 1..n
  <2>1. /\ 1..k # {} /\ Max(1..k) = k /\ (1..k) \ {k} = 1..(k - 1)
        /\ k \in 0..n /\ k - 1 \in 0..n
    BY FirstSome
  <2> HIDE DEF g
  <2> QED BY <1>7, <1>10, <2>1, Zenon
<1>13. FoldLeft(Rounded, h, seq) = f[1..n]
  BY <1>1, Zenon DEF f
<1> HIDE DEF g
<1>14. RoundedTrail(K, h, n, seq, g)
  BY <1>11, <1>12, <1>13, Zenon DEF RoundedTrail
<1> QED BY <1>14

\* g goes through a fold of Floored.
FlooredTrail(K, h, n, seq, g) ==
  /\ g[0] = h /\ FoldLeft(Floored, h, seq) = g[n]
  /\ \A k \in 0..n : g[k] \in K
  /\ \A k \in 1..n : g[k] = Floored(g[k - 1], seq[k])

(* And of those that leave digits. *)
LEMMA FlooredSteps ==
  ASSUME NEW K, NEW I, NEW h \in K, NEW n \in Nat, NEW seq, DOMAIN seq = 1..n,
         \A k \in 1..n : seq[k] \in I,
         \A v \in K, i \in I : Floored(v, i) \in K
  PROVE  \E g : FlooredTrail(K, h, n, seq, g)
<1> DEFINE Eq(f) == f = [s \in SUBSET (DOMAIN seq) |->
                           IF s = {} THEN h
                           ELSE Floored(f[s \ {Max(s)}], seq[Max(s)])]
           G == [v \in K |-> [i \in I |-> Floored(v, i)]]
<1>1. FoldLeft(Floored, h, seq) = (CHOOSE f : Eq(f))[DOMAIN seq]
  BY Zenon DEF FoldLeft, MapThenFoldSet
<1> HIDE DEF G
<1>2. \A v \in K, i \in I : G[v][i] = Floored(v, i)
  BY DEF G
<1>3. \A s \in SUBSET (1..n) : s # {} => seq[Max(s)] \in I
  BY GreatestOf
<1>4. \E f : Eq(f)
  <2>1. PICK f : Folds(G, h, seq, n, f)
    BY FoldsExist
  <2>2. \A s \in SUBSET (1..n) : f[s] = Folded(G, h, seq, s, f)
    BY <2>1, Zenon DEF Folds
  <2>3. f[{}] = h
    BY <2>2, Zenon DEF Folded
  <2>4. \A s \in SUBSET (1..n) : s # {} => f[s] = G[f[s \ {Max(s)}]][seq[Max(s)]]
    BY <2>2, Zenon DEF Folded
  <2>5. \A s \in SUBSET (1..n) :
          s # {} /\ f[s \ {Max(s)}] \in K
            => f[s] = Floored(f[s \ {Max(s)}], seq[Max(s)]) /\ f[s] \in K
    <3> TAKE s \in SUBSET (1..n)
    <3> HAVE s # {} /\ f[s \ {Max(s)}] \in K
    <3> DEFINE v == f[s \ {Max(s)}]
               i == seq[Max(s)]
    <3>1. f[s] = G[v][i] /\ v \in K /\ i \in I
      BY <1>3, <2>4
    <3> HIDE DEF v, i
    <3>2. f[s] = Floored(v, i) /\ Floored(v, i) \in K
      BY <1>2, <3>1
    <3> QED BY <3>2, Zenon DEF v, i
  <2>6. \A s \in SUBSET (1..n) : f[s] \in K
    BY <2>3, <2>5, FoldsStay
  <2>7. \A s \in SUBSET (1..n) : s # {} => s \ {Max(s)} \in SUBSET (1..n)
    OBVIOUS
  <2>8. \A s \in SUBSET (1..n) :
          Folded(G, h, seq, s, f) = IF s = {} THEN h
                                    ELSE Floored(f[s \ {Max(s)}], seq[Max(s)])
    <3> TAKE s \in SUBSET (1..n)
    <3>1. CASE s = {}
      BY <3>1, Zenon DEF Folded
    <3>2. CASE s # {}
      <4>1. f[s] = Floored(f[s \ {Max(s)}], seq[Max(s)])
        BY <2>5, <2>6, <2>7, <3>2, Zenon
      <4> QED BY <2>2, <3>2, <4>1, Zenon
    <3> QED BY <3>1, <3>2
  <2>9. Eq(f)
    BY <2>1, <2>8, Zenon DEF Folds
  <2> QED BY <2>9
<1> DEFINE f == CHOOSE f : Eq(f)
<1>5. f = [s \in SUBSET (1..n) |->
             IF s = {} THEN h ELSE Floored(f[s \ {Max(s)}], seq[Max(s)])]
  BY <1>4, Zenon
<1> HIDE DEF f
<1>6. f[{}] = h
  BY <1>5
<1>7. \A s \in SUBSET (1..n) : s # {} => f[s] = Floored(f[s \ {Max(s)}], seq[Max(s)])
  BY <1>5, Zenon
<1>8. \A s \in SUBSET (1..n) : s # {} /\ f[s \ {Max(s)}] \in K => f[s] \in K
  BY <1>3, <1>7, Zenon
<1>9. \A s \in SUBSET (1..n) : f[s] \in K
  BY <1>6, <1>8, FoldsStay
<1> DEFINE g == [k \in 0..n |-> f[1..k]]
<1>10. \A k \in 0..n : g[k] = f[1..k] /\ 1..k \in SUBSET (1..n)
  BY FirstSome
<1>11. g[0] = h /\ g[n] = f[1..n] /\ \A k \in 0..n : g[k] \in K
  <2>1. 1..0 = {} /\ 0 \in 0..n /\ n \in 0..n
    OBVIOUS
  <2> QED BY <1>6, <1>9, <1>10, <2>1, Zenon
<1>12. \A k \in 1..n : g[k] = Floored(g[k - 1], seq[k])
  <2> TAKE k \in 1..n
  <2>1. /\ 1..k # {} /\ Max(1..k) = k /\ (1..k) \ {k} = 1..(k - 1)
        /\ k \in 0..n /\ k - 1 \in 0..n
    BY FirstSome
  <2> HIDE DEF g
  <2> QED BY <1>7, <1>10, <2>1, Zenon
<1>13. FoldLeft(Floored, h, seq) = f[1..n]
  BY <1>1, Zenon DEF f
<1> HIDE DEF g
<1>14. FlooredTrail(K, h, n, seq, g)
  BY <1>11, <1>12, <1>13, Zenon DEF FlooredTrail
<1> QED BY <1>14

-----------------------------------------------------------------------------
\* What an element is written as: the quotient, and the digits.

(* What agrees at the start and from each place to the next agrees at the end. *)
LEMMA StepByStep ==
  ASSUME NEW f, NEW g, f[-1] = g[-1], \A i \in Limbs : f[i - 1] = g[i - 1] => f[i] = g[i]
  PROVE  \A i \in -1..9 : f[i] = g[i]
<1>1. f[0] = g[0]
  <2>1. 0 \in Limbs /\ 0 - 1 = -1
    BY DEF Limbs
  <2> QED BY <2>1
<1>2. f[1] = g[1] /\ f[2] = g[2] /\ f[3] = g[3] /\ f[4] = g[4] /\ f[5] = g[5]
      /\ f[6] = g[6] /\ f[7] = g[7] /\ f[8] = g[8] /\ f[9] = g[9]
  <2>1. \A i \in 1..9 : i \in Limbs
    BY DEF Limbs
  <2>2. f[1] = g[1]
    BY <1>1, <2>1
  <2>3. f[2] = g[2]
    BY <2>1, <2>2
  <2>4. f[3] = g[3]
    BY <2>1, <2>3
  <2>5. f[4] = g[4]
    BY <2>1, <2>4
  <2>6. f[5] = g[5]
    BY <2>1, <2>5
  <2>7. f[6] = g[6]
    BY <2>1, <2>6
  <2>8. f[7] = g[7]
    BY <2>1, <2>7
  <2>9. f[8] = g[8]
    BY <2>1, <2>8
  <2>10. f[9] = g[9]
    BY <2>1, <2>9
  <2> QED BY <2>2, <2>3, <2>4, <2>5, <2>6, <2>7, <2>8, <2>9, <2>10
<1> QED BY <1>1, <1>2

(* The sums up to every place. *)
LEMMA SumsSteps ==
  ASSUME NEW t \in Tens, NEW u, Sums(t, u)
  PROVE  /\ u[-1] = 0 /\ u[9] = Total(t)
         /\ \A i \in Limbs : u[i] = u[i - 1] + t[i]
         /\ \A i \in -1..9 : u[i] \in Int
<1>1. \A i \in -1..9 : u[i] = Added(t, i, u)
  BY Zenon DEF Sums
<1>2. u[-1] = 0 /\ \A i \in Limbs : u[i] = u[i - 1] + t[i]
  <2>1. -1 \in -1..9 /\ \A i \in Limbs : i \in -1..9 /\ i # -1
    BY DEF Limbs
  <2> QED BY <1>1, <2>1, Zenon DEF Added
<1>3. u[9] = Total(t)
  BY SumsTotal
<1> DEFINE f == [i \in -1..9 |-> IF u[i] \in Int THEN 0 ELSE 1]
           g == [i \in -1..9 |-> 0]
<1>4. f[-1] = g[-1]
  BY <1>2
<1>5. \A i \in Limbs : f[i - 1] = g[i - 1] => f[i] = g[i]
  <2> TAKE i \in Limbs
  <2>1. i - 1 \in -1..9 /\ i \in -1..9 /\ t[i] \in Int
    BY DEF Limbs, Tens
  <2>2. u[i - 1] \in Int => u[i] \in Int
    BY <1>2, <2>1
  <2> QED BY <2>1, <2>2
<1>6. \A i \in -1..9 : f[i] = g[i]
  <2> HIDE DEF f, g
  <2> QED BY <1>4, <1>5, StepByStep, Zenon
<1>7. \A i \in -1..9 : u[i] \in Int
  <2> TAKE i \in -1..9
  <2>1. f[i] = g[i]
    <3> HIDE DEF f, g
    <3> QED BY <1>6
  <2> QED BY <2>1
<1> HIDE DEF f, g
<1> QED BY <1>2, <1>3, <1>7

(* The quotient, from the remainder that it leaves. *)
LEMMA QuotientOf ==
  ASSUME NEW b \in Nat \ {0}, NEW q \in Int, NEW r \in Int, 0 <= r, r < b
  PROVE  (b * q + r) \div b = q /\ (b * q + r) % b = r
<1> DEFINE x == b * q + r
<1>1. x \in Int
  OBVIOUS
<1>2. x = b * (x \div b) + (x % b) /\ x % b \in 0..(b - 1) /\ x \div b \in Int
  <2> HIDE DEF x
  <2> QED BY <1>1
<1> DEFINE k == x \div b
           s == x % b
<1>3. b * q + r = b * k + s /\ k \in Int /\ s \in Int /\ 0 <= s /\ s < b
  BY <1>2
<1> HIDE DEF k, s
<1>4. q - k = 0
  <2> DEFINE d == q - k
  <2>1. d \in Int /\ b * d = s - r
    BY <1>3
  <2> HIDE DEF d
  <2>2. b * d < b /\ b * d > -b
    BY <1>3, <2>1
  <2>3. d >= 1 => b * d >= b
    BY <2>1
  <2>4. d <= -1 => b * d <= -b
    BY <2>1
  <2>5. d = 0
    BY <2>1, <2>2, <2>3, <2>4
  <2> QED BY <2>5 DEF d
<1>5. k = q /\ s = r
  <2>1. k = q
    BY <1>3, <1>4
  <2> QED BY <1>3, <2>1
<1> HIDE DEF x
<1> QED BY <1>5 DEF k, s, x

(* Dividing in two steps. *)
LEMMA FloorOfFloor ==
  ASSUME NEW x \in Int, NEW w \in Nat \ {0}, NEW a \in Int, NEW r \in Nat \ {0}
  PROVE  (a + (x \div w)) \div r = (x + a * w) \div (w * r)
<1> DEFINE f == x \div w
           m == x % w
<1>1. f \in Int /\ m \in Int /\ 0 <= m /\ m < w /\ x = w * f + m
  OBVIOUS
<1> HIDE DEF f, m
<1> DEFINE y == a + f
           q == y \div r
           n == y % r
<1>2. y \in Int
  BY <1>1
<1> HIDE DEF y
<1>3. q \in Int /\ n \in Int /\ 0 <= n /\ n < r /\ y = r * q + n
  BY <1>2
<1> HIDE DEF q, n
<1> DEFINE z == w * n + m
           d == w * r
<1>4. x + a * w = d * q + z
  <2>1. a = r * q + n - f
    BY <1>1, <1>3 DEF y
  <2>2. w * f + m + (r * q + n - f) * w = (w * r) * q + (w * n + m)
    BY <1>1, <1>3
  <2> QED BY <1>1, <2>1, <2>2
<1>5. z \in Int /\ 0 <= z /\ z < d /\ d \in Nat \ {0}
  <2>1. w * n \in Int /\ w * n >= 0
    BY <1>3
  <2>2. w * n <= w * (r - 1)
    BY <1>3
  <2>3. w * (r - 1) = w * r - w /\ w * r \in Nat \ {0}
    OBVIOUS
  <2> QED BY <1>1, <2>1, <2>2, <2>3
<1> HIDE DEF z, d
<1>6. (d * q + z) \div d = q
  BY <1>3, <1>5, QuotientOf, Zenon
<1> QED BY <1>4, <1>6, Zenon DEF d, q, y, f

\* The first estimate of fe_tobytes.
Estimate(h) == (FOLD * h[9] + OddRadix \div 2) \div OddRadix

(* The quotient of fe_tobytes: the value and the estimate, in radix p + FOLD. *)
LEMMA QuotientIs ==
  ASSUME NEW h \in Tens
  PROVE  /\ Estimate(h) \in Int /\ Quotient(h) \in Int
         /\ Quotient(h) = (Value(h) + Estimate(h)) \div Weight[10]
<1> DEFINE e == Estimate(h)
           t == Weighed(h)
           W == Weight
<1>1. e \in Int
  <2>1. h[9] \in Int /\ FOLD \in Int /\ OddRadix \in Nat \ {0}
    BY Radices DEF Tens, Limbs
  <2>2. FOLD * h[9] \in Int
    BY <2>1
  <2>3. OddRadix \div 2 \in Int
    BY <2>1
  <2> DEFINE x == FOLD * h[9] + OddRadix \div 2
  <2>4. x \in Int
    BY <2>2, <2>3
  <2> HIDE DEF x
  <2>5. x \div OddRadix \in Int
    BY <2>1, <2>4
  <2> QED BY <2>5 DEF x, Estimate
<1>2. t \in Tens
  BY WeighedType
<1>3. PICK u : Sums(t, u)
  BY <1>2, SumsExist
<1>4. /\ u[-1] = 0 /\ u[9] = Total(t)
      /\ \A i \in Limbs : u[i] = u[i - 1] + t[i]
      /\ \A i \in -1..9 : u[i] \in Int
  BY <1>2, <1>3, SumsSteps, Zenon
<1>5. \A i \in Limbs : /\ t[i] = h[i] * W[i] /\ h[i] \in Int /\ W[i] \in Nat \ {0}
                       /\ Radix(i) \in Nat \ {0} /\ W[i + 1] = W[i] * Radix(i)
                       /\ i - 1 \in -1..9 /\ i \in -1..9
  <2> TAKE i \in Limbs
  <2>1. i \in 0..9 /\ i \in 0..10 /\ i \in Int /\ i - 1 \in -1..9 /\ i \in -1..9
    BY DEF Limbs
  <2>2. t[i] = h[i] * W[i]
    BY Zenon DEF Weighed
  <2> QED BY <2>1, <2>2, Weights, Radices DEF Tens
<1> DEFINE Step(f, i) == IF i = -1 THEN e ELSE (h[i] + f[i - 1]) \div Radix(i)
           Eq(f) == f = [i \in -1..9 |-> Step(f, i)]
           g == [i \in -1..9 |-> (u[i] + e) \div W[i + 1]]
<1>6. W[0] = 1
  BY Weights
<1> HIDE DEF e, t, W
<1>7. g[-1] = e
  <2>1. g[-1] = (0 + e) \div W[0]
    BY <1>4
  <2>2. (0 + e) \div 1 = e
    BY <1>1
  <2> QED BY <1>6, <2>1, <2>2
<1>8. \A i \in Limbs : g[i] = (h[i] + g[i - 1]) \div Radix(i)
  <2> TAKE i \in Limbs
  <2> DEFINE x == u[i - 1] + e
             w == W[i]
             r == Radix(i)
             a == h[i]
  <2>1. x \in Int /\ w \in Nat \ {0} /\ r \in Nat \ {0} /\ a \in Int
    BY <1>1, <1>4, <1>5
  <2>2. (a + (x \div w)) \div r = (x + a * w) \div (w * r)
    <3> HIDE DEF x, w, r, a
    <3> QED BY <2>1, FloorOfFloor, Zenon
  <2>3. g[i] = (u[i] + e) \div W[i + 1]
    BY <1>5, Zenon
  <2>4. g[i - 1] = x \div w
    <3>1. (i - 1) + 1 = i
      BY DEF Limbs
    <3>2. g[i - 1] = (u[i - 1] + e) \div W[(i - 1) + 1]
      BY <1>5, Zenon
    <3> QED BY <3>1, <3>2
  <2>5. u[i] + e = x + a * w /\ W[i + 1] = w * r
    <3>1. u[i] = u[i - 1] + a * w /\ W[i + 1] = w * r /\ u[i - 1] \in Int
      BY <1>4, <1>5
    <3>2. a * w \in Int
      BY <2>1
    <3> QED BY <1>1, <3>1, <3>2
  <2> HIDE DEF g
  <2> QED BY <2>2, <2>3, <2>4, <2>5, Zenon
<1>9. Eq(g)
  <2>1. \A i \in -1..9 : Step(g, i) = (u[i] + e) \div W[i + 1]
    <3> TAKE i \in -1..9
    <3>1. g[i] = (u[i] + e) \div W[i + 1]
      BY Zenon
    <3>2. CASE i = -1
      <4> HIDE DEF g
      <4> QED BY <1>7, <3>1, <3>2, Zenon
    <3>3. CASE i # -1
      <4>1. i \in Limbs
        BY <3>3 DEF Limbs
      <4> HIDE DEF g
      <4> QED BY <1>8, <3>1, <3>3, <4>1, Zenon
    <3> QED BY <3>2, <3>3
  <2> QED BY <2>1, Zenon
<1> DEFINE f == CHOOSE f : Eq(f)
<1>10. Eq(f)
  BY <1>9, Zenon
<1>11. Quotient(h) = f[9]
  BY Zenon DEF Quotient, e, Estimate
<1> HIDE DEF f, g
<1>12. f[9] = g[9]
  <2>1. \A i \in -1..9 : f[i] = Step(f, i)
    BY <1>10, Zenon
  <2>2. f[-1] = e /\ \A i \in Limbs : f[i] = (h[i] + f[i - 1]) \div Radix(i)
    <3>1. -1 \in -1..9 /\ \A i \in Limbs : i \in -1..9 /\ i # -1
      BY DEF Limbs
    <3> QED BY <2>1, <3>1, Zenon
  <2>3. \A i \in -1..9 : f[i] = g[i]
    <3>1. \A i \in Limbs : f[i - 1] = g[i - 1] => f[i] = g[i]
      BY <1>8, <2>2, Zenon
    <3>2. f[-1] = g[-1]
      BY <1>7, <2>2, Zenon
    <3> QED BY <3>1, <3>2, StepByStep, Zenon
  <2> QED BY <2>3
<1>13. g[9] = (Value(h) + e) \div W[10]
  BY <1>4 DEF g, Value, t
<1>14. g[9] \in Int
  <2>1. u[9] + e \in Int
    BY <1>1, <1>4
  <2>2. W[10] \in Nat \ {0}
    BY Weights DEF W
  <2> DEFINE x == u[9] + e
             w == W[10]
  <2>3. x \in Int /\ w \in Nat \ {0}
    BY <2>1, <2>2
  <2>4. g[9] = x \div w
    BY DEF g
  <2> HIDE DEF x, w
  <2>5. x \div w \in Int
    BY <2>3
  <2> QED BY <2>4, <2>5
<1> QED BY <1>1, <1>11, <1>12, <1>13, <1>14, Zenon DEF e, W

(* A product with something positive has the sign of the other factor. *)
LEMMA BetweenMultiples ==
  ASSUME NEW w \in Nat \ {0}, NEW x \in Int, NEW p \in Int
  PROVE  (w * x > -w => x >= 0) /\ (w * x < w * p => x < p)
<1>1. x < 0 => w * x <= -w
  <2>1. x < 0 => w * x = -(w * (-x)) /\ w * (-x) >= w
    OBVIOUS
  <2> QED BY <2>1
<1>2. x >= p => w * x >= w * p
  <2>1. x >= p => w * (x - p) >= 0
    OBVIOUS
  <2>2. w * (x - p) = w * x - w * p
    OBVIOUS
  <2> QED BY <2>1, <2>2
<1> QED BY <1>1, <1>2

\* Twice the weight of a limb, F * h is e and m over; V and e are q and n over.
Estimated(F, R, half, u, W, h, B, V, e, m, q, n) ==
  /\ F \in Nat /\ R \in Nat \ {0} /\ half \in Int /\ 2 * half = R
  /\ u \in Nat \ {0} /\ F < u /\ W \in Nat \ {0} /\ W = u * R
  /\ h \in Int /\ B \in Int /\ V \in Int /\ V = B + h * u
  /\ e \in Int /\ m \in 0..(R - 1) /\ F * h + half = R * e + m
  /\ q \in Int /\ n \in 0..(W - 1) /\ V + e = W * q + n
  /\ -(W - 2 * F * F) < 2 * F * B /\ 2 * F * B < W - 2 * F * F
  /\ F < W /\ -(W - F) <= V /\ V <= W - F

(* Why the estimate of fe_tobytes is exact: what it leaves of the value is
   between 0 and p. *)
LEMMA EstimateIsExact ==
  ASSUME NEW F, NEW R, NEW half, NEW u, NEW W, NEW h, NEW B, NEW V, NEW e, NEW m,
         NEW q, NEW n, Estimated(F, R, half, u, W, h, B, V, e, m, q, n)
  PROVE  V - q * (W - F) \in 0..(W - F - 1)
<1>0. /\ F \in Nat /\ R \in Nat \ {0} /\ half \in Int /\ 2 * half = R
      /\ u \in Nat \ {0} /\ F < u /\ W \in Nat \ {0} /\ W = u * R
      /\ h \in Int /\ B \in Int /\ V \in Int /\ V = B + h * u
      /\ e \in Int /\ m \in 0..(R - 1) /\ F * h + half = R * e + m
      /\ q \in Int /\ n \in 0..(W - 1) /\ V + e = W * q + n
      /\ -(W - 2 * F * F) < 2 * F * B /\ 2 * F * B < W - 2 * F * F
      /\ F < W /\ -(W - F) <= V /\ V <= W - F
  BY DEF Estimated
<1> USE <1>0
<1> DEFINE x == V - q * (W - F)
           a == F * B
           b == F * V
           c == u * m
           ww == F * F
           d == W * e
           g == F * e
<1>1. /\ a \in Int /\ b \in Int /\ c \in Int /\ ww \in Int /\ d \in Int /\ x \in Int
      /\ g \in Int
  OBVIOUS
<1>2. -W < 2 * a - 2 * ww /\ -W + 2 * ww < 2 * a /\ 2 * a < W - 2 * ww
  <2>1. 2 * F * F = 2 * ww /\ 2 * F * B = 2 * a
    OBVIOUS
  <2>2. ww >= 0
    OBVIOUS
  <2> QED BY <1>1, <2>1, <2>2
<1>3. c >= 0 /\ c <= W - u
  <2>1. u * (R - 1) = W - u
    OBVIOUS
  <2>2. \A y \in 0..(R - 1) : u * y <= u * (R - 1) /\ u * y >= 0
    OBVIOUS
  <2> QED BY <2>1, <2>2
<1>4. 2 * d = 2 * b - 2 * a + W - 2 * c
  <2>1. u * (F * h + half) = u * (R * e + m)
    OBVIOUS
  <2>2. u * (R * e + m) = d + c
    OBVIOUS
  <2>3. u * (F * h + half) = F * (h * u) + u * half
    OBVIOUS
  <2>4. F * (h * u) = b - a
    <3>1. h * u = V - B
      OBVIOUS
    <3>2. F * (V - B) = F * V - F * B
      OBVIOUS
    <3> QED BY <3>1, <3>2
  <2>5. 2 * (u * half) = W
    <3>1. 2 * (u * half) = u * (2 * half)
      OBVIOUS
    <3> QED BY <3>1
  <2>6. u * half \in Int
    OBVIOUS
  <2> DEFINE y == u * half
  <2> HIDE DEF a, b, c, d, y
  <2>7. y \in Int /\ b - a + y = d + c /\ 2 * y = W
    BY <2>1, <2>2, <2>3, <2>4, <2>5, <2>6 DEF y
  <2> QED BY <1>1, <2>7
<1>5. b <= F * W - ww /\ b >= -(F * W) + ww
  <2>1. F * (W - F) = F * W - ww
    OBVIOUS
  <2>2. \A y, z \in Int : y <= z => F * y <= F * z
    OBVIOUS
  <2>3. W - F \in Int /\ -(W - F) \in Int
    OBVIOUS
  <2>4. F * V <= F * (W - F) /\ F * (-(W - F)) <= F * V
    BY <2>2, <2>3
  <2>5. F * (-(W - F)) = -(F * W) + ww
    OBVIOUS
  <2> QED BY <2>1, <2>4, <2>5
<1>6. e <= F /\ e >= -F
  <2> DEFINE z == F * W
  <2>1. z \in Int /\ b <= z - ww /\ b >= -z + ww
    BY <1>5
  <2>2. ww >= 0
    OBVIOUS
  <2> HIDE DEF a, b, c, d, ww, z
  <2>3. 2 * d < 2 * z + 2 * W
    BY <1>1, <1>2, <1>3, <1>4, <2>1, <2>2
  <2>4. 2 * d > -(2 * z) - 2 * W
    BY <1>1, <1>2, <1>3, <1>4, <2>1, <2>2
  <2>5. W * e < W * (F + 1)
    <3>1. W * (F + 1) = z + W
      BY DEF z
    <3> QED BY <1>1, <2>1, <2>3, <3>1 DEF d
  <2>6. W * (-F - 1) < W * e
    <3>1. W * (-F - 1) = -z - W
      BY DEF z
    <3> QED BY <1>1, <2>1, <2>4, <3>1 DEF d
  <2>7. e < F + 1
    <3>1. F + 1 \in Int
      OBVIOUS
    <3> QED BY <2>5, <3>1, BetweenMultiples, Zenon
  <2>8. -F - 1 < e
    <3>1. -F - 1 \in Int
      OBVIOUS
    <3> QED BY <2>6, <3>1, BetweenMultiples, Zenon
  <2> QED BY <2>7, <2>8
<1>7. g <= ww /\ g >= -ww
  <2>1. \A y, z \in Int : y <= z => F * y <= F * z
    OBVIOUS
  <2>2. F * e <= F * F /\ F * (-F) <= F * e
    BY <1>6, <2>1
  <2>3. F * (-F) = -ww
    OBVIOUS
  <2> QED BY <2>2, <2>3
<1> DEFINE k == (W - F) * n
           p == (W - F) * (W - 1)
<1>8. k \in Int /\ p \in Int /\ 0 <= k /\ k <= p
  <2>1. \A y \in 0..(W - 1) : (W - F) * y <= (W - F) * (W - 1) /\ (W - F) * y >= 0
    <3> DEFINE v == W - F
    <3>1. v \in Nat
      OBVIOUS
    <3> HIDE DEF v
    <3>2. \A y \in 0..(W - 1) : v * y <= v * (W - 1) /\ v * y >= 0
      BY <3>1
    <3> QED BY <3>2 DEF v
  <2> QED BY <2>1
<1>9. 2 * (W * x) = 2 * k + 2 * a - W + 2 * c + 2 * g
  <2>1. x = n - e + q * F
    <3>1. q * (W - F) = W * q - q * F
      OBVIOUS
    <3> QED BY <3>1
  <2>2. W * x = W * n - W * e + F * (W * q)
    <3>1. W * (n - e + q * F) = W * n - W * e + F * (W * q)
      OBVIOUS
    <3> HIDE DEF x
    <3> QED BY <2>1, <3>1
  <2>3. W * q = V + e - n
    OBVIOUS
  <2>4. F * (V + e - n) = b + g - F * n
    OBVIOUS
  <2>5. k = W * n - F * n
    OBVIOUS
  <2> DEFINE wn == W * n
             fn == F * n
             wx == W * x
  <2>6. wx = wn - d + (b + g - fn) /\ k = wn - fn /\ wn \in Int /\ fn \in Int /\ wx \in Int
    BY <2>2, <2>3, <2>4, <2>5
  <2> HIDE DEF wn, fn, wx, a, b, c, d, g, k
  <2>7. 2 * wx = 2 * k + 2 * a - W + 2 * c + 2 * g
    BY <1>1, <1>4, <1>8, <2>6
  <2> QED BY <2>7 DEF wx
<1>10. W * x > -W
  <2> DEFINE wx == W * x
  <2>1. wx \in Int
    OBVIOUS
  <2> HIDE DEF x, a, c, g, k, ww, p, wx
  <2>2. wx > -W
    BY <1>1, <1>2, <1>3, <1>7, <1>8, <1>9, <2>1 DEF wx
  <2> QED BY <2>2 DEF wx
<1>11. W * x < W * (W - F)
  <2> DEFINE wx == W * x
             y == W * (W - F)
  <2>1. wx \in Int /\ y \in Int
    OBVIOUS
  <2>2. p = y - (W - F)
    OBVIOUS
  <2> HIDE DEF x, a, c, g, k, ww, p, wx, y
  <2>3. 2 * wx < 2 * y
    BY <1>1, <1>2, <1>3, <1>7, <1>8, <1>9, <2>1, <2>2 DEF wx
  <2> QED BY <2>1, <2>3 DEF wx, y
<1>12. x >= 0 /\ x < W - F
  <2>1. W - F \in Int
    OBVIOUS
  <2> HIDE DEF x
  <2> QED BY <1>1, <1>10, <1>11, <2>1, BetweenMultiples, Zenon
<1> HIDE DEF x
<1>13. x \in 0..(W - F - 1)
  BY <1>1, <1>12
<1> QED BY <1>13 DEF x

(* Division of numbers of either sign. *)
LEMMA Division ==
  ASSUME NEW n \in Int, NEW b \in Nat \ {0}
  PROVE  n = b * (n \div b) + (n % b) /\ n % b \in 0..(b - 1) /\ n \div b \in Int
  OBVIOUS

\* The limbs below the last, at their weights.
LowerLimbs(h) == [i \in Limbs |-> IF i = 9 THEN 0 ELSE h[i] * Weight[i]]

(* What Below9 adds up. *)
LEMMA Below9Is ==
  ASSUME NEW h \in Tens
  PROVE  /\ Below9(h) \in Int /\ Below9(h) = Total(LowerLimbs(h))
         /\ LowerLimbs(h) \in Tens
         /\ Value(h) = Below9(h) + h[9] * Weight[9]
<1> DEFINE t == LowerLimbs(h)
           U(u) == u = [i \in -1..9 |-> IF i = -1 THEN 0
                          ELSE u[i - 1] + (IF i = 9 THEN 0 ELSE h[i] * Weight[i])]
           w == Weighed(h)
<1>1. w \in Tens
  BY WeighedType
<1>2. \A i \in Limbs : t[i] = IF i = 9 THEN 0 ELSE w[i]
  BY Zenon DEF LowerLimbs, Weighed
<1>3. t \in Tens
  <2>1. \A i \in Limbs : t[i] \in Int
    <3>1. \A i \in Limbs : w[i] \in Int
      BY <1>1 DEF Tens
    <3>2. 0 \in Int
      OBVIOUS
    <3> HIDE DEF t, w
    <3> QED BY <1>2, <3>1, <3>2, Zenon
  <2>2. t = [i \in Limbs |-> t[i]]
    BY Zenon DEF LowerLimbs
  <2> HIDE DEF t
  <2> QED BY <2>1, <2>2 DEF Tens
<1>4. \A i \in -1..9 : i # -1 => t[i] = IF i = 9 THEN 0 ELSE h[i] * Weight[i]
  BY ShortSteps, Zenon DEF LowerLimbs
<1> HIDE DEF t, w
<1>5. \A u : Sums(t, u) <=> U(u)
  <2>1. \A u : \A i \in -1..9 :
          Added(t, i, u) = IF i = -1 THEN 0
                           ELSE u[i - 1] + (IF i = 9 THEN 0 ELSE h[i] * Weight[i])
    BY <1>4, Zenon DEF Added
  <2> TAKE u
  <2>2. [i \in -1..9 |-> Added(t, i, u)] =
          [i \in -1..9 |-> IF i = -1 THEN 0
                           ELSE u[i - 1] + (IF i = 9 THEN 0 ELSE h[i] * Weight[i])]
    BY <2>1, Zenon
  <2> QED BY <2>2, Zenon DEF Sums
<1> DEFINE c == CHOOSE u : U(u)
<1>6. Below9(h) = c[9]
  BY Zenon DEF Below9, SumOver
<1>7. U(c)
  <2>1. \E u : U(u)
    BY <1>3, <1>5, SumsExist, Zenon
  <2> QED BY <2>1, Zenon
<1>8. c[9] = Total(t)
  BY <1>3, <1>5, <1>7, SumsTotal, Zenon
<1>9. Total(t) \in Int
  BY <1>3, TotalType
<1> HIDE DEF c, U
<1>10. Total(w) = Total(t) + w[9]
  <2>1. /\ t[0] = w[0] /\ t[1] = w[1] /\ t[2] = w[2] /\ t[3] = w[3] /\ t[4] = w[4]
        /\ t[5] = w[5] /\ t[6] = w[6] /\ t[7] = w[7] /\ t[8] = w[8] /\ t[9] = 0
    BY <1>2 DEF Limbs
  <2>2. /\ w[0] \in Int /\ w[1] \in Int /\ w[2] \in Int /\ w[3] \in Int
        /\ w[4] \in Int /\ w[5] \in Int /\ w[6] \in Int /\ w[7] \in Int
        /\ w[8] \in Int /\ w[9] \in Int
    BY <1>1 DEF Tens, Limbs
  <2> QED BY <2>1, <2>2 DEF Total
<1>11. w[9] = h[9] * Weight[9]
  <2>1. 9 \in Limbs
    BY DEF Limbs
  <2> QED BY <2>1, Zenon DEF w, Weighed
<1>12. Value(h) = Total(w)
  BY Zenon DEF Value, w
<1> QED BY <1>3, <1>6, <1>8, <1>9, <1>10, <1>11, <1>12, Zenon DEF t

(* fe_tobytes writes the value of the digits. *)
LEMMA BytesAreValue ==
  ASSUME NEW h, Digits(h) \in Tens
  PROVE  fe_tobytes(h) = Value(Digits(h))
<1> DEFINE d == Digits(h)
           t == Weighed(d)
           U(u) == u = [i \in -1..9 |-> IF i = -1 THEN 0
                          ELSE u[i - 1] + d[i] * Weight[i]]
<1>1. t \in Tens
  BY WeighedType
<1>2. \A i \in -1..9 : i # -1 => t[i] = d[i] * Weight[i]
  BY ShortSteps, Zenon DEF Weighed
<1> HIDE DEF t
<1>3. \A u : Sums(t, u) <=> U(u)
  <2>1. \A u : \A i \in -1..9 :
          Added(t, i, u) = IF i = -1 THEN 0 ELSE u[i - 1] + d[i] * Weight[i]
    BY <1>2, Zenon DEF Added
  <2> TAKE u
  <2>2. [i \in -1..9 |-> Added(t, i, u)] =
          [i \in -1..9 |-> IF i = -1 THEN 0 ELSE u[i - 1] + d[i] * Weight[i]]
    BY <2>1, Zenon
  <2> QED BY <2>2, Zenon DEF Sums
<1> DEFINE c == CHOOSE u : U(u)
<1>4. fe_tobytes(h) = c[9]
  BY Zenon DEF fe_tobytes, SumOver
<1>5. U(c)
  <2>1. \E u : U(u)
    BY <1>1, <1>3, SumsExist, Zenon
  <2> QED BY <2>1, Zenon
<1>6. c[9] = Total(t)
  BY <1>1, <1>3, <1>5, SumsTotal, Zenon
<1> QED BY <1>4, <1>6, Zenon DEF t, Value

(* What may be written is divided by p exactly. *)
LEMMA QuotientExact ==
  ASSUME NEW h \in Tens, Writable(h)
  PROVE  /\ Quotient(h) \in Int
         /\ Value(h) - Quotient(h) * Prime \in 0..(Prime - 1)
<1> DEFINE F == FOLD
           R == OddRadix
           half == OddRadix \div 2
           u == Weight[9]
           W == Weight[10]
           B == Below9(h)
           V == Value(h)
           e == Estimate(h)
           x == FOLD * h[9] + OddRadix \div 2
           m == x % OddRadix
           q == Quotient(h)
           n == (V + e) % W
<1>1. /\ F \in Nat /\ R \in Nat \ {0} /\ 2 * half = R /\ half \in Int /\ F < R
      /\ h[9] \in Int
  BY FieldAssumption DEF Tens, Limbs
<1>2. u \in Nat \ {0} /\ W \in Nat \ {0} /\ W = u * R
  <2>1. 9 \in 0..9 /\ 9 + 1 = 10 /\ 10 \in 0..10 /\ 9 \in 0..10 /\ Radix(9) = OddRadix
    BY DEF Radix
  <2> QED BY <2>1, Weights
<1>3. F < u
  <2>1. Weight[8] \in Nat \ {0} /\ Weight[9] = Weight[8] * Radix(8) /\ Radix(8) = 2 * OddRadix
    <3>1. 8 \in 0..9 /\ 8 + 1 = 9 /\ 8 \in 0..10
      OBVIOUS
    <3>2. Radix(8) = 2 * OddRadix
      BY DEF Radix
    <3> QED BY <3>1, <3>2, Weights
  <2>2. \A y, z \in Nat \ {0} : y * (2 * z) >= z
    OBVIOUS
  <2>3. u >= R
    BY <1>1, <2>1, <2>2
  <2> QED BY <1>1, <1>2, <2>3
<1>4. B \in Int /\ V \in Int /\ V = B + h[9] * u
  BY Below9Is, WeighedType
<1>5. e \in Int /\ q \in Int /\ q = (V + e) \div W
  BY QuotientIs, Zenon
<1>6. m \in 0..(R - 1) /\ F * h[9] + half = R * e + m
  <2>1. F * h[9] \in Int
    BY <1>1
  <2>2. x \in Int
    BY <1>1, <2>1
  <2>3. e = x \div OddRadix
    BY Zenon DEF Estimate
  <2> HIDE DEF x, e
  <2>4. x = OddRadix * (x \div OddRadix) + m /\ m \in 0..(R - 1)
    BY <1>1, <2>2
  <2> QED BY <2>3, <2>4, Zenon DEF x
<1>7. n \in 0..(W - 1) /\ V + e = W * q + n
  <2> DEFINE y == V + e
  <2>1. y \in Int
    BY <1>4, <1>5
  <2> HIDE DEF V, e, W, y, q
  <2>2. y = W * (y \div W) + (y % W) /\ y % W \in 0..(W - 1)
    BY <1>2, <2>1, Division, Zenon
  <2> QED BY <1>5, <2>2 DEF y
<1>8. Prime \in Nat \ {0} /\ Prime = W - F /\ F < W
  <2>1. Prime \in Nat \ {0} /\ W = Prime + F
    BY PrimeIs
  <2> HIDE DEF W, F
  <2> QED BY <1>1, <1>2, <2>1
<1>9. /\ -(W - 2 * F * F) < 2 * F * B /\ 2 * F * B < W - 2 * F * F
      /\ V \in -Prime..Prime
  <2>1. V = B + h[9] * u
    BY <1>4
  <2> HIDE DEF V
  <2>2. B + h[9] * u \in -Prime..Prime
    BY Zenon DEF Writable
  <2>3. -(W - 2 * F * F) < 2 * F * B /\ 2 * F * B < W - 2 * F * F
    BY Zenon DEF Writable
  <2> QED BY <2>1, <2>2, <2>3
<1>10. -(W - F) <= V /\ V <= W - F
  <2> HIDE DEF V, W, F
  <2> QED BY <1>1, <1>2, <1>4, <1>8, <1>9
<1> HIDE DEF F, R, half, u, W, B, V, e, m, q, n
<1>11. V - q * (W - F) \in 0..(W - F - 1)
  <2> DEFINE h9 == h[9]
  <2>1. h9 \in Int /\ V = B + h9 * u /\ F * h9 + half = R * e + m
    BY <1>1, <1>4, <1>6
  <2> HIDE DEF h9
  <2>2. F \in Nat /\ R \in Nat \ {0} /\ half \in Int /\ 2 * half = R
    BY <1>1, Zenon
  <2>3. u \in Nat \ {0} /\ F < u /\ W \in Nat \ {0} /\ W = u * R
    BY <1>2, <1>3, Zenon
  <2>4. B \in Int /\ V \in Int /\ e \in Int /\ m \in 0..(R - 1) /\ q \in Int /\ n \in 0..(W - 1)
    BY <1>4, <1>5, <1>6, <1>7, Zenon
  <2>5. V + e = W * q + n /\ F < W /\ -(W - F) <= V /\ V <= W - F
    BY <1>7, <1>8, <1>10, Zenon
  <2>6. -(W - 2 * F * F) < 2 * F * B /\ 2 * F * B < W - 2 * F * F
    BY <1>9, Zenon
  <2>7. Estimated(F, R, half, u, W, h9, B, V, e, m, q, n)
    BY <2>1, <2>2, <2>3, <2>4, <2>5, <2>6, Zenon DEF Estimated
  <2> QED BY <2>7, EstimateIsExact, Zenon
<1>12. W - F = Prime
  BY <1>8
<1> QED BY <1>5, <1>11, <1>12, Zenon DEF V, q

(* What a carry changes. *)
LEMMA CarriedParts ==
  ASSUME NEW h \in Tens, NEW i \in Limbs, NEW c \in Int
  PROVE  /\ Carried(h, i, c) \in Tens
         /\ (i + 1) % 10 \in Limbs /\ (i + 1) % 10 # i
         /\ Carried(h, i, c)[i] = h[i] - c * Radix(i)
         /\ Carried(h, i, c)[(i + 1) % 10] =
              h[(i + 1) % 10] + (IF i = 9 THEN FOLD * c ELSE c)
         /\ \A k \in Limbs : k # i /\ k # (i + 1) % 10 => Carried(h, i, c)[k] = h[k]
<1> DEFINE g == Carried(h, i, c)
           j == (i + 1) % 10
           up == IF i = 9 THEN FOLD * c ELSE c
           x == h[i] - c * Radix(i)
           y == h[j] + up
<1>1. j \in Limbs /\ j # i
  BY DEF Limbs
<1>2. x \in Int /\ y \in Int
  <2>1. i \in Int
    BY DEF Limbs
  <2>2. Radix(i) \in Int /\ FOLD \in Int
    BY <2>1, Radices
  <2>3. h[i] \in Int /\ h[j] \in Int
    BY <1>1 DEF Tens
  <2>4. up \in Int
    BY <2>2
  <2> HIDE DEF j, up
  <2> QED BY <2>2, <2>3, <2>4
<1>3. g = [h EXCEPT ![i] = x, ![j] = y]
  BY Zenon DEF Carried
<1> HIDE DEF g, j, x, y
<1>4. g \in Tens /\ g[i] = x /\ g[j] = y /\ \A k \in Limbs : k # i /\ k # j => g[k] = h[k]
  BY <1>1, <1>2, <1>3 DEF Tens
<1> QED BY <1>1, <1>4, Zenon DEF g, j, x, y

(* A carry to the next place keeps the value. *)
LEMMA CarriedValue ==
  ASSUME NEW h \in Tens, NEW i \in Limbs, i # 9, NEW c \in Int
  PROVE  Value(Carried(h, i, c)) = Value(h)
<1> DEFINE g == Carried(h, i, c)
           j == i + 1
           t == Weighed(h)
           u == Weighed(g)
           d == (c * Radix(i)) * Weight[i]
           e == c * Weight[j]
<1>1. j \in Limbs /\ j # i /\ (i + 1) % 10 = j /\ i \in 0..9
  BY DEF Limbs
<1>2. /\ g \in Tens /\ g[i] = h[i] - c * Radix(i) /\ g[j] = h[j] + c
      /\ \A k \in Limbs : k # i /\ k # j => g[k] = h[k]
  <2> DEFINE up == IF i = 9 THEN FOLD * c ELSE c
  <2>1. /\ g \in Tens /\ g[i] = h[i] - c * Radix(i)
        /\ g[(i + 1) % 10] = h[(i + 1) % 10] + up
        /\ \A k \in Limbs : k # i /\ k # (i + 1) % 10 => g[k] = h[k]
    BY CarriedParts
  <2>2. up = c
    OBVIOUS
  <2> HIDE DEF g, j, up
  <2> QED BY <1>1, <2>1, <2>2, Zenon
<1>3. t \in Tens /\ u \in Tens
  BY <1>2, WeighedType
<1>4. /\ Weight[i] \in Int /\ Weight[j] \in Int /\ Radix(i) \in Int
      /\ Weight[j] = Weight[i] * Radix(i) /\ h[i] \in Int /\ h[j] \in Int
  <2>1. i \in 0..10 /\ j \in 0..10 /\ i \in Int
    BY <1>1 DEF Limbs
  <2>2. h[i] \in Int /\ h[j] \in Int
    BY <1>1 DEF Tens
  <2> QED BY <1>1, <2>1, <2>2, Weights, Radices
<1>5. u[i] = t[i] - d /\ u[j] = t[j] + e /\ d \in Int /\ e \in Int
  <2>1. /\ u[i] = g[i] * Weight[i] /\ u[j] = g[j] * Weight[j]
        /\ t[i] = h[i] * Weight[i] /\ t[j] = h[j] * Weight[j]
    BY <1>1, Zenon DEF Weighed
  <2> HIDE DEF t, u, g, j
  <2> QED BY <1>2, <1>4, <2>1
<1>6. \A k \in Limbs : k # i /\ k # j => u[k] = t[k]
  <2> HIDE DEF g, j
  <2> QED BY <1>2 DEF Weighed
<1>7. e - d = 0
  <2> HIDE DEF j
  <2>1. e = d
    BY <1>4
  <2> HIDE DEF e, d
  <2> QED BY <1>5, <2>1
<1> HIDE DEF t, u, g, d, e, j
<1>8. Total(u) = Total(t) + (e - d)
  <2>1. u[(i + 1) % 10] = t[(i + 1) % 10] + e
    BY <1>1, <1>5, Zenon
  <2>2. \A k \in Limbs : k # i /\ k # (i + 1) % 10 => u[k] = t[k]
    BY <1>1, <1>6, Zenon
  <2>3. t \in Tens /\ u \in Tens /\ d \in Int /\ e \in Int /\ u[i] = t[i] - d
    BY <1>3, <1>5, Zenon
  <2> QED BY <2>1, <2>2, <2>3, TotalMove, SMT
<1>9. Total(t) \in Int
  BY <1>3, TotalType
<1>10. Total(u) = Total(t)
  BY <1>7, <1>8, <1>9
<1> QED BY <1>10, Zenon DEF Value, t, u, g

(* What leaves the last limb of a number that is written is dropped. *)
LEMMA LastDropped ==
  ASSUME NEW h \in Tens, NEW c \in Int
  PROVE  /\ [h EXCEPT ![9] = @ - c * Radix(9)] \in Tens
         /\ Value([h EXCEPT ![9] = @ - c * Radix(9)]) = Value(h) - c * Weight[10]
<1> DEFINE g == [h EXCEPT ![9] = @ - c * Radix(9)]
           t == Weighed(h)
           u == Weighed(g)
           d == c * Weight[10]
           r == Radix(9)
           x == h[9] - c * r
<1>1. /\ Weight[9] \in Nat \ {0} /\ Weight[10] \in Nat \ {0} /\ Weight[10] = Weight[9] * r
      /\ r \in Nat \ {0} /\ h[9] \in Int /\ 9 \in Limbs
  <2>1. 9 \in 0..9 /\ 9 + 1 = 10 /\ 9 \in 0..10 /\ 10 \in 0..10 /\ 9 \in Limbs /\ 9 \in Int
    BY DEF Limbs
  <2> QED BY <2>1, Weights, Radices DEF Tens
<1> HIDE DEF r
<1>2. x \in Int
  BY <1>1
<1>3. g = [h EXCEPT ![9] = x]
  BY Zenon DEF r
<1> HIDE DEF g
<1>4. g \in Tens /\ g[9] = x /\ \A k \in Limbs : k # 9 => g[k] = h[k]
  <2> HIDE DEF x
  <2> QED BY <1>1, <1>2, <1>3 DEF Tens
<1>5. t \in Tens /\ u \in Tens
  BY <1>4, WeighedType
<1>6. u[9] = t[9] - d /\ \A k \in Limbs : k # 9 => u[k] = t[k]
  <2>1. u[9] = g[9] * Weight[9] /\ t[9] = h[9] * Weight[9]
    BY <1>1, Zenon DEF Weighed
  <2>2. \A k \in Limbs : k # 9 => u[k] = t[k]
    BY <1>4 DEF Weighed
  <2> HIDE DEF t, u
  <2> QED BY <1>1, <1>4, <2>1, <2>2
<1>7. d \in Int
  BY <1>1
<1> HIDE DEF t, u, d, x
<1>8. Total(u) = Total(t) - d
  <2>1. /\ u[0] = t[0] /\ u[1] = t[1] /\ u[2] = t[2] /\ u[3] = t[3] /\ u[4] = t[4]
        /\ u[5] = t[5] /\ u[6] = t[6] /\ u[7] = t[7] /\ u[8] = t[8] /\ u[9] = t[9] - d
    BY <1>6 DEF Limbs
  <2>2. /\ t[0] \in Int /\ t[1] \in Int /\ t[2] \in Int /\ t[3] \in Int
        /\ t[4] \in Int /\ t[5] \in Int /\ t[6] \in Int /\ t[7] \in Int
        /\ t[8] \in Int /\ t[9] \in Int
    BY <1>5 DEF Tens, Limbs
  <2> QED BY <1>7, <2>1, <2>2 DEF Total
<1> QED BY <1>4, <1>8, Zenon DEF Value, t, u, g, d

(* One carry of fe_tobytes leaves a digit, and moves the rest up. *)
LEMMA CarryDownRight ==
  ASSUME NEW h \in Tens, NEW i \in Limbs
  PROVE  /\ CarryDown(h, i) \in Tens
         /\ CarryDown(h, i)[i] \in 0..(Radix(i) - 1)
         /\ \A k \in Limbs : k < i => CarryDown(h, i)[k] = h[k]
         /\ i # 9 => Value(CarryDown(h, i)) = Value(h)
         /\ i = 9 => \E c \in Int : Value(CarryDown(h, i)) = Value(h) - c * Weight[10]
<1> DEFINE g == CarryDown(h, i)
           x == h[i]
           r == Radix(i)
           c == x \div r
<1>1. x \in Int /\ r \in Nat \ {0} /\ i \in Int
  <2>1. i \in Int
    BY DEF Limbs
  <2> QED BY <2>1, Radices DEF Tens
<1> HIDE DEF x, r
<1>2. c \in Int /\ x - c * r \in 0..(r - 1)
  <2>1. x = r * (x \div r) + (x % r) /\ x % r \in 0..(r - 1) /\ x \div r \in Int
    BY <1>1, Division, Zenon
  <2> DEFINE m == x % r
  <2>2. x = r * c + m /\ m \in 0..(r - 1) /\ c \in Int
    BY <2>1
  <2> HIDE DEF m, c
  <2>3. x - c * r = m
    <3>1. m \in Int /\ r * c = c * r /\ c * r \in Int
      BY <1>1, <2>2
    <3> QED BY <2>2, <3>1
  <2> QED BY <2>2, <2>3
<1>3. g = IF i = 9 THEN [h EXCEPT ![9] = @ - c * Radix(9)] ELSE Carried(h, i, c)
  BY Zenon DEF CarryDown, x, r
<1> HIDE DEF g, c
<1>4. CASE i = 9
  <2>1. g = [h EXCEPT ![9] = @ - c * Radix(9)]
    BY <1>3, <1>4
  <2>2. g \in Tens /\ Value(g) = Value(h) - c * Weight[10]
    BY <1>2, <2>1, LastDropped, Zenon
  <2>3. g[9] = x - c * r /\ \A k \in Limbs : k # 9 => g[k] = h[k]
    <3>1. 9 \in DOMAIN h
      BY DEF Tens, Limbs
    <3>2. g[9] = h[9] - c * Radix(9)
      BY <2>1, <3>1, Zenon
    <3>3. \A k \in Limbs : k # 9 => g[k] = h[k]
      BY <2>1 DEF Tens
    <3> QED BY <1>4, <3>2, <3>3, Zenon DEF x, r
  <2>4. \A k \in Limbs : k < i => k # 9
    BY <1>4 DEF Limbs
  <2>5. g[i] \in 0..(Radix(i) - 1)
    BY <1>2, <1>4, <2>3, Zenon DEF r
  <2> QED BY <1>2, <1>4, <2>2, <2>3, <2>4, <2>5, Zenon DEF g
<1>5. CASE i # 9
  <2>1. g = Carried(h, i, c)
    BY <1>3, <1>5
  <2>2. g \in Tens /\ Value(g) = Value(h)
    BY <1>2, <1>5, <2>1, CarriedParts, CarriedValue, Zenon
  <2>3. g[i] = x - c * r /\ \A k \in Limbs : k # i /\ k # (i + 1) % 10 => g[k] = h[k]
    <3>1. /\ Carried(h, i, c)[i] = h[i] - c * Radix(i)
          /\ \A k \in Limbs : k # i /\ k # (i + 1) % 10 => Carried(h, i, c)[k] = h[k]
      BY <1>2, CarriedParts
    <3> QED BY <2>1, <3>1, Zenon DEF x, r
  <2>4. \A k \in Limbs : k < i => k # i /\ k # (i + 1) % 10
    BY <1>5 DEF Limbs
  <2>5. g[i] \in 0..(Radix(i) - 1)
    BY <1>2, <2>3, Zenon DEF r
  <2> QED BY <1>5, <2>2, <2>3, <2>4, <2>5, Zenon DEF g
<1> QED BY <1>4, <1>5

(* Digits are worth less than the weight beyond them. *)
LEMMA DigitsWorth ==
  ASSUME NEW h \in Tens, \A i \in Limbs : h[i] \in 0..(Radix(i) - 1)
  PROVE  Value(h) \in 0..(Weight[10] - 1)
<1> DEFINE t == Weighed(h)
           W == Weight
<1>1. t \in Tens
  BY WeighedType
<1>2. PICK u : Sums(t, u)
  BY <1>1, SumsExist
<1>3. /\ u[-1] = 0 /\ u[9] = Total(t)
      /\ \A i \in Limbs : u[i] = u[i - 1] + t[i]
      /\ \A i \in -1..9 : u[i] \in Int
  BY <1>1, <1>2, SumsSteps, Zenon
<1>4. \A i \in Limbs : /\ t[i] = h[i] * W[i] /\ W[i] \in Nat \ {0}
                       /\ Radix(i) \in Nat \ {0} /\ W[i + 1] = W[i] * Radix(i)
                       /\ i - 1 \in -1..9 /\ i \in -1..9 /\ i + 1 \in 0..10
                       /\ W[i + 1] \in Nat \ {0}
  <2> TAKE i \in Limbs
  <2>1. i \in 0..9 /\ i \in 0..10 /\ i \in Int /\ i - 1 \in -1..9 /\ i \in -1..9 /\ i + 1 \in 0..10
    BY DEF Limbs
  <2>2. t[i] = h[i] * W[i]
    BY Zenon DEF Weighed
  <2> QED BY <2>1, <2>2, Weights, Radices
<1> HIDE DEF t, W
<1> DEFINE f == [i \in -1..9 |-> IF u[i] \in 0..(W[i + 1] - 1) THEN 0 ELSE 1]
           z == [i \in -1..9 |-> 0]
<1>5. f[-1] = z[-1]
  <2>1. W[0] = 1 /\ -1 + 1 = 0
    BY Weights DEF W
  <2>2. u[-1] \in 0..(W[-1 + 1] - 1)
    BY <1>3, <2>1
  <2> QED BY <2>2
<1>6. \A i \in Limbs : f[i - 1] = z[i - 1] => f[i] = z[i]
  <2> TAKE i \in Limbs
  <2> HAVE f[i - 1] = z[i - 1]
  <2>1. (i - 1) + 1 = i /\ i - 1 \in -1..9 /\ i \in -1..9
    BY DEF Limbs
  <2>2. u[i - 1] \in 0..(W[i] - 1)
    BY <2>1
  <2>3. ASSUME NEW a \in Int, NEW w \in Nat \ {0}, NEW r \in Nat \ {0}, NEW x \in 0..(r - 1),
               a \in 0..(w - 1)
        PROVE  a + x * w \in 0..(w * r - 1)
    <3>1. x * w <= (r - 1) * w /\ x * w >= 0
      BY <2>3
    <3>2. (r - 1) * w = w * r - w /\ x * w \in Int /\ w * r \in Int
      BY <2>3
    <3> DEFINE p == x * w
               q == w * r
               s == (r - 1) * w
    <3>3. p \in Int /\ q \in Int /\ p <= s /\ p >= 0 /\ s = q - w
      BY <3>1, <3>2
    <3> HIDE DEF p, q, s
    <3>4. a + p \in 0..(q - 1)
      BY <2>3, <3>3
    <3> QED BY <3>4 DEF p, q
  <2>4. u[i] \in 0..(W[i + 1] - 1)
    <3>1. u[i] = u[i - 1] + h[i] * W[i] /\ W[i + 1] = W[i] * Radix(i)
      BY <1>3, <1>4, Zenon
    <3>2. /\ u[i - 1] \in Int /\ W[i] \in Nat \ {0} /\ Radix(i) \in Nat \ {0}
          /\ h[i] \in 0..(Radix(i) - 1)
      BY <1>3, <1>4, <2>1, Zenon
    <3> QED BY <2>2, <2>3, <3>1, <3>2, Zenon
  <2> QED BY <2>1, <2>4
<1>7. f[9] = z[9]
  <2> HIDE DEF f, z
  <2>1. \A i \in -1..9 : f[i] = z[i]
    BY <1>5, <1>6, StepByStep, Zenon
  <2> QED BY <2>1
<1>8. u[9] \in 0..(W[10] - 1)
  BY <1>7
<1> QED BY <1>3, <1>8, Zenon DEF Value, t, W

(* The least number that is alike. *)
LEMMA LeastAlike ==
  ASSUME NEW v \in Int, NEW q \in Int, NEW m \in Nat \ {0}, v - q * m \in 0..(m - 1)
  PROVE  v % m = v - q * m
<1> DEFINE r == v - q * m
<1>1. r \in Int /\ 0 <= r /\ r < m
  OBVIOUS
<1>2. v = m * q + r
  OBVIOUS
<1> HIDE DEF r
<1>3. (m * q + r) % m = r
  BY <1>1, QuotientOf, Zenon
<1> QED BY <1>2, <1>3, Zenon DEF r

(* The digits that fe_tobytes makes of anything: what it adds and drops are
   multiples of p and of the weight beyond. *)
LEMMA DigitsRight ==
  ASSUME NEW h \in Tens
  PROVE  /\ Digits(h) \in Tens
         /\ \A i \in Limbs : Digits(h)[i] \in 0..(Radix(i) - 1)
         /\ \E c \in Int : Value(Digits(h)) = Value(h) + FOLD * Quotient(h) - c * Weight[10]
<1> DEFINE up == FOLD * Quotient(h)
           s == [h EXCEPT ![0] = @ + up]
           seq == <<0, 1, 2, 3, 4, 5, 6, 7, 8, 9>>
<1>1. up \in Int
  <2>1. Quotient(h) \in Int /\ FOLD \in Int
    BY QuotientIs, Radices
  <2> QED BY <2>1
<1> HIDE DEF up
<1>2. s \in Tens /\ Value(s) = Value(h) + up
  <2> DEFINE t == Weighed(h)
             u == Weighed(s)
  <2>1. h[0] \in Int /\ 0 \in Limbs /\ Weight[0] = 1
    BY Weights DEF Tens, Limbs
  <2> DEFINE x == h[0] + up
  <2>2. x \in Int /\ s = [h EXCEPT ![0] = x]
    BY <1>1, <2>1
  <2> HIDE DEF x, s
  <2>3. s \in Tens /\ s[0] = x /\ \A k \in Limbs : k # 0 => s[k] = h[k]
    BY <2>1, <2>2 DEF Tens
  <2>4. t \in Tens /\ u \in Tens
    BY <2>3, WeighedType
  <2>5. u[0] = s[0] * Weight[0] /\ t[0] = h[0] * Weight[0]
    BY <2>1, Zenon DEF Weighed
  <2>6. \A k \in Limbs : k # 0 => u[k] = t[k]
    BY <2>3 DEF Weighed
  <2> HIDE DEF u, t
  <2>7. u[0] = t[0] + up
    BY <1>1, <2>1, <2>3, <2>5 DEF x
  <2>8. Total(u) = Total(t) + up
    <3>1. /\ u[0] = t[0] + up /\ u[1] = t[1] /\ u[2] = t[2] /\ u[3] = t[3] /\ u[4] = t[4]
          /\ u[5] = t[5] /\ u[6] = t[6] /\ u[7] = t[7] /\ u[8] = t[8] /\ u[9] = t[9]
      BY <2>6, <2>7 DEF Limbs
    <3>2. /\ t[0] \in Int /\ t[1] \in Int /\ t[2] \in Int /\ t[3] \in Int
          /\ t[4] \in Int /\ t[5] \in Int /\ t[6] \in Int /\ t[7] \in Int
          /\ t[8] \in Int /\ t[9] \in Int
      BY <2>4 DEF Tens, Limbs
    <3> QED BY <1>1, <3>1, <3>2 DEF Total
  <2> QED BY <2>3, <2>8, Zenon DEF Value, u, t
<1>3. /\ DOMAIN seq = 1..10 /\ 10 \in Nat
      /\ \A k \in 1..10 : seq[k] = k - 1 /\ seq[k] \in Limbs
  BY DEF Limbs
<1> HIDE DEF s, seq
<1>4. \A v \in Tens, i \in Limbs : CarryDown(v, i) \in Tens
  BY CarryDownRight
<1>5. PICK g : CarryDownTrail(Tens, s, 10, seq, g)
  <2>1. s \in Tens /\ \A k \in 1..10 : seq[k] \in Limbs
    BY <1>2, <1>3, Zenon
  <2>2. DOMAIN seq = 1..10 /\ 10 \in Nat
    BY <1>3
  <2> QED BY <1>4, <2>1, <2>2, CarryDownSteps, Zenon
<1>6. Digits(h) = g[10]
  BY <1>5, Zenon DEF CarryDownTrail, Digits, s, seq, up
<1>7. \A k \in 1..10 : g[k - 1] \in Tens /\ k - 1 \in Limbs /\ g[k] = CarryDown(g[k - 1], k - 1)
  <2> TAKE k \in 1..10
  <2>1. k - 1 \in 0..10 /\ k - 1 \in Limbs
    BY DEF Limbs
  <2> QED BY <1>3, <1>5, <2>1, Zenon DEF CarryDownTrail
<1>8. \A k \in 1..10 :
        /\ g[k][k - 1] \in 0..(Radix(k - 1) - 1)
        /\ \A i \in Limbs : i < k - 1 => g[k][i] = g[k - 1][i]
        /\ k # 10 => Value(g[k]) = Value(g[k - 1])
        /\ k = 10 => \E c \in Int : Value(g[k]) = Value(g[k - 1]) - c * Weight[10]
  <2> TAKE k \in 1..10
  <2> DEFINE j == k - 1
  <2>1. g[j] \in Tens /\ j \in Limbs /\ g[k] = CarryDown(g[j], j)
    BY <1>7
  <2>2. (k # 10 <=> j # 9)
    OBVIOUS
  <2> HIDE DEF j
  <2>3. /\ g[k][j] \in 0..(Radix(j) - 1)
        /\ \A i \in Limbs : i < j => g[k][i] = g[j][i]
        /\ j # 9 => Value(g[k]) = Value(g[j])
        /\ j = 9 => \E c \in Int : Value(g[k]) = Value(g[j]) - c * Weight[10]
    BY <2>1, CarryDownRight
  <2> QED BY <2>2, <2>3 DEF j
<1> HIDE DEF up
<1>9. \A i \in Limbs : g[10][i] \in 0..(Radix(i) - 1)
  <2> DEFINE D(k) == \A i \in Limbs : i < k => g[k][i] \in 0..(Radix(i) - 1)
  <2>1. \A k \in 1..10 : D(k - 1) => D(k)
    <3> TAKE k \in 1..10
    <3> HAVE D(k - 1)
    <3> TAKE i \in Limbs
    <3> HAVE i < k
    <3>1. i = k - 1 \/ i < k - 1
      BY DEF Limbs
    <3>2. CASE i = k - 1
      BY <1>8, <3>2
    <3>3. CASE i < k - 1
      <4>1. g[k - 1][i] \in 0..(Radix(i) - 1)
        BY <3>3
      <4>2. g[k][i] = g[k - 1][i]
        BY <1>8, <3>3
      <4> QED BY <4>1, <4>2
    <3> QED BY <3>1, <3>2, <3>3
  <2>2. D(0)
    BY DEF Limbs
  <2> HIDE DEF D
  <2>3. D(1) /\ D(2) /\ D(3)
    BY <2>1, <2>2
  <2>4. D(4) /\ D(5) /\ D(6)
    BY <2>1, <2>3
  <2>5. D(7) /\ D(8) /\ D(9)
    BY <2>1, <2>4
  <2>6. D(10)
    BY <2>1, <2>5
  <2> QED BY <2>6 DEF D, Limbs
<1>10. Value(g[9]) = Value(s)
  <2>1. /\ Value(g[1]) = Value(g[0]) /\ Value(g[2]) = Value(g[1]) /\ Value(g[3]) = Value(g[2])
        /\ Value(g[4]) = Value(g[3]) /\ Value(g[5]) = Value(g[4]) /\ Value(g[6]) = Value(g[5])
        /\ Value(g[7]) = Value(g[6]) /\ Value(g[8]) = Value(g[7]) /\ Value(g[9]) = Value(g[8])
    BY <1>8
  <2> QED BY <1>5, <2>1, Zenon DEF CarryDownTrail
<1>11. \E c \in Int : Value(g[10]) = Value(g[9]) - c * Weight[10]
  BY <1>8
<1>12. g[10] \in Tens
  BY <1>5 DEF CarryDownTrail
<1>13. \E c \in Int : Value(g[10]) = Value(h) + up - c * Weight[10]
  <2>1. PICK c \in Int : Value(g[10]) = Value(g[9]) - c * Weight[10]
    BY <1>11
  <2>2. Value(g[9]) = Value(h) + up
    BY <1>2, <1>10, Zenon
  <2> DEFINE v == Value(h)
             w == Weight[10]
  <2>3. v \in Int /\ w \in Nat
    BY WeighedType, Weights
  <2>4. Value(g[9]) = v + up /\ Value(g[10]) = Value(g[9]) - c * w
    BY <2>1, <2>2, Zenon
  <2> HIDE DEF v, w
  <2>5. Value(g[10]) = v + up - c * w
    BY <1>1, <2>3, <2>4
  <2>6. Value(g[10]) = Value(h) + up - c * Weight[10]
    BY <2>5, Zenon DEF v, w
  <2> QED BY <2>6
<1> QED BY <1>6, <1>9, <1>12, <1>13, Zenon DEF up

(* fe_tobytes writes the least number that is alike, in digits. *)
LEMMA BytesRight ==
  ASSUME NEW h \in Tens, Writable(h)
  PROVE  fe_tobytes(h) = Value(h) % Prime
<1> DEFINE V == Value(h)
           q == Quotient(h)
           d == Value(Digits(h))
           W == Weight[10]
           F == FOLD
<1>1. V \in Int /\ q \in Int /\ V - q * Prime \in 0..(Prime - 1)
  BY WeighedType, QuotientExact, Zenon
<1>2. Prime \in Nat \ {0} /\ W = Prime + F /\ W \in Nat \ {0} /\ F \in Nat
  BY PrimeIs, Weights, Radices
<1>3. PICK c \in Int : d = V + F * q - c * W
  BY DigitsRight, Zenon
<1>4. d \in 0..(W - 1)
  BY DigitsRight, DigitsWorth, Zenon
<1>5. fe_tobytes(h) = d
  BY DigitsRight, BytesAreValue, Zenon
<1> HIDE DEF V, q, d, W, F
<1> DEFINE r == V - q * Prime
<1>6. r \in Int /\ 0 <= r /\ r < W /\ d = W * (q - c) + r /\ q - c \in Int
  <2>1. q * W = q * Prime + F * q
    BY <1>1, <1>2
  <2>2. W * (q - c) = q * W - c * W
    BY <1>1, <1>2, <1>3
  <2>3. F * q \in Int /\ q * Prime \in Int /\ c * W \in Int
    BY <1>1, <1>2
  <2> DEFINE a == F * q
             b == q * Prime
             e == c * W
             g == q * W
             k == W * (q - c)
  <2>4. a \in Int /\ b \in Int /\ e \in Int /\ g = b + a /\ k = g - e
    BY <2>1, <2>2, <2>3
  <2>5. d = V + a - e /\ V - b \in 0..(Prime - 1)
    BY <1>1, <1>3
  <2> HIDE DEF a, b, e, g, k
  <2>6. V - b \in Int /\ 0 <= V - b /\ V - b < W /\ d = k + (V - b)
    BY <1>1, <1>2, <2>4, <2>5
  <2> QED BY <1>1, <1>3, <2>6 DEF b, k
<1> HIDE DEF r
<1>7. d % W = r
  BY <1>2, <1>6, QuotientOf, Zenon
<1>8. d % W = d
  BY <1>2, <1>4
<1>9. V % Prime = r
  BY <1>1, <1>2, LeastAlike, Zenon DEF r
<1> QED BY <1>5, <1>7, <1>8, <1>9, Zenon DEF V

(* All that ElementsRight says of an element that may be written. *)
LEMMA WrittenRight ==
  ASSUME NEW h, NEW n \in 0..(Prime - 1), Is(h, n), Writable(h)
  PROVE  /\ fe_tobytes(h) = n
         /\ \A i \in Limbs : Digits(h)[i] \in 0..(Radix(i) - 1)
         /\ fe_isnegative(h) = n % 2
         /\ fe_isnonzero(h) = (n # 0)
<1>1. h \in Tens /\ Alike(Value(h), n)
  BY DEF Is
<1>2. n % Prime = n
  BY PrimeIs
<1>3. fe_tobytes(h) = n
  BY <1>1, <1>2, BytesRight, Zenon DEF Alike
<1>4. \A i \in Limbs : Digits(h)[i] \in 0..(Radix(i) - 1)
  BY <1>1, DigitsRight, Zenon
<1>5. fe_isnegative(h) = n % 2
  BY <1>3, Zenon DEF fe_isnegative
<1>6. fe_isnonzero(h) = (n # 0)
  BY <1>3 DEF fe_isnonzero
<1> QED BY <1>3, <1>4, <1>5, <1>6, Zenon

-----------------------------------------------------------------------------
\* How large limbs get, through carries, products and sums.

\* No load of fe_frombytes reaches far into the next limb.
RoomForLoads == \A i \in 0..10 : 40 * LoadShift[i] <= OddRadix

\* Words wide enough for how much the fold and the factor of fe_mul121666 may
\* grow a limb, as with 2^25, 19 and 121666.
RoomForCarries ==
  /\ OddRadix >= 4194304 /\ FOLD <= 32 /\ 8 * CURVE <= OddRadix
  /\ RoomForLoads

\* x is not farther from 0 than b.
NotBeyond(x, b) == -b <= x /\ x <= b

\* How far the ten limbs may be from 0.
Sizes(v, b0, b1, b2, b3, b4, b5, b6, b7, b8, b9) ==
  /\ v \in Tens
  /\ NotBeyond(v[0], b0) /\ NotBeyond(v[1], b1) /\ NotBeyond(v[2], b2) /\ NotBeyond(v[3], b3)
  /\ NotBeyond(v[4], b4) /\ NotBeyond(v[5], b5) /\ NotBeyond(v[6], b6) /\ NotBeyond(v[7], b7)
  /\ NotBeyond(v[8], b8) /\ NotBeyond(v[9], b9)

\* A carry of at most k from limb i leaves at most half the radix there.
CarryMoves(v, i, j, k, g) ==
  /\ g \in Tens /\ NotBeyond(2 * g[i], Radix(i))
  /\ NotBeyond(g[j] - v[j], IF i = 9 THEN 32 * k ELSE k)
  /\ \A m \in Limbs : m # i /\ m # j => g[m] = v[m]

(* Rounding to the nearest multiple. *)
LEMMA NearestMultiple ==
  ASSUME NEW x \in Int, NEW r \in Nat \ {0}, NEW half \in Int, r = 2 * half,
         NEW k \in Nat, NotBeyond(x, k * r)
  PROVE  /\ (x + half) \div r \in Int
         /\ NotBeyond((x + half) \div r, k)
         /\ NotBeyond(2 * (x - ((x + half) \div r) * r), r)
<1> DEFINE y == x + half
           c == y \div r
           m == y % r
<1>1. y \in Int
  OBVIOUS
<1> HIDE DEF y
<1>2. y = r * c + m /\ m \in 0..(r - 1) /\ c \in Int
  BY <1>1, Division, Zenon
<1> HIDE DEF c, m
<1>3. m \in Int /\ 0 <= m /\ m < r /\ half \in Nat \ {0}
  BY <1>2
<1> DEFINE a == r * c
           b == k * r
<1>4. a \in Int /\ b \in Int /\ -b <= x /\ x <= b /\ c * r = a
  BY <1>2 DEF NotBeyond
<1>5. x + half = a + m
  BY <1>2 DEF y
<1>6. c <= k
  <2>1. c >= k + 1 => a >= r * (k + 1)
    BY <1>2
  <2>2. r * (k + 1) = b + r
    OBVIOUS
  <2> HIDE DEF a, b
  <2>3. a < b + r
    BY <1>3, <1>4, <1>5
  <2> QED BY <1>2, <1>4, <2>1, <2>2, <2>3
<1>7. -k <= c
  <2>1. c <= -k - 1 => a <= r * (-k - 1)
    BY <1>2
  <2>2. r * (-k - 1) = -b - r
    OBVIOUS
  <2> HIDE DEF a, b
  <2>3. a > -b - r
    BY <1>3, <1>4, <1>5
  <2> QED BY <1>2, <1>4, <2>1, <2>2, <2>3
<1>8. NotBeyond(2 * (x - c * r), r)
  <2> HIDE DEF a, b
  <2>1. x - c * r = m - half
    BY <1>3, <1>4, <1>5
  <2> QED BY <1>3, <2>1 DEF NotBeyond
<1> QED BY <1>2, <1>6, <1>7, <1>8, Zenon DEF NotBeyond, c, y

(* What a carry moves is no more than the limb holds of the radix. *)
LEMMA CarryBounded ==
  ASSUME RoomForCarries, NEW v \in Tens, NEW i \in Limbs, NEW k \in Nat,
         NotBeyond(v[i], k * Radix(i))
  PROVE  CarryMoves(v, i, (i + 1) % 10, k, Carry(v, i))
<1> DEFINE g == Carry(v, i)
           j == (i + 1) % 10
           x == v[i]
           r == Radix(i)
           half == Radix(i) \div 2
           c == (x + half) \div r
<1>1. x \in Int /\ r \in Nat \ {0} /\ half \in Int /\ r = 2 * half
  <2>1. r \in Nat \ {0} /\ r % 2 = 0
    BY FieldAssumption DEF Radix, Limbs
  <2>2. x \in Int
    BY DEF Tens
  <2> HIDE DEF x, r
  <2> QED BY <2>1, <2>2 DEF r
<1>2. NotBeyond(x, k * r)
  OBVIOUS
<1>3. g = Carried(v, i, c)
  BY Zenon DEF Carry
<1> HIDE DEF g, x, r, half
<1>4. c \in Int /\ NotBeyond(c, k) /\ NotBeyond(2 * (x - c * r), r)
  BY <1>1, <1>2, NearestMultiple, Zenon
<1> HIDE DEF c
<1> DEFINE up == IF i = 9 THEN FOLD * c ELSE c
<1>5. /\ g \in Tens /\ j \in Limbs /\ j # i
      /\ g[i] = x - c * r /\ g[j] = v[j] + up
      /\ \A m \in Limbs : m # i /\ m # j => g[m] = v[m]
  <2> DEFINE w == Carried(v, i, c)
  <2>1. /\ w \in Tens /\ j \in Limbs /\ j # i
        /\ w[i] = v[i] - c * Radix(i) /\ w[j] = v[j] + up
        /\ \A m \in Limbs : m # i /\ m # j => w[m] = v[m]
    BY <1>4, CarriedParts
  <2>2. g = w
    BY <1>3
  <2> HIDE DEF w, up, j
  <2> QED BY <2>1, <2>2, Zenon DEF x, r
<1>6. up \in Int /\ NotBeyond(up, IF i = 9 THEN 32 * k ELSE k)
  <2>1. CASE i # 9
    BY <1>4, <2>1
  <2>2. CASE i = 9
    <3>1. FOLD \in 0..32
      BY Radices DEF RoomForCarries
    <3>2. FOLD * c \in Int
      BY <1>4, <3>1
    <3>3. FOLD * c <= 32 * k /\ -(32 * k) <= FOLD * c
      <4>1. -k <= c /\ c <= k
        BY <1>4 DEF NotBeyond
      <4>2. \A f \in 0..32 : f * c <= f * k /\ f * (-k) <= f * c /\ f * k <= 32 * k
                             /\ f * (-k) = -(f * k)
        BY <1>4, <4>1
      <4>3. FOLD * k \in Int
        BY <3>1
      <4>4. /\ FOLD * c <= FOLD * k /\ FOLD * (-k) <= FOLD * c /\ FOLD * k <= 32 * k
            /\ FOLD * (-k) = -(FOLD * k)
        BY <3>1, <4>2
      <4> QED BY <3>2, <4>3, <4>4
    <3> QED BY <2>2, <3>2, <3>3 DEF NotBeyond
  <2> QED BY <2>1, <2>2
<1>7. NotBeyond(g[j] - v[j], IF i = 9 THEN 32 * k ELSE k)
  <2>1. v[j] \in Int
    BY <1>5 DEF Tens
  <2> HIDE DEF up, j
  <2>2. g[j] - v[j] = up
    BY <1>5, <1>6, <2>1
  <2> QED BY <1>6, <2>2, Zenon
<1>8. NotBeyond(2 * g[i], Radix(i))
  BY <1>4, <1>5, Zenon DEF r
<1> HIDE DEF j
<1>9. CarryMoves(v, i, j, k, g)
  BY <1>5, <1>7, <1>8, Zenon DEF CarryMoves
<1> QED BY <1>9, Zenon DEF g, j

\* Limbs that are small enough for d sums: 11/20 of the radix is more than the
\* half that a carry leaves.
Sized(h, d) ==
  h \in Tens /\ \A i \in Limbs : NotBeyond(20 * h[i], 11 * ((d + 1) * Radix(i)))

\* How large the sums of ten products may be, and twice them.
ProductSize == 7300 * (OddRadix * OddRadix)

(* Carries are of integers. *)
LEMMA CarryTens ==
  ASSUME NEW v \in Tens, NEW i \in Limbs
  PROVE  Carry(v, i) \in Tens
<1> DEFINE x == v[i]
           r == Radix(i)
           half == Radix(i) \div 2
           y == x + half
           c == y \div r
<1>1. x \in Int /\ r \in Nat \ {0}
  BY Radices DEF Tens, Limbs
<1>2. half \in Int
  BY <1>1
<1> HIDE DEF x, r, half
<1>3. y \in Int
  BY <1>1, <1>2
<1> HIDE DEF y
<1>4. c \in Int
  BY <1>1, <1>3
<1> HIDE DEF c
<1>5. Carry(v, i) = Carried(v, i, c)
  BY Zenon DEF Carry, c, y, half, r, x
<1> QED BY <1>4, <1>5, CarriedParts

(* The twelve carries after a product leave limbs of which at most two are
   more than half the radix. *)
LEMMA CarryProductSized ==
  ASSUME RoomForCarries, NEW h \in Tens,
         \A i \in Limbs : NotBeyond(h[i], ProductSize)
  PROVE  Sized(CarryProduct(h), 0)
<1> DEFINE R == OddRadix
           H == OddRadix \div 2
           RR == R * R
           D == 7300 * RR
           C == 7301 * R
           A == 7301 * RR
           S == 3651
           L == 116817
           seq == <<0, 4, 1, 5, 2, 6, 3, 7, 4, 8, 9, 0>>
<1>1. R \in Nat /\ R >= 4194304 /\ H \in Nat /\ R = 2 * H
  BY FieldAssumption, SMT DEF RoomForCarries
<1>2. /\ Radix(0) = 2 * R /\ Radix(1) = R /\ Radix(2) = 2 * R /\ Radix(3) = R
      /\ Radix(4) = 2 * R /\ Radix(5) = R /\ Radix(6) = 2 * R /\ Radix(7) = R
      /\ Radix(8) = 2 * R /\ Radix(9) = R
  BY DEF Radix
<1> HIDE DEF R, H
<1>3. /\ R \in Nat /\ H \in Nat /\ C \in Nat /\ D \in Nat /\ A \in Nat
      /\ S \in Nat /\ L \in Nat
      /\ S <= L /\ R = 2 * H /\ D + C <= A /\ D <= A /\ 20 * (H + L) <= 11 * R
      /\ R + C <= S * (2 * R) /\ R + 32 * C <= L * (2 * R)
  <2>1. R * R >= 4194304 * R /\ R * R \in Nat
    BY <1>1, SMT
  <2>2. RR \in Nat /\ 7301 * R <= RR
    BY <1>1, <2>1, SMT
  <2> HIDE DEF RR
  <2> QED BY <1>1, <2>2, SMT
<1>4. \A i \in 0..9 : i \in Limbs
  BY DEF Limbs
<1>5. \A i \in 0..9 : D <= C * Radix(i) /\ A <= C * Radix(i)
  <2>1. A = C * R /\ C * (2 * R) = 2 * (C * R) /\ C * R \in Nat
    BY <1>1, SMT
  <2> HIDE DEF A, C, D, S, L, RR
  <2>2. \A i \in 0..9 : Radix(i) = R \/ Radix(i) = 2 * R
    BY <1>2
  <2>3. ASSUME NEW z, z = R \/ z = 2 * R
        PROVE  D <= C * z /\ A <= C * z
    <3>1. C * z = A \/ C * z = 2 * A
      BY <2>1, <2>3
    <3> DEFINE y == C * z
    <3>2. y = A \/ y = 2 * A
      BY <3>1
    <3> HIDE DEF y
    <3>3. D <= y /\ A <= y
      BY <1>3, <3>2
    <3> QED BY <3>3 DEF y
  <2> QED BY <2>2, <2>3, Zenon
<1> HIDE DEF A, C, D, S, L, RR, seq
<1>6. PICK g : CarryTrail(Tens, h, 12, seq, g)
  <2>1. DOMAIN seq = 1..12 /\ 12 \in Nat
    BY DEF seq
  <2>2. \A k \in 1..12 : seq[k] \in Limbs
    BY DEF seq, Limbs
  <2>3. \A v \in Tens, i \in Limbs : Carry(v, i) \in Tens
    BY CarryTens
  <2> QED BY <2>1, <2>2, <2>3, CarrySteps, Zenon
<1>7. /\ g[1] = Carry(g[0], 0) /\ g[2] = Carry(g[1], 4) /\ g[3] = Carry(g[2], 1)
      /\ g[4] = Carry(g[3], 5) /\ g[5] = Carry(g[4], 2) /\ g[6] = Carry(g[5], 6)
      /\ g[7] = Carry(g[6], 3) /\ g[8] = Carry(g[7], 7) /\ g[9] = Carry(g[8], 4)
      /\ g[10] = Carry(g[9], 8) /\ g[11] = Carry(g[10], 9) /\ g[12] = Carry(g[11], 0)
  <2>1. \A k \in 1..12 : g[k] = Carry(g[k - 1], seq[k])
    BY <1>6, Zenon DEF CarryTrail
  <2> QED BY <2>1 DEF seq
<1>8. \A v, i, j, k, w : CarryMoves(v, i, j, k, w) => w \in Tens
  BY Zenon DEF CarryMoves
<1>9. Sizes(g[0], D, D, D, D, D, D, D, D, D, D)
  <2>1. g[0] = h
    BY <1>6, Zenon DEF CarryTrail
  <2>2. \A i \in Limbs : NotBeyond(g[0][i], D)
    <3>1. D = ProductSize
      BY SMT DEF D, RR, R, ProductSize
    <3> QED BY <2>1, <3>1, Zenon
  <2> QED BY <1>4, <2>1, <2>2 DEF Sizes
<1>10. Sizes(g[1], R, A, D, D, D, D, D, D, D, D)
  <2>1. g[0] \in Tens /\ NotBeyond(g[0][0], C * Radix(0)) /\ 0 \in Limbs
    BY <1>2, <1>3, <1>4, <1>5, <1>9 DEF Sizes, NotBeyond, Tens
  <2>2. (0 + 1) % 10 = 1
    OBVIOUS
  <2>3. CarryMoves(g[0], 0, 1, C, g[1])
    BY <1>3, <1>7, <2>1, <2>2, CarryBounded, Zenon
  <2> QED BY <1>2, <1>3, <1>4, <1>9, <2>1, <2>3 DEF Sizes, NotBeyond, CarryMoves, Tens
<1>11. Sizes(g[2], R, A, D, D, R, A, D, D, D, D)
  <2>1. g[1] \in Tens /\ NotBeyond(g[1][4], C * Radix(4)) /\ 4 \in Limbs
    BY <1>2, <1>3, <1>4, <1>5, <1>10 DEF Sizes, NotBeyond, Tens
  <2>2. (4 + 1) % 10 = 5
    OBVIOUS
  <2>3. CarryMoves(g[1], 4, 5, C, g[2])
    BY <1>3, <1>7, <2>1, <2>2, CarryBounded, Zenon
  <2> QED BY <1>2, <1>3, <1>4, <1>10, <2>1, <2>3 DEF Sizes, NotBeyond, CarryMoves, Tens
<1>12. Sizes(g[3], R, H, A, D, R, A, D, D, D, D)
  <2>1. g[2] \in Tens /\ NotBeyond(g[2][1], C * Radix(1)) /\ 1 \in Limbs
    BY <1>2, <1>3, <1>4, <1>5, <1>11 DEF Sizes, NotBeyond, Tens
  <2>2. (1 + 1) % 10 = 2
    OBVIOUS
  <2>3. CarryMoves(g[2], 1, 2, C, g[3])
    BY <1>3, <1>7, <2>1, <2>2, CarryBounded, Zenon
  <2> QED BY <1>2, <1>3, <1>4, <1>11, <2>1, <2>3 DEF Sizes, NotBeyond, CarryMoves, Tens
<1>13. Sizes(g[4], R, H, A, D, R, H, A, D, D, D)
  <2>1. g[3] \in Tens /\ NotBeyond(g[3][5], C * Radix(5)) /\ 5 \in Limbs
    BY <1>2, <1>3, <1>4, <1>5, <1>12 DEF Sizes, NotBeyond, Tens
  <2>2. (5 + 1) % 10 = 6
    OBVIOUS
  <2>3. CarryMoves(g[3], 5, 6, C, g[4])
    BY <1>3, <1>7, <2>1, <2>2, CarryBounded, Zenon
  <2> QED BY <1>2, <1>3, <1>4, <1>12, <2>1, <2>3 DEF Sizes, NotBeyond, CarryMoves, Tens
<1>14. Sizes(g[5], R, H, R, A, R, H, A, D, D, D)
  <2>1. g[4] \in Tens /\ NotBeyond(g[4][2], C * Radix(2)) /\ 2 \in Limbs
    BY <1>2, <1>3, <1>4, <1>5, <1>13 DEF Sizes, NotBeyond, Tens
  <2>2. (2 + 1) % 10 = 3
    OBVIOUS
  <2>3. CarryMoves(g[4], 2, 3, C, g[5])
    BY <1>3, <1>7, <2>1, <2>2, CarryBounded, Zenon
  <2> QED BY <1>2, <1>3, <1>4, <1>13, <2>1, <2>3 DEF Sizes, NotBeyond, CarryMoves, Tens
<1>15. Sizes(g[6], R, H, R, A, R, H, R, A, D, D)
  <2>1. g[5] \in Tens /\ NotBeyond(g[5][6], C * Radix(6)) /\ 6 \in Limbs
    BY <1>2, <1>3, <1>4, <1>5, <1>14 DEF Sizes, NotBeyond, Tens
  <2>2. (6 + 1) % 10 = 7
    OBVIOUS
  <2>3. CarryMoves(g[5], 6, 7, C, g[6])
    BY <1>3, <1>7, <2>1, <2>2, CarryBounded, Zenon
  <2> QED BY <1>2, <1>3, <1>4, <1>14, <2>1, <2>3 DEF Sizes, NotBeyond, CarryMoves, Tens
<1>16. Sizes(g[7], R, H, R, H, R + C, H, R, A, D, D)
  <2>1. g[6] \in Tens /\ NotBeyond(g[6][3], C * Radix(3)) /\ 3 \in Limbs
    BY <1>2, <1>3, <1>4, <1>5, <1>15 DEF Sizes, NotBeyond, Tens
  <2>2. (3 + 1) % 10 = 4
    OBVIOUS
  <2>3. CarryMoves(g[6], 3, 4, C, g[7])
    BY <1>3, <1>7, <2>1, <2>2, CarryBounded, Zenon
  <2> QED BY <1>2, <1>3, <1>4, <1>15, <2>1, <2>3 DEF Sizes, NotBeyond, CarryMoves, Tens
<1>17. Sizes(g[8], R, H, R, H, R + C, H, R, H, A, D)
  <2>1. g[7] \in Tens /\ NotBeyond(g[7][7], C * Radix(7)) /\ 7 \in Limbs
    BY <1>2, <1>3, <1>4, <1>5, <1>16 DEF Sizes, NotBeyond, Tens
  <2>2. (7 + 1) % 10 = 8
    OBVIOUS
  <2>3. CarryMoves(g[7], 7, 8, C, g[8])
    BY <1>3, <1>7, <2>1, <2>2, CarryBounded, Zenon
  <2> QED BY <1>2, <1>3, <1>4, <1>16, <2>1, <2>3 DEF Sizes, NotBeyond, CarryMoves, Tens
<1>18. Sizes(g[9], R, H, R, H, R, H + S, R, H, A, D)
  <2>1. g[8] \in Tens /\ NotBeyond(g[8][4], S * Radix(4)) /\ 4 \in Limbs
    BY <1>2, <1>3, <1>4, <1>5, <1>17 DEF Sizes, NotBeyond, Tens
  <2>2. (4 + 1) % 10 = 5
    OBVIOUS
  <2>3. CarryMoves(g[8], 4, 5, S, g[9])
    BY <1>3, <1>7, <2>1, <2>2, CarryBounded, Zenon
  <2> QED BY <1>2, <1>3, <1>4, <1>17, <2>1, <2>3 DEF Sizes, NotBeyond, CarryMoves, Tens
<1>19. Sizes(g[10], R, H, R, H, R, H + S, R, H, R, A)
  <2>1. g[9] \in Tens /\ NotBeyond(g[9][8], C * Radix(8)) /\ 8 \in Limbs
    BY <1>2, <1>3, <1>4, <1>5, <1>18 DEF Sizes, NotBeyond, Tens
  <2>2. (8 + 1) % 10 = 9
    OBVIOUS
  <2>3. CarryMoves(g[9], 8, 9, C, g[10])
    BY <1>3, <1>7, <2>1, <2>2, CarryBounded, Zenon
  <2> QED BY <1>2, <1>3, <1>4, <1>18, <2>1, <2>3 DEF Sizes, NotBeyond, CarryMoves, Tens
<1>20. Sizes(g[11], R + 32 * C, H, R, H, R, H + S, R, H, R, H)
  <2>1. g[10] \in Tens /\ NotBeyond(g[10][9], C * Radix(9)) /\ 9 \in Limbs
    BY <1>2, <1>3, <1>4, <1>5, <1>19 DEF Sizes, NotBeyond, Tens
  <2>2. (9 + 1) % 10 = 0
    OBVIOUS
  <2>3. CarryMoves(g[10], 9, 0, C, g[11])
    BY <1>3, <1>7, <2>1, <2>2, CarryBounded, Zenon
  <2> QED BY <1>2, <1>3, <1>4, <1>19, <2>1, <2>3 DEF Sizes, NotBeyond, CarryMoves, Tens
<1>21. Sizes(g[12], R, H + L, R, H, R, H + S, R, H, R, H)
  <2>1. g[11] \in Tens /\ NotBeyond(g[11][0], L * Radix(0)) /\ 0 \in Limbs
    BY <1>2, <1>3, <1>4, <1>5, <1>20 DEF Sizes, NotBeyond, Tens
  <2>2. (0 + 1) % 10 = 1
    OBVIOUS
  <2>3. CarryMoves(g[11], 0, 1, L, g[12])
    BY <1>3, <1>7, <2>1, <2>2, CarryBounded, Zenon
  <2> QED BY <1>2, <1>3, <1>4, <1>20, <2>1, <2>3 DEF Sizes, NotBeyond, CarryMoves, Tens
<1>22. CarryProduct(h) = g[12]
  BY <1>6, Zenon DEF CarryTrail, CarryProduct, seq
<1>23. \A i \in Limbs : NotBeyond(20 * g[12][i], 11 * ((0 + 1) * Radix(i)))
  <2> DEFINE w == g[12]
  <2>1. \A i \in 0..9 : w[i] \in Int
    BY <1>21 DEF Sizes, Tens, Limbs
  <2>2. Sizes(w, R, H + L, R, H, R, H + S, R, H, R, H)
    BY <1>21
  <2> HIDE DEF w
  <2>3. /\ NotBeyond(20 * w[0], 11 * (2 * R)) /\ NotBeyond(20 * w[1], 11 * R)
        /\ NotBeyond(20 * w[2], 11 * (2 * R)) /\ NotBeyond(20 * w[3], 11 * R)
        /\ NotBeyond(20 * w[4], 11 * (2 * R)) /\ NotBeyond(20 * w[5], 11 * R)
        /\ NotBeyond(20 * w[6], 11 * (2 * R)) /\ NotBeyond(20 * w[7], 11 * R)
        /\ NotBeyond(20 * w[8], 11 * (2 * R)) /\ NotBeyond(20 * w[9], 11 * R)
    BY <1>3, <2>1, <2>2 DEF Sizes, NotBeyond
  <2>4. \A i \in Limbs : NotBeyond(20 * w[i], 11 * Radix(i))
    BY <1>2, <2>3 DEF Limbs
  <2>5. \A i \in Limbs : (0 + 1) * Radix(i) = Radix(i)
    BY Radices DEF Limbs
  <2> QED BY <2>4, <2>5 DEF w
<1>24. g[12] \in Tens
  BY <1>21 DEF Sizes
<1> QED BY <1>22, <1>23, <1>24, Zenon DEF Sized

(* The ten carries after numbers are read, or multiplied by a small one: odd
   limbs keep what the even ones carry. *)
LEMMA CarryOnceSized ==
  ASSUME RoomForCarries, NEW h \in Tens, NEW k \in Nat,
         \A i \in Limbs : NotBeyond(h[i], k * Radix(i)),
         NEW d \in Nat, 40 * k <= (11 * d + 1) * OddRadix
  PROVE  Sized(CarryOnce(h), d)
<1> DEFINE R == OddRadix
           H == OddRadix \div 2
           O == k * R
           T == k * (2 * R)
           seq == <<9, 1, 3, 5, 7, 0, 2, 4, 6, 8>>
<1>1. R \in Nat /\ R >= 32 /\ H \in Nat /\ R = 2 * H /\ 40 * k <= (11 * d + 1) * R
  BY FieldAssumption, SMT DEF RoomForCarries
<1>2. /\ Radix(0) = 2 * R /\ Radix(1) = R /\ Radix(2) = 2 * R /\ Radix(3) = R
      /\ Radix(4) = 2 * R /\ Radix(5) = R /\ Radix(6) = 2 * R /\ Radix(7) = R
      /\ Radix(8) = 2 * R /\ Radix(9) = R
  BY DEF Radix
<1> HIDE DEF R, H
<1>3. /\ R \in Nat /\ H \in Nat /\ O \in Nat /\ T \in Nat /\ 2 * k \in Nat
      /\ R = 2 * H /\ T = 2 * O /\ 32 * k <= T
  <2>1. O \in Nat /\ T = 2 * O
    BY <1>1
  <2>2. k * R >= k * 32
    BY <1>1
  <2> QED BY <1>1, <2>1, <2>2
<1>4. \A i \in 0..9 : i \in Limbs
  BY DEF Limbs
<1>5. k * R = O /\ k * (2 * R) = T /\ (2 * k) * (2 * R) = 2 * T
  BY <1>1
<1> HIDE DEF O, T, seq
<1>6. PICK g : CarryTrail(Tens, h, 10, seq, g)
  <2>1. DOMAIN seq = 1..10 /\ 10 \in Nat
    BY DEF seq
  <2>2. \A n \in 1..10 : seq[n] \in Limbs
    BY DEF seq, Limbs
  <2>3. \A v \in Tens, i \in Limbs : Carry(v, i) \in Tens
    BY CarryTens
  <2> QED BY <2>1, <2>2, <2>3, CarrySteps, Zenon
<1>7. /\ g[1] = Carry(g[0], 9) /\ g[2] = Carry(g[1], 1) /\ g[3] = Carry(g[2], 3)
      /\ g[4] = Carry(g[3], 5) /\ g[5] = Carry(g[4], 7) /\ g[6] = Carry(g[5], 0)
      /\ g[7] = Carry(g[6], 2) /\ g[8] = Carry(g[7], 4) /\ g[9] = Carry(g[8], 6)
      /\ g[10] = Carry(g[9], 8)
  <2>1. \A n \in 1..10 : g[n] = Carry(g[n - 1], seq[n])
    BY <1>6, Zenon DEF CarryTrail
  <2> QED BY <2>1 DEF seq
<1>8. g[0] = h
  BY <1>6, Zenon DEF CarryTrail
<1>9. Sizes(g[0], T, O, T, O, T, O, T, O, T, O)
  BY <1>2, <1>4, <1>5, <1>8 DEF Sizes
<1>10. Sizes(g[1], T + 32 * k, O, T, O, T, O, T, O, T, H)
  <2>1. g[0] \in Tens /\ NotBeyond(g[0][9], k * Radix(9)) /\ 9 \in Limbs
    BY <1>2, <1>3, <1>4, <1>5, <1>9 DEF Sizes, NotBeyond, Tens
  <2>2. (9 + 1) % 10 = 0
    OBVIOUS
  <2>3. CarryMoves(g[0], 9, 0, k, g[1])
    BY <1>3, <1>7, <2>1, <2>2, CarryBounded, Zenon
  <2> QED BY <1>2, <1>3, <1>4, <1>9, <2>1, <2>3 DEF Sizes, NotBeyond, CarryMoves, Tens
<1>11. Sizes(g[2], T + 32 * k, H, T + 32 * k, O, T, O, T, O, T, H)
  <2>1. g[1] \in Tens /\ NotBeyond(g[1][1], k * Radix(1)) /\ 1 \in Limbs
    BY <1>2, <1>3, <1>4, <1>5, <1>10 DEF Sizes, NotBeyond, Tens
  <2>2. (1 + 1) % 10 = 2
    OBVIOUS
  <2>3. CarryMoves(g[1], 1, 2, k, g[2])
    BY <1>3, <1>7, <2>1, <2>2, CarryBounded, Zenon
  <2> QED BY <1>2, <1>3, <1>4, <1>10, <2>1, <2>3 DEF Sizes, NotBeyond, CarryMoves, Tens
<1>12. Sizes(g[3], T + 32 * k, H, T + 32 * k, H, T + 32 * k, O, T, O, T, H)
  <2>1. g[2] \in Tens /\ NotBeyond(g[2][3], k * Radix(3)) /\ 3 \in Limbs
    BY <1>2, <1>3, <1>4, <1>5, <1>11 DEF Sizes, NotBeyond, Tens
  <2>2. (3 + 1) % 10 = 4
    OBVIOUS
  <2>3. CarryMoves(g[2], 3, 4, k, g[3])
    BY <1>3, <1>7, <2>1, <2>2, CarryBounded, Zenon
  <2> QED BY <1>2, <1>3, <1>4, <1>11, <2>1, <2>3 DEF Sizes, NotBeyond, CarryMoves, Tens
<1>13. Sizes(g[4], T + 32 * k, H, T + 32 * k, H, T + 32 * k, H, T + 32 * k, O, T, H)
  <2>1. g[3] \in Tens /\ NotBeyond(g[3][5], k * Radix(5)) /\ 5 \in Limbs
    BY <1>2, <1>3, <1>4, <1>5, <1>12 DEF Sizes, NotBeyond, Tens
  <2>2. (5 + 1) % 10 = 6
    OBVIOUS
  <2>3. CarryMoves(g[3], 5, 6, k, g[4])
    BY <1>3, <1>7, <2>1, <2>2, CarryBounded, Zenon
  <2> QED BY <1>2, <1>3, <1>4, <1>12, <2>1, <2>3 DEF Sizes, NotBeyond, CarryMoves, Tens
<1>14. Sizes(g[5], T + 32 * k, H, T + 32 * k, H, T + 32 * k, H, T + 32 * k, H, T + 32 * k, H)
  <2>1. g[4] \in Tens /\ NotBeyond(g[4][7], k * Radix(7)) /\ 7 \in Limbs
    BY <1>2, <1>3, <1>4, <1>5, <1>13 DEF Sizes, NotBeyond, Tens
  <2>2. (7 + 1) % 10 = 8
    OBVIOUS
  <2>3. CarryMoves(g[4], 7, 8, k, g[5])
    BY <1>3, <1>7, <2>1, <2>2, CarryBounded, Zenon
  <2> QED BY <1>2, <1>3, <1>4, <1>13, <2>1, <2>3 DEF Sizes, NotBeyond, CarryMoves, Tens
<1>15. Sizes(g[6], R, H + 2 * k, T + 32 * k, H, T + 32 * k, H, T + 32 * k, H, T + 32 * k, H)
  <2>1. g[5] \in Tens /\ NotBeyond(g[5][0], (2 * k) * Radix(0)) /\ 0 \in Limbs
    BY <1>2, <1>3, <1>4, <1>5, <1>14 DEF Sizes, NotBeyond, Tens
  <2>2. (0 + 1) % 10 = 1
    OBVIOUS
  <2>3. CarryMoves(g[5], 0, 1, 2 * k, g[6])
    BY <1>3, <1>7, <2>1, <2>2, CarryBounded, Zenon
  <2> QED BY <1>2, <1>3, <1>4, <1>14, <2>1, <2>3 DEF Sizes, NotBeyond, CarryMoves, Tens
<1>16. Sizes(g[7], R, H + 2 * k, R, H + 2 * k, T + 32 * k, H, T + 32 * k, H, T + 32 * k, H)
  <2>1. g[6] \in Tens /\ NotBeyond(g[6][2], (2 * k) * Radix(2)) /\ 2 \in Limbs
    BY <1>2, <1>3, <1>4, <1>5, <1>15 DEF Sizes, NotBeyond, Tens
  <2>2. (2 + 1) % 10 = 3
    OBVIOUS
  <2>3. CarryMoves(g[6], 2, 3, 2 * k, g[7])
    BY <1>3, <1>7, <2>1, <2>2, CarryBounded, Zenon
  <2> QED BY <1>2, <1>3, <1>4, <1>15, <2>1, <2>3 DEF Sizes, NotBeyond, CarryMoves, Tens
<1>17. Sizes(g[8], R, H + 2 * k, R, H + 2 * k, R, H + 2 * k, T + 32 * k, H, T + 32 * k, H)
  <2>1. g[7] \in Tens /\ NotBeyond(g[7][4], (2 * k) * Radix(4)) /\ 4 \in Limbs
    BY <1>2, <1>3, <1>4, <1>5, <1>16 DEF Sizes, NotBeyond, Tens
  <2>2. (4 + 1) % 10 = 5
    OBVIOUS
  <2>3. CarryMoves(g[7], 4, 5, 2 * k, g[8])
    BY <1>3, <1>7, <2>1, <2>2, CarryBounded, Zenon
  <2> QED BY <1>2, <1>3, <1>4, <1>16, <2>1, <2>3 DEF Sizes, NotBeyond, CarryMoves, Tens
<1>18. Sizes(g[9], R, H + 2 * k, R, H + 2 * k, R, H + 2 * k, R, H + 2 * k, T + 32 * k, H)
  <2>1. g[8] \in Tens /\ NotBeyond(g[8][6], (2 * k) * Radix(6)) /\ 6 \in Limbs
    BY <1>2, <1>3, <1>4, <1>5, <1>17 DEF Sizes, NotBeyond, Tens
  <2>2. (6 + 1) % 10 = 7
    OBVIOUS
  <2>3. CarryMoves(g[8], 6, 7, 2 * k, g[9])
    BY <1>3, <1>7, <2>1, <2>2, CarryBounded, Zenon
  <2> QED BY <1>2, <1>3, <1>4, <1>17, <2>1, <2>3 DEF Sizes, NotBeyond, CarryMoves, Tens
<1>19. Sizes(g[10], R, H + 2 * k, R, H + 2 * k, R, H + 2 * k, R, H + 2 * k, R, H + 2 * k)
  <2>1. g[9] \in Tens /\ NotBeyond(g[9][8], (2 * k) * Radix(8)) /\ 8 \in Limbs
    BY <1>2, <1>3, <1>4, <1>5, <1>18 DEF Sizes, NotBeyond, Tens
  <2>2. (8 + 1) % 10 = 9
    OBVIOUS
  <2>3. CarryMoves(g[9], 8, 9, 2 * k, g[10])
    BY <1>3, <1>7, <2>1, <2>2, CarryBounded, Zenon
  <2> QED BY <1>2, <1>3, <1>4, <1>18, <2>1, <2>3 DEF Sizes, NotBeyond, CarryMoves, Tens
<1>20. CarryOnce(h) = g[10]
  BY <1>6, Zenon DEF CarryTrail, CarryOnce, seq
<1>21. \A i \in Limbs : NotBeyond(20 * g[10][i], 11 * ((d + 1) * Radix(i)))
  <2> DEFINE w == g[10]
             q == (d + 1) * R
  <2>1. \A i \in 0..9 : w[i] \in Int
    BY <1>19 DEF Sizes, Tens, Limbs
  <2>2. Sizes(w, R, H + 2 * k, R, H + 2 * k, R, H + 2 * k, R, H + 2 * k, R, H + 2 * k)
    BY <1>19
  <2>3. q \in Nat /\ R <= q /\ 10 * R + 40 * k <= 11 * q /\ (d + 1) * (2 * R) = 2 * q
    <3>1. d * R \in Nat /\ q = d * R + R /\ (11 * d + 1) * R = 11 * (d * R) + R
          /\ (d + 1) * (2 * R) = 2 * q
      BY <1>1
    <3> DEFINE e == d * R
    <3>2. e \in Nat /\ q = e + R /\ 40 * k <= 11 * e + R
      BY <1>1, <3>1
    <3> HIDE DEF e, q
    <3>3. q \in Nat /\ R <= q /\ 10 * R + 40 * k <= 11 * q
      BY <1>1, <3>2
    <3> QED BY <3>1, <3>3 DEF q
  <2> HIDE DEF w, q
  <2>4. /\ NotBeyond(20 * w[0], 11 * (2 * q)) /\ NotBeyond(20 * w[1], 11 * q)
        /\ NotBeyond(20 * w[2], 11 * (2 * q)) /\ NotBeyond(20 * w[3], 11 * q)
        /\ NotBeyond(20 * w[4], 11 * (2 * q)) /\ NotBeyond(20 * w[5], 11 * q)
        /\ NotBeyond(20 * w[6], 11 * (2 * q)) /\ NotBeyond(20 * w[7], 11 * q)
        /\ NotBeyond(20 * w[8], 11 * (2 * q)) /\ NotBeyond(20 * w[9], 11 * q)
    BY <1>3, <2>1, <2>2, <2>3 DEF Sizes, NotBeyond
  <2>5. /\ (d + 1) * Radix(0) = 2 * q /\ (d + 1) * Radix(1) = q
        /\ (d + 1) * Radix(2) = 2 * q /\ (d + 1) * Radix(3) = q
        /\ (d + 1) * Radix(4) = 2 * q /\ (d + 1) * Radix(5) = q
        /\ (d + 1) * Radix(6) = 2 * q /\ (d + 1) * Radix(7) = q
        /\ (d + 1) * Radix(8) = 2 * q /\ (d + 1) * Radix(9) = q
    <3>1. (d + 1) * R = q
      BY Zenon DEF q
    <3> QED BY <1>2, <2>3, <3>1, Zenon
  <2>6. \A i \in Limbs : NotBeyond(20 * w[i], 11 * ((d + 1) * Radix(i)))
    BY <2>4, <2>5 DEF Limbs
  <2> QED BY <2>6 DEF w
<1>22. g[10] \in Tens
  BY <1>19 DEF Sizes
<1> QED BY <1>20, <1>21, <1>22, Zenon DEF Sized

(* A product is bounded by the product of the bounds. *)
LEMMA ProductBounded ==
  ASSUME NEW x \in Int, NEW y \in Int, NEW p \in Nat, NEW q \in Nat,
         NotBeyond(x, p), NotBeyond(y, q)
  PROVE  x * y \in Int /\ p * q \in Nat /\ NotBeyond(x * y, p * q)
<1>1. p - x \in Nat /\ p + x \in Nat /\ q - y \in Nat /\ q + y \in Nat
  BY DEF NotBeyond
<1>2. \A a, b \in Nat : a * b >= 0
  OBVIOUS
<1>3. (p - x) * (q + y) >= 0 /\ (p + x) * (q - y) >= 0
      /\ (p - x) * (q - y) >= 0 /\ (p + x) * (q + y) >= 0
  BY <1>1, <1>2, Zenon
<1>4. /\ (p - x) * (q + y) = p * q + p * y - x * q - x * y
      /\ (p + x) * (q - y) = p * q - p * y + x * q - x * y
      /\ (p - x) * (q - y) = p * q - p * y - x * q + x * y
      /\ (p + x) * (q + y) = p * q + p * y + x * q + x * y
  OBVIOUS
<1>5. x * y \in Int /\ p * q \in Nat /\ p * y \in Int /\ x * q \in Int
  OBVIOUS
<1> DEFINE a == x * y
           b == p * q
           c == p * y
           d == x * q
<1>6. /\ a \in Int /\ b \in Nat /\ c \in Int /\ d \in Int
      /\ b + c - d - a >= 0 /\ b - c + d - a >= 0 /\ b - c - d + a >= 0 /\ b + c + d + a >= 0
  BY <1>3, <1>4, <1>5
<1> HIDE DEF a, b, c, d
<1>7. NotBeyond(a, b)
  BY <1>6 DEF NotBeyond
<1> QED BY <1>6, <1>7 DEF a, b

(* A product of limbs that are at most two sums deep. *)
LEMMA CrossSized ==
  ASSUME RoomForCarries, NEW f, NEW g, Sized(f, 2), Sized(g, 2),
         NEW i \in Limbs, NEW j \in Limbs
  PROVE  /\ Cross(f, g, i, j) \in Int
         /\ NotBeyond(2 * Cross(f, g, i, j), 697 * (OddRadix * OddRadix))
<1> DEFINE R == OddRadix
           a == f[i]
           b == g[j]
           s == IF i % 2 = 1 /\ j % 2 = 1 THEN 2 ELSE 1
           t == IF i + j >= 10 THEN FOLD ELSE 1
           ri == Radix(i)
           rj == Radix(j)
<1>1. /\ a \in Int /\ b \in Int /\ s \in {1, 2} /\ t \in 0..32 /\ R \in Nat
      /\ ri \in {R, 2 * R} /\ rj \in {R, 2 * R}
  <2>1. a \in Int /\ b \in Int
    BY DEF Sized, Tens
  <2>2. FOLD \in 0..32 /\ R \in Nat
    BY Radices, SMT DEF RoomForCarries
  <2>3. ri \in {R, 2 * R} /\ rj \in {R, 2 * R}
    BY DEF Radix
  <2> HIDE DEF a, b, ri, rj, R
  <2> QED BY <2>1, <2>2, <2>3
<1>0. s = 2 => ri = R /\ rj = R
  BY DEF Radix
<1>2. NotBeyond(20 * a, 33 * ri) /\ NotBeyond(20 * b, 33 * rj)
  <2>1. NotBeyond(20 * a, 11 * ((2 + 1) * ri)) /\ NotBeyond(20 * b, 11 * ((2 + 1) * rj))
    BY Zenon DEF Sized
  <2> HIDE DEF a, b, ri, rj, R
  <2> QED BY <1>1, <2>1, SMT DEF NotBeyond
<1>3. Cross(f, g, i, j) = a * b * s * t
  BY Zenon DEF Cross
<1> HIDE DEF a, b, s, t, ri, rj, R
<1> DEFINE p == a * b
           RR == R * R
<1>4. p \in Int /\ RR \in Nat /\ p * s \in Int /\ NotBeyond(100 * (p * s), 1089 * RR)
  <2> DEFINE x == 20 * a
             y == 20 * b
             u == IF s = 2 THEN 33 * R ELSE 66 * R
  <2>1. x \in Int /\ y \in Int /\ u \in Nat /\ NotBeyond(x, u) /\ NotBeyond(y, u)
    BY <1>0, <1>1, <1>2, SMT DEF NotBeyond
  <2>2. /\ x * y = 400 * p /\ p \in Int /\ RR \in Nat
        /\ s = 2 => u * u = 1089 * RR
        /\ s # 2 => u * u = 4356 * RR
    BY <1>1, SMT
  <2> HIDE DEF x, y, u
  <2>3. NotBeyond(x * y, u * u)
    BY <2>1, ProductBounded, Zenon
  <2> HIDE DEF p, RR
  <2>4. CASE s = 2
    BY <2>2, <2>3, <2>4, SMT DEF NotBeyond
  <2>5. CASE s = 1
    BY <2>2, <2>3, <2>5, SMT DEF NotBeyond
  <2> QED BY <1>1, <2>4, <2>5
<1> DEFINE c == p * s
<1>5. a * b * s * t = c * t
  OBVIOUS
<1>6. c \in Int /\ NotBeyond(100 * c, 1089 * RR) /\ t \in 0..32 /\ RR \in Nat
  BY <1>1, <1>4
<1> HIDE DEF c, p, RR
<1>7. c * t \in Int /\ NotBeyond(2 * (c * t), 697 * RR)
  <2> DEFINE m == 1089 * RR
             x == 100 * c
             y == c * t
             z == x * t
             w == m * t
  <2>1. m \in Nat /\ x \in Int /\ t \in Nat /\ NotBeyond(x, m) /\ NotBeyond(t, 32)
    BY <1>6, SMT DEF NotBeyond
  <2>2. z = 100 * y /\ y \in Int
    BY <1>6, SMT
  <2> HIDE DEF m, x, y
  <2>3. NotBeyond(z, m * 32)
    <3>1. 32 \in Nat /\ t \in Int
      BY <2>1
    <3> QED BY <2>1, <3>1, ProductBounded, Zenon
  <2> HIDE DEF z
  <2>4. NotBeyond(50 * y, 16 * m)
    BY <2>1, <2>2, <2>3, SMT DEF NotBeyond
  <2>5. m = 1089 * RR
    BY Zenon DEF m
  <2>6. NotBeyond(2 * y, 697 * RR)
    BY <1>6, <2>2, <2>4, <2>5, SMT DEF NotBeyond
  <2> QED BY <2>2, <2>6, Zenon DEF y
<1>8. Cross(f, g, i, j) = c * t
  BY <1>3, <1>5
<1> QED BY <1>7, <1>8, Zenon DEF RR, R

(* Ten bounded numbers have a bounded total. *)
LEMMA TotalBounded ==
  ASSUME NEW t \in Tens, NEW b \in Nat, \A i \in Limbs : NotBeyond(2 * t[i], b)
  PROVE  Total(t) \in Int /\ NotBeyond(2 * Total(t), 10 * b)
<1>1. /\ t[0] \in Int /\ t[1] \in Int /\ t[2] \in Int /\ t[3] \in Int
      /\ t[4] \in Int /\ t[5] \in Int /\ t[6] \in Int /\ t[7] \in Int
      /\ t[8] \in Int /\ t[9] \in Int
  BY DEF Tens, Limbs
<1>2. /\ NotBeyond(2 * t[0], b) /\ NotBeyond(2 * t[1], b) /\ NotBeyond(2 * t[2], b)
      /\ NotBeyond(2 * t[3], b) /\ NotBeyond(2 * t[4], b) /\ NotBeyond(2 * t[5], b)
      /\ NotBeyond(2 * t[6], b) /\ NotBeyond(2 * t[7], b) /\ NotBeyond(2 * t[8], b)
      /\ NotBeyond(2 * t[9], b)
  BY DEF Limbs
<1>3. Total(t) \in Int
  BY TotalType
<1> QED BY <1>1, <1>2, <1>3 DEF NotBeyond, Total

(* The sums that products are carried from. *)
LEMMA ProductSized ==
  ASSUME RoomForCarries, NEW f, NEW g, Sized(f, 2), Sized(g, 2)
  PROVE  /\ Product(f, g) \in Tens
         /\ \A k \in Limbs : NotBeyond(2 * Product(f, g)[k], ProductSize)
<1> DEFINE b == 697 * (OddRadix * OddRadix)
<1>1. b \in Nat /\ 10 * b <= ProductSize /\ ProductSize \in Nat
  BY Radices, SMT DEF ProductSize
<1>2. f \in Tens /\ g \in Tens
  BY DEF Sized
<1>3. \A i, j \in Limbs : NotBeyond(2 * Cross(f, g, i, j), b)
  BY CrossSized, SMT
<1> HIDE DEF b
<1>4. ASSUME NEW k \in Limbs
      PROVE  Product(f, g)[k] \in Int /\ NotBeyond(2 * Product(f, g)[k], ProductSize)
  <2> DEFINE t == [i \in Limbs |-> Cross(f, g, i, (k - i) % 10)]
  <2>1. t \in Tens /\ Product(f, g)[k] = Total(t)
    BY <1>2, ProductSums, Zenon
  <2>2. \A i \in Limbs : NotBeyond(2 * t[i], b)
    <3>1. \A i \in Limbs : (k - i) % 10 \in Limbs
      BY DEF Limbs
    <3> QED BY <1>3, <3>1, Zenon
  <2> HIDE DEF t
  <2>3. Total(t) \in Int /\ NotBeyond(2 * Total(t), 10 * b)
    BY <1>1, <2>1, <2>2, TotalBounded, Zenon
  <2>4. NotBeyond(2 * Total(t), ProductSize)
    BY <1>1, <2>3, SMT DEF NotBeyond
  <2> QED BY <2>1, <2>3, <2>4, Zenon
<1>5. Product(f, g) \in Tens
  BY <1>2, ProductAlike, Zenon
<1> QED BY <1>4, <1>5

(* Small limbs are small enough for more sums. *)
LEMMA SizedDeeper ==
  ASSUME NEW h, NEW d \in Nat, NEW e \in Nat, d <= e, Sized(h, d)
  PROVE  Sized(h, e)
<1>1. h \in Tens /\ \A i \in Limbs : NotBeyond(20 * h[i], 11 * ((d + 1) * Radix(i)))
  BY DEF Sized
<1>2. ASSUME NEW i \in Limbs
      PROVE  NotBeyond(20 * h[i], 11 * ((e + 1) * Radix(i)))
  <2> DEFINE r == Radix(i)
             x == h[i]
  <2>1. r \in Nat /\ x \in Int /\ NotBeyond(20 * x, 11 * ((d + 1) * r))
    BY <1>1, Radices DEF Limbs, Tens
  <2> HIDE DEF r, x
  <2>2. (d + 1) * r <= (e + 1) * r /\ (d + 1) * r \in Nat /\ (e + 1) * r \in Nat
    BY <2>1
  <2> DEFINE y == (d + 1) * r
             z == (e + 1) * r
  <2>3. y <= z /\ y \in Nat /\ z \in Nat /\ NotBeyond(20 * x, 11 * y)
    BY <2>1, <2>2
  <2> HIDE DEF y, z
  <2>4. NotBeyond(20 * x, 11 * z)
    BY <2>1, <2>3 DEF NotBeyond
  <2> QED BY <2>4 DEF x, z, r
<1> QED BY <1>1, <1>2 DEF Sized

(* Sums and differences are one deeper than both together. *)
LEMMA SumsSized ==
  ASSUME NEW f, NEW g, NEW d \in Nat, NEW e \in Nat, Sized(f, d), Sized(g, e)
  PROVE  /\ Sized(fe_add(f, g), d + e + 1) /\ Sized(fe_sub(f, g), d + e + 1)
         /\ Sized(fe_neg(f), d)
<1>1. f \in Tens /\ g \in Tens
  BY DEF Sized
<1>2. ASSUME NEW i \in Limbs
      PROVE  /\ NotBeyond(20 * (f[i] + g[i]), 11 * ((d + e + 1 + 1) * Radix(i)))
             /\ NotBeyond(20 * (f[i] - g[i]), 11 * ((d + e + 1 + 1) * Radix(i)))
             /\ NotBeyond(20 * (-f[i]), 11 * ((d + 1) * Radix(i)))
             /\ f[i] + g[i] \in Int /\ f[i] - g[i] \in Int /\ -f[i] \in Int
  <2> DEFINE r == Radix(i)
             a == f[i]
             b == g[i]
             x == (d + 1) * r
             y == (e + 1) * r
  <2>1. /\ a \in Int /\ b \in Int /\ r \in Nat
        /\ NotBeyond(20 * a, 11 * x) /\ NotBeyond(20 * b, 11 * y)
    BY <1>1, Radices DEF Limbs, Tens, Sized
  <2> HIDE DEF r, a, b
  <2>2. x \in Nat /\ y \in Nat /\ (d + e + 1 + 1) * r = x + y
    BY <2>1
  <2> HIDE DEF x, y
  <2>3. /\ NotBeyond(20 * (a + b), 11 * (x + y)) /\ NotBeyond(20 * (a - b), 11 * (x + y))
        /\ NotBeyond(20 * (-a), 11 * x)
        /\ a + b \in Int /\ a - b \in Int /\ -a \in Int
    BY <2>1, <2>2 DEF NotBeyond
  <2> QED BY <2>2, <2>3 DEF x, a, b, r
<1>3. /\ fe_add(f, g) \in Tens /\ fe_sub(f, g) \in Tens /\ fe_neg(f) \in Tens
      /\ \A i \in Limbs : /\ fe_add(f, g)[i] = f[i] + g[i] /\ fe_sub(f, g)[i] = f[i] - g[i]
                          /\ fe_neg(f)[i] = -f[i]
  BY <1>2 DEF fe_add, fe_sub, fe_neg, Tens
<1> QED BY <1>2, <1>3 DEF Sized

(* What is carried from products is as after none. *)
LEMMA ProductsSized ==
  ASSUME RoomForCarries, NEW f, NEW g, Sized(f, 2), Sized(g, 2)
  PROVE  Sized(fe_mul(f, g), 0) /\ Sized(fe_sq(f), 0) /\ Sized(fe_sq2(f), 0)
<1>1. ProductSize \in Nat
  BY Radices, SMT DEF ProductSize
<1>2. ASSUME NEW h \in Tens, \A k \in Limbs : NotBeyond(2 * h[k], ProductSize)
      PROVE  /\ Sized(CarryProduct(h), 0) /\ Sized(CarryProduct(fe_add(h, h)), 0)
  <2>1. \A k \in Limbs : h[k] \in Int
    BY DEF Tens
  <2>2. \A k \in Limbs : NotBeyond(h[k], ProductSize) /\ NotBeyond(h[k] + h[k], ProductSize)
    BY <1>1, <1>2, <2>1, SMT DEF NotBeyond
  <2> DEFINE s == fe_add(h, h)
  <2>3. s \in Tens /\ \A k \in Limbs : s[k] = h[k] + h[k]
    BY <2>1 DEF fe_add, Tens
  <2> HIDE DEF s
  <2>4. \A k \in Limbs : NotBeyond(s[k], ProductSize)
    BY <2>2, <2>3, Zenon
  <2>5. Sized(CarryProduct(s), 0)
    BY <2>3, <2>4, CarryProductSized, Zenon
  <2>6. Sized(CarryProduct(h), 0)
    BY <2>2, CarryProductSized, Zenon
  <2> QED BY <2>5, <2>6, Zenon DEF s
<1>3. Sized(fe_mul(f, g), 0)
  BY <1>2, ProductSized, Zenon DEF fe_mul
<1>4. Square(f) \in Tens /\ \A k \in Limbs : NotBeyond(2 * Square(f)[k], ProductSize)
  <2>1. f \in Tens
    BY DEF Sized
  <2>2. Square(f) = Product(f, f)
    BY <2>1, SquareIsProduct, Zenon
  <2> QED BY <2>2, ProductSized, Zenon
<1>5. Sized(fe_sq(f), 0) /\ Sized(fe_sq2(f), 0)
  BY <1>2, <1>4, Zenon DEF fe_sq, fe_sq2
<1> QED BY <1>3, <1>5

(* The part of a number between two weights is small. *)
LEMMA PartSmall ==
  ASSUME NEW w \in Nat \ {0}, NEW e \in Nat \ {0}, NEW r \in Nat \ {0}, NEW e1 \in Nat \ {0},
         NEW n \in Nat
  PROVE  NotBeyond(((n % ((w * r) * e1)) \div (w * e)) * e, e1 * r)
<1> DEFINE b == (w * r) * e1
           a == w * e
           m == n % b
           d == m \div a
           x == d * e
<1>1. a \in Nat \ {0} /\ b \in Nat \ {0} /\ e \in Nat \ {0}
  BY SMT
<1>2. b = w * (e1 * r)
  OBVIOUS
<1>3. m \in Nat /\ m \in Int /\ m < b
  <2> HIDE DEF a, b
  <2> QED BY <1>1
<1>4. d \in Int /\ a * d <= m /\ 0 <= d
  <2> HIDE DEF m, a, b
  <2>1. m = a * d + (m % a) /\ (m % a) \in 0..(a - 1) /\ d \in Int
    BY <1>1, <1>3, Division, Zenon
  <2> DEFINE p == a * d
             q == m % a
  <2>2. p \in Int
    BY <1>1, <2>1
  <2>3. p <= m
    <3> HIDE DEF p, q, d
    <3>1. q \in 0..(a - 1) /\ m = p + q
      BY <2>1 DEF p, q
    <3> QED BY <1>1, <1>3, <2>2, <3>1
  <2>4. d < 0 => p <= -a
    <3>1. d < 0 => d <= -1
      BY <2>1
    <3> HIDE DEF d
    <3>2. d <= -1 => a * d <= a * (-1)
      BY <1>1, <2>1
    <3> QED BY <1>1, <3>1, <3>2
  <2>5. m < p + a
    <3> HIDE DEF p, q, d
    <3>1. q \in 0..(a - 1) /\ m = p + q
      BY <2>1 DEF p, q
    <3> QED BY <1>1, <1>3, <2>2, <3>1
  <2>6. 0 <= d
    <3> HIDE DEF p, q, d
    <3> QED BY <1>1, <1>3, <2>1, <2>2, <2>4, <2>5
  <2> QED BY <2>1, <2>3, <2>6
<1> HIDE DEF m, d
<1>5. x \in Int /\ 0 <= x /\ a * d = w * x
  <2>1. (w * e) * d = w * (d * e)
    BY <1>1, <1>4
  <2>2. 0 <= d * e /\ d * e \in Int
    BY <1>1, <1>4
  <2> QED BY <2>1, <2>2
<1> DEFINE s == e1 * r
<1>6. s \in Int /\ w * x < w * s
  <2>1. s \in Int /\ w * s \in Int /\ w * x \in Int
    BY <1>5
  <2> DEFINE p == w * s
             q == w * x
  <2> HIDE DEF x
  <2>2. b = p /\ q <= m /\ p \in Int /\ q \in Int
    BY <1>2, <1>4, <1>5, <2>1
  <2> HIDE DEF p, q, b, s
  <2>3. q < p
    BY <1>1, <1>3, <2>2
  <2> QED BY <2>1, <2>3 DEF p, q
<1> HIDE DEF x, s, b, a
<1>7. x <= s
  <2>1. x >= s => w * x >= w * s
    BY <1>5, <1>6
  <2> QED BY <1>5, <1>6, <2>1
<1>8. NotBeyond(x, s)
  BY <1>5, <1>6, <1>7 DEF NotBeyond
<1> QED BY <1>8 DEF x, s, d, m, a, b

(* What is read from bytes is as after a product. *)
LEMMA ReadSized ==
  ASSUME RoomForCarries, NEW n \in Nat
  PROVE  Sized(fe_frombytes(n), 0)
<1> DEFINE h == [i \in Limbs |-> ((n % Cut(i + 1)) \div Cut(i)) * LoadShift[i]]
           k == OddRadix \div 40
<1>0. /\ k \in Nat /\ 40 * k <= OddRadix
      /\ \A i \in 0..10 : LoadShift[i] \in Nat \ {0} /\ LoadShift[i] <= k
  <2> DEFINE R == OddRadix
  <2>1. R \in Nat
    BY FieldAssumption
  <2>2. /\ k \in Nat /\ 40 * k <= R
        /\ \A e \in Nat : 40 * e <= R => e <= k
    <3> HIDE DEF R
    <3>1. R \div 40 \in Nat /\ 40 * (R \div 40) <= R /\ R < 40 * (R \div 40) + 40
      BY <2>1
    <3>2. k = R \div 40
      BY DEF R
    <3> HIDE DEF k
    <3> QED BY <2>1, <3>1, <3>2
  <2> HIDE DEF k
  <2>3. ASSUME NEW i \in 0..10
        PROVE  LoadShift[i] \in Nat \ {0} /\ 40 * LoadShift[i] <= R
    BY LoadAssumption DEF RoomForCarries, RoomForLoads
  <2>4. ASSUME NEW i \in 0..10
        PROVE  LoadShift[i] \in Nat \ {0} /\ LoadShift[i] <= k
    <3> HIDE DEF R
    <3> QED BY <2>2, <2>3
  <2> QED BY <2>2, <2>4
<1> HIDE DEF k
<1>1. ASSUME NEW i \in Limbs
      PROVE  h[i] \in Int /\ NotBeyond(h[i], k * Radix(i))
  <2> DEFINE w == Weight[i]
             r == Radix(i)
             e == LoadShift[i]
             e1 == LoadShift[i + 1]
  <2>1. i \in 0..9 /\ i \in 0..10 /\ i \in Int /\ i + 1 \in 0..10
    BY DEF Limbs
  <2>2. /\ w \in Nat \ {0} /\ r \in Nat \ {0} /\ e \in Nat \ {0} /\ e1 \in Nat \ {0}
        /\ Weight[i + 1] = w * r /\ e1 <= k
    BY <1>0, <2>1, Weights, Radices
  <2>3. h[i] = ((n % ((w * r) * e1)) \div (w * e)) * e
    <3>1. Cut(i + 1) = (w * r) * e1 /\ Cut(i) = w * e
      BY <2>2, Zenon DEF Cut
    <3> QED BY <3>1, Zenon
  <2> HIDE DEF w, r, e, e1, h
  <2>4. h[i] \in Int
    <3> DEFINE a == w * e
               b == (w * r) * e1
    <3>1. a \in Nat \ {0} /\ b \in Nat \ {0}
      BY <2>2
    <3> HIDE DEF a, b
    <3> DEFINE m == n % b
               d == m \div a
    <3>2. m \in Int
      BY <3>1
    <3> HIDE DEF m
    <3>3. d \in Int
      BY <3>1, <3>2
    <3> HIDE DEF d
    <3>4. d * e \in Int
      BY <2>2, <3>3
    <3> QED BY <2>3, <3>4 DEF d, m, a, b
  <2>5. NotBeyond(h[i], k * r)
    <3> DEFINE a == e1 * r
               b == k * r
    <3>1. NotBeyond(h[i], a)
      BY <2>2, <2>3, PartSmall, Zenon
    <3>2. a \in Int /\ b \in Int /\ a <= b
      <4> DEFINE more == k - e1
      <4>1. more \in Nat /\ k = e1 + more
        BY <1>0, <2>2
      <4> HIDE DEF more
      <4>2. (e1 + more) * r = e1 * r + more * r /\ more * r \in Nat /\ e1 * r \in Int
        BY <2>2, <4>1
      <4> QED BY <4>1, <4>2
    <3> HIDE DEF a, b
    <3>3. NotBeyond(h[i], b)
      BY <2>4, <3>1, <3>2 DEF NotBeyond
    <3> QED BY <3>3, Zenon DEF b
  <2> QED BY <2>4, <2>5, Zenon DEF r
<1>2. h \in Tens
  <2>1. \A i \in Limbs : h[i] \in Int
    <3> HIDE DEF h
    <3> QED BY <1>1
  <2>2. h = [i \in Limbs |-> h[i]]
    OBVIOUS
  <2> HIDE DEF h
  <2> QED BY <2>1, <2>2 DEF Tens
<1>3. \A i \in Limbs : NotBeyond(h[i], k * Radix(i))
  <2> HIDE DEF h
  <2> QED BY <1>1
<1>4. 40 * k <= (11 * 0 + 1) * OddRadix
  BY <1>0, FieldAssumption
<1>5. fe_frombytes(n) = CarryOnce(h)
  BY Zenon DEF fe_frombytes
<1> HIDE DEF h
<1>6. 0 \in Nat
  OBVIOUS
<1> QED BY <1>0, <1>2, <1>3, <1>4, <1>5, <1>6, CarryOnceSized, Zenon

(* A product with 121666 is carried once: the limbs are as large as a sum's. *)
LEMMA SmallProductSized ==
  ASSUME RoomForCarries, NEW f, Sized(f, 1)
  PROVE  Sized(fe_mul121666(f), 1)
<1> DEFINE h == [i \in Limbs |-> CURVE * f[i]]
<1>1. f \in Tens /\ CURVE \in Nat
  BY FieldAssumption DEF Sized
<1>2. ASSUME NEW i \in Limbs
      PROVE  h[i] \in Int /\ NotBeyond(h[i], (2 * CURVE) * Radix(i))
  <2> DEFINE x == f[i]
             r == Radix(i)
             c == CURVE
  <2>1. x \in Int /\ r \in Nat /\ c \in Nat /\ NotBeyond(20 * x, 11 * ((1 + 1) * r))
    BY <1>1, Radices DEF Limbs, Tens, Sized
  <2>2. h[i] = c * x
    OBVIOUS
  <2> HIDE DEF x, r, c, h
  <2>3. -(2 * r) <= x /\ x <= 2 * r
    BY <2>1 DEF NotBeyond
  <2> DEFINE s == 2 * r
  <2>4. s \in Nat /\ -s <= x /\ x <= s /\ -s \in Int
    BY <2>1, <2>3
  <2> HIDE DEF s
  <2>5. c * x <= c * s /\ c * (-s) <= c * x /\ c * x \in Int
    BY <2>1, <2>4
  <2>6. c * (-s) = -(c * s) /\ c * s \in Int
    BY <2>1, <2>4
  <2>7. (2 * c) * r = c * s
    BY <2>1 DEF s
  <2>8. NotBeyond(c * x, c * s)
    BY <2>5, <2>6, Zenon DEF NotBeyond
  <2> QED BY <2>2, <2>5, <2>7, <2>8, Zenon DEF c, r
<1>3. h \in Tens
  <2>1. \A i \in Limbs : h[i] \in Int
    <3> HIDE DEF h
    <3> QED BY <1>2
  <2>2. h = [i \in Limbs |-> h[i]]
    OBVIOUS
  <2> HIDE DEF h
  <2> QED BY <2>1, <2>2 DEF Tens
<1>4. \A i \in Limbs : NotBeyond(h[i], (2 * CURVE) * Radix(i))
  <2> HIDE DEF h
  <2> QED BY <1>2
<1>5. 40 * (2 * CURVE) <= (11 * 1 + 1) * OddRadix
  BY <1>1, Radices, SMT DEF RoomForCarries
<1>6. fe_mul121666(f) = CarryOnce(h)
  BY Zenon DEF fe_mul121666
<1> HIDE DEF h
<1>7. 2 * CURVE \in Nat /\ 1 \in Nat
  BY <1>1
<1> QED BY <1>3, <1>4, <1>5, <1>6, <1>7, CarryOnceSized, Zenon

(* 0 and 1 are small. *)
LEMMA ConstantsSized ==
  ASSUME RoomForCarries
  PROVE  Sized(fe_0, 0) /\ Sized(fe_1, 0)
<1>1. fe_0 \in Tens /\ fe_1 \in Tens
  BY ValueConstants
<1>2. \A i \in Limbs : fe_0[i] \in {0, 1} /\ fe_1[i] \in {0, 1}
  BY DEF fe_0, fe_1, Limbs
<1>3. ASSUME NEW i \in Limbs, NEW x \in {0, 1}
      PROVE  NotBeyond(20 * x, 11 * ((0 + 1) * Radix(i)))
  <2>1. Radix(i) \in Nat /\ Radix(i) >= 16
    BY Radices, SMT DEF RoomForCarries, Radix
  <2> QED BY <2>1 DEF NotBeyond
<1> QED BY <1>1, <1>2, <1>3, Zenon DEF Sized

(* Small limbs add up to no more than the weight of the next. *)
LEMMA SmallSums ==
  ASSUME RoomForCarries, NEW h, Sized(h, 0), NEW u, Sums(Weighed(h), u)
  PROVE  /\ NotBeyond(u[8], Weight[9]) /\ u[8] \in Int /\ u[9] = Value(h)
         /\ u[9] = u[8] + h[9] * Weight[9]
<1> DEFINE t == Weighed(h)
           W == Weight
<1>1. t \in Tens /\ h \in Tens
  BY WeighedType DEF Sized
<1>2. /\ u[-1] = 0 /\ u[9] = Total(t)
      /\ \A i \in Limbs : u[i] = u[i - 1] + t[i]
      /\ \A i \in -1..9 : u[i] \in Int
  BY <1>1, SumsSteps, Zenon
<1>3. \A i \in Limbs : /\ t[i] = h[i] * W[i] /\ W[i] \in Nat \ {0}
                       /\ Radix(i) \in Nat \ {0} /\ W[i + 1] = W[i] * Radix(i)
                       /\ i - 1 \in -1..9 /\ i \in -1..9 /\ h[i] \in Int
                       /\ Radix(i) >= 16 /\ NotBeyond(20 * h[i], 11 * Radix(i))
  <2> TAKE i \in Limbs
  <2>1. i \in 0..9 /\ i \in 0..10 /\ i \in Int /\ i - 1 \in -1..9 /\ i \in -1..9 /\ i + 1 \in 0..10
    BY DEF Limbs
  <2>2. t[i] = h[i] * W[i]
    BY Zenon DEF Weighed
  <2>3. Radix(i) >= 16
    BY Radices, SMT DEF RoomForCarries, Radix
  <2>4. h[i] \in Int
    BY <1>1 DEF Tens
  <2>5. W[i] \in Nat \ {0} /\ Radix(i) \in Nat \ {0} /\ W[i + 1] = W[i] * Radix(i)
    BY <2>1, Weights, Radices
  <2>6. NotBeyond(20 * h[i], 11 * Radix(i))
    <3>1. NotBeyond(20 * h[i], 11 * ((0 + 1) * Radix(i)))
      BY DEF Sized
    <3>2. (0 + 1) * Radix(i) = Radix(i)
      BY <2>5
    <3> QED BY <3>1, <3>2
  <2> HIDE DEF t, W
  <2> QED BY <2>1, <2>2, <2>3, <2>4, <2>5, <2>6
<1>4. u[9] = Value(h)
  BY <1>2, Zenon DEF Value
<1>5. W[0] = 1
  BY Weights
<1> HIDE DEF t, W
<1> DEFINE f == [i \in -1..9 |-> IF NotBeyond(u[i], W[i + 1]) THEN 0 ELSE 1]
           z == [i \in -1..9 |-> 0]
<1>6. f[-1] = z[-1]
  <2>1. W[0] = 1 /\ -1 + 1 = 0
    BY <1>5
  <2>2. NotBeyond(u[-1], W[-1 + 1])
    BY <1>2, <2>1 DEF NotBeyond
  <2> QED BY <2>2
<1>7. \A i \in Limbs : f[i - 1] = z[i - 1] => f[i] = z[i]
  <2> TAKE i \in Limbs
  <2> HAVE f[i - 1] = z[i - 1]
  <2>1. (i - 1) + 1 = i /\ i - 1 \in -1..9 /\ i \in -1..9
    BY DEF Limbs
  <2>2. NotBeyond(u[i - 1], W[i])
    BY <2>1
  <2>3. ASSUME NEW a \in Int, NEW w \in Nat \ {0}, NEW r \in Nat \ {0}, NEW x \in Int,
               r >= 16, NotBeyond(a, w), NotBeyond(20 * x, 11 * r)
        PROVE  NotBeyond(a + x * w, w * r)
    <3> DEFINE p == x * w
               q == w * r
    <3>1. p \in Int /\ q \in Int /\ 16 * w <= q
      BY <2>3
    <3>2. NotBeyond(20 * p, 11 * q)
      <4>1. (20 * x) * w <= (11 * r) * w /\ (-(11 * r)) * w <= (20 * x) * w
        BY <2>3 DEF NotBeyond
      <4>2. (20 * x) * w = 20 * p /\ (11 * r) * w = 11 * q /\ (-(11 * r)) * w = -(11 * q)
        BY <2>3
      <4> QED BY <4>1, <4>2 DEF NotBeyond
    <3> HIDE DEF p, q
    <3>3. NotBeyond(a + p, q)
      BY <2>3, <3>1, <3>2 DEF NotBeyond
    <3> QED BY <3>3 DEF p, q
  <2>4. NotBeyond(u[i], W[i + 1])
    <3>1. u[i] = u[i - 1] + h[i] * W[i] /\ W[i + 1] = W[i] * Radix(i)
      BY <1>2, <1>3, Zenon
    <3>2. /\ u[i - 1] \in Int /\ W[i] \in Nat \ {0} /\ Radix(i) \in Nat \ {0}
          /\ h[i] \in Int /\ Radix(i) >= 16 /\ NotBeyond(20 * h[i], 11 * Radix(i))
      BY <1>2, <1>3, <2>1, Zenon
    <3> QED BY <2>2, <2>3, <3>1, <3>2, Zenon
  <2> QED BY <2>1, <2>4
<1>8. f[8] = z[8]
  <2> HIDE DEF f, z
  <2>1. \A i \in -1..9 : f[i] = z[i]
    BY <1>6, <1>7, StepByStep, Zenon
  <2> QED BY <2>1
<1>9. NotBeyond(u[8], W[9])
  BY <1>8
<1>10. u[8] \in Int
  BY <1>2
<1>11. u[9] = u[8] + h[9] * W[9]
  <2>1. u[9] = u[9 - 1] + t[9] /\ t[9] = h[9] * W[9]
    BY <1>2, <1>3 DEF Limbs
  <2>2. 9 - 1 = 8
    OBVIOUS
  <2> QED BY <2>1, <2>2
<1> QED BY <1>4, <1>9, <1>10, <1>11, Zenon DEF W

(* What comes from a product may be written. *)
LEMMA SizedWritable ==
  ASSUME RoomForCarries, NEW h, Sized(h, 0)
  PROVE  Writable(h)
<1> DEFINE w == Weight[9]
           R == OddRadix
           F == FOLD
           B == Below9(h)
           x == h[9]
           K == 3000
           M == 2048
<1> HIDE DEF K, M
<1>1. h \in Tens
  BY DEF Sized
<1>2. PICK u : Sums(Weighed(h), u)
  BY <1>1, WeighedType, SumsExist, Zenon
<1>3. B \in Int /\ Value(h) = B + x * w
  BY <1>1, Below9Is, Zenon
<1>4. /\ w \in Nat \ {0} /\ R \in Nat /\ R >= K /\ F \in Nat /\ F <= 32 /\ x \in Int
      /\ NotBeyond(20 * x, 11 * R)
  <2>1. R \in Nat /\ R >= K /\ F \in Nat /\ F <= 32
    BY Radices, SMT DEF RoomForCarries, K
  <2>2. w \in Nat \ {0}
    BY Weights
  <2>3. x \in Int
    BY <1>1 DEF Tens, Limbs
  <2>4. NotBeyond(20 * x, 11 * R)
    <3>1. NotBeyond(20 * h[9], 11 * ((0 + 1) * Radix(9)))
      BY DEF Sized, Limbs
    <3>2. Radix(9) = R
      BY DEF Radix
    <3>3. (0 + 1) * R = R
      BY <2>1
    <3> QED BY <3>1, <3>2, <3>3
  <2> QED BY <2>1, <2>2, <2>3, <2>4, Zenon
<1>5. Weight[10] = w * R /\ Prime = w * R - F
  <2>1. Weight[9 + 1] = Weight[9] * Radix(9) /\ 9 + 1 = 10 /\ Radix(9) = R
    BY Weights DEF Radix
  <2> QED BY <2>1, Zenon DEF Prime
<1>6. NotBeyond(B, w)
  <2>1. /\ NotBeyond(u[8], w) /\ u[8] \in Int /\ u[9] = B + x * w
        /\ u[9] = u[8] + x * w
    BY <1>2, <1>3, SmallSums, Zenon
  <2> HIDE DEF B, w, x
  <2>2. x * w \in Int
    BY <1>4
  <2> DEFINE p == x * w
  <2>3. B = u[8]
    <3>1. p \in Int /\ B + p = u[8] + p
      BY <2>1, <2>2
    <3> HIDE DEF p
    <3> QED BY <1>3, <2>1, <3>1
  <2> QED BY <2>1, <2>3
<1> HIDE DEF w, R, F, B, x
<1> DEFINE q == w * R
           p == x * w
<1>7. p \in Int /\ q \in Int /\ K * w <= q /\ NotBeyond(20 * p, 11 * q)
  <2>1. p \in Int /\ q \in Int /\ K * w <= q
    <3>1. K \in Nat
      BY SMT DEF K
    <3> QED BY <1>4, <3>1
  <2>2. (20 * x) * w <= (11 * R) * w /\ (-(11 * R)) * w <= (20 * x) * w
    BY <1>4 DEF NotBeyond
  <2>3. (20 * x) * w = 20 * p /\ (11 * R) * w = 11 * q /\ (-(11 * R)) * w = -(11 * q)
    BY <1>4
  <2> QED BY <2>1, <2>2, <2>3 DEF NotBeyond
<1>8. /\ 2 * F * B \in Int /\ NotBeyond(2 * F * B, 64 * w)
      /\ 2 * F * F \in Int /\ 2 * F * F <= M /\ 0 <= 2 * F * F
  <2>1. \A m \in 0..64, y \in Int, v \in Nat \ {0} :
          NotBeyond(y, v) => m * y \in Int /\ NotBeyond(m * y, 64 * v)
    <3> TAKE m \in 0..64, y \in Int, v \in Nat \ {0}
    <3> HAVE NotBeyond(y, v)
    <3>1. m * y <= m * v /\ m * (-v) <= m * y /\ m * v <= 64 * v /\ m * (-v) = -(m * v)
      BY DEF NotBeyond
    <3> DEFINE a == m * y
               b == m * v
    <3>2. a \in Int /\ b \in Int /\ a <= b /\ -b <= a /\ b <= 64 * v
      BY <3>1
    <3> HIDE DEF a, b
    <3>3. NotBeyond(a, 64 * v)
      BY <3>2 DEF NotBeyond
    <3> QED BY <3>2, <3>3 DEF a
  <2>2. 2 * F \in 0..64
    BY <1>4
  <2>3. 2 * F * B \in Int /\ NotBeyond(2 * F * B, 64 * w)
    BY <1>3, <1>4, <1>6, <2>1, <2>2, Zenon
  <2>4. NotBeyond(F, 32) /\ F \in Int /\ 32 \in Nat \ {0}
    BY <1>4 DEF NotBeyond
  <2>5. NotBeyond(2 * F * F, 64 * 32) /\ 2 * F * F \in Int
    BY <2>1, <2>2, <2>4, Zenon
  <2>6. 0 <= 2 * F * F
    BY <1>4
  <2> QED BY <2>3, <2>5, <2>6, SMT DEF NotBeyond, M
<1> DEFINE s == 2 * F * B
           v == 2 * F * F
<1> HIDE DEF p, q, s, v
<1>9. w >= 1 /\ w \in Int
  BY <1>4
<1>10. (-(q - v)) < s /\ s < (q - v)
  <2>1. s \in Int /\ NotBeyond(s, 64 * w)
    BY <1>8, Zenon DEF s
  <2>2. v \in Int /\ v <= M /\ 0 <= v
    BY <1>8, Zenon DEF v
  <2>3. 64 * w + M < q /\ M \in Nat
    BY <1>7, <1>9, SMT DEF K, M
  <2> QED BY <1>7, <1>9, <2>1, <2>2, <2>3, SMT DEF NotBeyond
<1>11. B + p \in (-(q - F))..(q - F)
  BY <1>3, <1>4, <1>6, <1>7, <1>9, SMT DEF NotBeyond, K
<1>12. Weight[10] = q /\ Prime = q - F
  BY <1>5 DEF q
<1> QED BY <1>10, <1>11, <1>12, Zenon DEF Writable, p, s, v, w, R, F, B, x

-----------------------------------------------------------------------------
\* Elements are small and are written right, through any calls.

(* Each element's limbs are as small as the sums since its last product say,
   and no element is more than two sums deep. *)
FieldSizes ==
  /\ DOMAIN sums = Elements
  /\ \A x \in Elements : sums[x] \in 0..2 /\ Sized(fe[x], sums[x])

(* Elements that are small and hold their numbers are written right. *)
LEMMA FieldInvElements ==
  ASSUME RoomForCarries
  PROVE  FieldIInv /\ FieldSizes => ElementsRight
<1> SUFFICES ASSUME FieldIInv, FieldSizes, NEW x \in Elements
             PROVE  /\ sums[x] = 0 => Writable(fe[x])
                    /\ Writable(fe[x]) =>
                         /\ fe_tobytes(fe[x]) = meant[x]
                         /\ \A i \in Limbs : Digits(fe[x])[i] \in 0..(Radix(i) - 1)
                         /\ fe_isnegative(fe[x]) = meant[x] % 2
                         /\ fe_isnonzero(fe[x]) = (meant[x] # 0)
  BY Zenon DEF ElementsRight
<1> DEFINE h == fe[x]
           n == meant[x]
<1>1. Is(h, n) /\ n \in 0..(Prime - 1) /\ Sized(h, sums[x])
  BY Zenon DEF FieldIInv, FieldSizes
<1> HIDE DEF h, n
<1>2. sums[x] = 0 => Writable(h)
  BY <1>1, SizedWritable, Zenon
<1>3. Writable(h) => /\ fe_tobytes(h) = n
                     /\ \A i \in Limbs : Digits(h)[i] \in 0..(Radix(i) - 1)
                     /\ fe_isnegative(h) = n % 2
                     /\ fe_isnonzero(h) = (n # 0)
  BY <1>1, WrittenRight, Zenon
<1> QED BY <1>2, <1>3, Zenon DEF h, n

(* Limbs that were read are small. *)
LEMMA FieldInitSizes ==
  ASSUME RoomForCarries
  PROVE  FieldInit => FieldSizes
<1> SUFFICES ASSUME FieldInit PROVE FieldSizes
  OBVIOUS
<1>1. PICK v \in [Elements -> InputValues] : fe = [x \in Elements |-> fe_frombytes(v[x])]
  BY Zenon DEF FieldInit
<1>2. sums = [x \in Elements |-> 0]
  BY DEF FieldInit
<1>3. ASSUME NEW x \in Elements
      PROVE  Sized(fe[x], 0)
  <2>1. v[x] \in Nat
    BY FieldAssumption
  <2>2. fe[x] = fe_frombytes(v[x])
    BY <1>1, Zenon
  <2> QED BY <2>1, <2>2, ReadSized, Zenon
<1>4. \A x \in Elements : sums[x] = 0
  BY <1>2, Zenon
<1>5. 0 \in 0..2
  OBVIOUS
<1>6. DOMAIN sums = Elements
  BY <1>2
<1> QED BY <1>3, <1>4, <1>5, <1>6, Zenon DEF FieldSizes

(* Storing a result as "f" that is as small as is noted. *)
LEMMA BecomesSized ==
  ASSUME FieldIInv, FieldSizes, NEW h, NEW n, NEW depth \in 0..2, Sized(h, depth),
         Becomes(h, n, depth)
  PROVE  FieldSizes'
<1>1. "f" \in Elements
  BY DEF Elements
<1>2. /\ DOMAIN sums' = Elements
      /\ fe'["f"] = h /\ sums'["f"] = depth
      /\ \A x \in Elements : x # "f" => fe'[x] = fe[x] /\ sums'[x] = sums[x]
  BY <1>1 DEF Becomes, FieldIInv, FieldSizes
<1>3. ASSUME NEW x \in Elements
      PROVE  sums'[x] \in 0..2 /\ Sized(fe'[x], sums'[x])
  BY <1>2, Zenon DEF FieldSizes
<1>4. FieldSizes' = (/\ DOMAIN sums' = Elements
                     /\ \A x \in Elements : sums'[x] \in 0..2 /\ Sized(fe'[x], sums'[x]))
  BY DEF FieldSizes, Sized, NotBeyond, Tens, Limbs, Radix, Elements
<1> QED BY <1>2, <1>3, <1>4

(* Exchanging the elements, or not. *)
LEMMA SwapSized ==
  ASSUME FieldIInv, FieldSizes, NEW b \in 0..1, fe' = Swap(fe, b), sums' = Swap(sums, b)
  PROVE  FieldSizes'
<1> DEFINE other(x) == CHOOSE y \in Elements : y # x
<1>1. \A x \in Elements : other(x) \in Elements
  BY DEF Elements
<1>2. ASSUME NEW x \in Elements
      PROVE  \E y \in Elements : fe'[x] = fe[y] /\ sums'[x] = sums[y]
  <2>1. /\ fe'[x] = IF b = 1 THEN fe[other(x)] ELSE fe[x]
        /\ sums'[x] = IF b = 1 THEN sums[other(x)] ELSE sums[x]
    BY Zenon DEF Swap
  <2> HIDE DEF other
  <2>2. CASE b = 1
    BY <1>1, <2>1, <2>2
  <2>3. CASE b # 1
    BY <2>1, <2>3
  <2> QED BY <2>2, <2>3
<1>3. DOMAIN sums' = Elements
  BY DEF Swap
<1>4. \A x \in Elements : sums'[x] \in 0..2 /\ Sized(fe'[x], sums'[x])
  BY <1>2, Zenon DEF FieldSizes
<1>5. FieldSizes' = (/\ DOMAIN sums' = Elements
                     /\ \A x \in Elements : sums'[x] \in 0..2 /\ Sized(fe'[x], sums'[x]))
  BY DEF FieldSizes, Sized, NotBeyond, Tens, Limbs, Radix, Elements
<1> QED BY <1>3, <1>4, <1>5

(* Every call leaves limbs as small as it notes. *)
LEMMA FieldStepSizes ==
  ASSUME RoomForCarries, FieldIInv, FieldSizes, [FieldNext]_fieldVars
  PROVE  FieldSizes'
<1> DEFINE f == fe["f"]
           g == fe["g"]
           mf == meant["f"]
           mg == meant["g"]
           d == sums["f"]
           e == sums["g"]
           deeper == d + e + 1
<1>1. d \in 0..2 /\ e \in 0..2 /\ Sized(f, d) /\ Sized(g, e)
  <2>1. "f" \in Elements /\ "g" \in Elements
    BY DEF Elements
  <2> QED BY <2>1, Zenon DEF FieldSizes
<1>2. CASE UNCHANGED fieldVars
  <2>1. fe' = fe /\ sums' = sums
    BY <1>2 DEF fieldVars
  <2> QED BY <2>1 DEF FieldSizes
<1>3. CASE FieldNext
  <2>1. \/ deeper <= 2 /\ Becomes(fe_add(f, g), mf + mg, deeper)
        \/ deeper <= 2 /\ Becomes(fe_sub(f, g), mf - mg, deeper)
        \/ Becomes(fe_neg(f), -mf, d)
        \/ Becomes(fe_mul(f, g), TimesMod(mf, mg), 0)
        \/ Becomes(fe_sq(f), TimesMod(mf, mf), 0)
        \/ Becomes(fe_sq2(f), 2 * TimesMod(mf, mf), 0)
        \/ d <= 1 /\ Becomes(fe_mul121666(f), TimesMod(mf, CURVE), 1)
        \/ \E b \in 0..1 :
             \/ Becomes(fe_cmov(f, g, b), IF b = 1 THEN mg ELSE mf,
                        sums[IF b = 1 THEN "g" ELSE "f"])
             \/ fe' = Swap(fe, b) /\ sums' = Swap(sums, b)
        \/ Becomes(fe_0, 0, 0) \/ Becomes(fe_1, 1, 0)
    BY <1>3, Zenon DEF FieldNext
  <2> HIDE DEF f, g, mf, mg
  <2>2. \A h, n : \A k \in 0..2 : Sized(h, k) /\ Becomes(h, n, k) => FieldSizes'
    BY BecomesSized, Zenon
  <2>3. Sized(f, 2) /\ Sized(g, 2) /\ (d <= 1 => Sized(f, 1))
    <3>1. d \in Nat /\ e \in Nat /\ 1 \in Nat /\ 2 \in Nat /\ d <= 2 /\ e <= 2
      BY <1>1
    <3> HIDE DEF d, e
    <3> QED BY <1>1, <3>1, SizedDeeper, Zenon
  <2>4. /\ Sized(fe_mul(f, g), 0) /\ Sized(fe_sq(f), 0) /\ Sized(fe_sq2(f), 0)
        /\ Sized(fe_0, 0) /\ Sized(fe_1, 0)
    BY <2>3, ProductsSized, ConstantsSized, Zenon
  <2>5. /\ Sized(fe_add(f, g), deeper) /\ Sized(fe_sub(f, g), deeper)
        /\ Sized(fe_neg(f), d)
    <3>1. d \in Nat /\ e \in Nat
      BY <1>1
    <3> HIDE DEF d, e
    <3> QED BY <1>1, <3>1, SumsSized, Zenon
  <2>6. deeper <= 2 => deeper \in 0..2
    BY <1>1
  <2>7. 0 \in 0..2 /\ 1 \in 0..2
    OBVIOUS
  <2>8. d <= 1 => Sized(fe_mul121666(f), 1)
    BY <2>3, SmallProductSized, Zenon
  <2>9. ASSUME NEW b \in 0..1,
               Becomes(fe_cmov(f, g, b), IF b = 1 THEN mg ELSE mf,
                       sums[IF b = 1 THEN "g" ELSE "f"])
        PROVE  FieldSizes'
    <3>1. CASE b = 1
      <4>1. Becomes(g, mg, e)
        BY <2>9, <3>1, Zenon DEF fe_cmov
      <4> QED BY <1>1, <2>2, <4>1, Zenon
    <3>2. CASE b # 1
      <4>1. Becomes(f, mf, d)
        BY <2>9, <3>2, Zenon DEF fe_cmov
      <4> QED BY <1>1, <2>2, <4>1, Zenon
    <3> QED BY <3>1, <3>2, Zenon
  <2>10. ASSUME NEW b \in 0..1, fe' = Swap(fe, b), sums' = Swap(sums, b)
         PROVE  FieldSizes'
    BY <2>10, SwapSized, Zenon
  <2> HIDE DEF d, e, deeper
  <2> QED BY <1>1, <2>1, <2>2, <2>4, <2>5, <2>6, <2>7, <2>8, <2>9, <2>10, Zenon
<1> QED BY <1>2, <1>3

(* fe.c: with the words' room, what comes from a product may be written, and
   is written as the one number below p that it is meant to be. *)
THEOREM ElementsAreWrittenRight ==
  RoomForCarries => (FieldSpec => []ElementsRight)
<1> SUFFICES ASSUME RoomForCarries PROVE FieldSpec => []ElementsRight
  OBVIOUS
<1>1. FieldInit => FieldIInv /\ FieldSizes
  BY FieldInitRight, FieldInitSizes
<1>2. FieldIInv /\ FieldSizes /\ [FieldNext]_fieldVars => (FieldIInv /\ FieldSizes)'
  BY FieldStepRight, FieldStepSizes
<1>3. FieldIInv /\ FieldSizes => ElementsRight
  BY FieldInvElements
<1> QED BY <1>1, <1>2, <1>3, PTL DEF FieldSpec

-----------------------------------------------------------------------------
\* Words are wide enough.

\* The literals of fe.c.
CodeLiterals ==
  /\ OddRadix = 33554432 /\ FOLD = 19 /\ CURVE = 121666
  /\ LoadShift[1] = 64 /\ LoadShift[2] = 32 /\ LoadShift[3] = 8
  /\ LoadShift[4] = 4 /\ LoadShift[5] = 1 /\ LoadShift[6] = 128
  /\ LoadShift[7] = 32 /\ LoadShift[8] = 16 /\ LoadShift[9] = 4

(* They leave the room that the theorems on the field ask for. *)
LEMMA FieldHasRoom == CodeLiterals => RoomForCarries
<1> SUFFICES ASSUME CodeLiterals PROVE RoomForCarries
  OBVIOUS
<1>1. OddRadix = 33554432 /\ FOLD = 19 /\ CURVE = 121666
  BY SMT DEF CodeLiterals
<1>2. \A i \in 0..10 : LoadShift[i] \in {1, 4, 8, 16, 32, 64, 128}
  <2>1. \A i \in 0..10 : \/ i = 0 \/ i = 1 \/ i = 2 \/ i = 3 \/ i = 4 \/ i = 5
                         \/ i = 6 \/ i = 7 \/ i = 8 \/ i = 9 \/ i = 10
    OBVIOUS
  <2>2. LoadShift[0] = 1 /\ LoadShift[10] = 1
    BY LoadAssumption
  <2> QED BY <2>1, <2>2, SMT DEF CodeLiterals
<1>3. RoomForLoads
  <2> SUFFICES ASSUME NEW i \in 0..10 PROVE 40 * LoadShift[i] <= OddRadix
    BY DEF RoomForLoads
  <2>1. LoadShift[i] \in Nat /\ LoadShift[i] <= 128
    BY <1>2
  <2> QED BY <1>1, <2>1, SMT
<1> QED BY <1>1, <1>3, SMT DEF RoomForCarries

\* What int32_t and int64_t hold: 2^31 is 2^15 * 2^16, 2^63 is 2^13 * 2^50.
Word32(x) == -(32768 * 65536) <= x /\ x < 32768 * 65536
Word64(x) == -(8192 * (33554432 * 33554432)) <= x /\ x < 8192 * (33554432 * 33554432)

\* A limb, and what fe_mul, fe_sq and fe_tobytes multiply it by before words of
\* 64 bits are used.
LimbFits(h) ==
  /\ \A i \in Limbs : /\ Word32(h[i]) /\ Word32(2 * h[i]) /\ Word32(FOLD * h[i])
                      /\ i % 2 = 1 => Word32((2 * FOLD) * h[i])
                      /\ Word64(CURVE * h[i])
  /\ Word32(FOLD * h[9] + (OddRadix \div 2))

\* The terms of a product: in a word there is room for twenty-two of them, that
\* is for ten in whatever order, for twice their sum, and for what is carried.
TermsFit(f, g) == \A i, j \in Limbs : Word64(22 * Cross(f, g, i, j))

\* No word is too narrow for any operation on the elements there are.
WordsFit == \A x, y \in Elements : LimbFits(fe[x]) /\ TermsFit(fe[x], fe[y])

(* Limbs of three summands fit. *)
LEMMA LimbsFit ==
  ASSUME CodeLiterals, NEW h, Sized(h, 2)
  PROVE  LimbFits(h)
<1> DEFINE a == 33554432
<1>1. OddRadix = a /\ FOLD = 19 /\ CURVE = 121666
  BY SMT DEF CodeLiterals
<1>2. ASSUME NEW i \in Limbs
      PROVE  /\ h[i] \in Int /\ NotBeyond(20 * h[i], 66 * a)
             /\ i % 2 = 1 => NotBeyond(20 * h[i], 33 * a)
  <2> DEFINE x == h[i]
             r == Radix(i)
  <2>1. x \in Int /\ NotBeyond(20 * x, 11 * ((2 + 1) * r))
    BY SMT DEF Sized, Tens
  <2>2. (r = a \/ r = 2 * a) /\ (i % 2 = 1 => r = a)
    BY <1>1, SMT DEF Radix
  <2> HIDE DEF x, r
  <2>3. NotBeyond(20 * x, 66 * a) /\ (i % 2 = 1 => NotBeyond(20 * x, 33 * a))
    BY <2>1, <2>2, SMT DEF NotBeyond
  <2> QED BY <2>1, <2>3, SMT DEF x
<1>3. ASSUME NEW i \in Limbs
      PROVE  /\ Word32(h[i]) /\ Word32(2 * h[i]) /\ Word32(FOLD * h[i])
             /\ i % 2 = 1 => Word32((2 * FOLD) * h[i])
             /\ Word64(CURVE * h[i])
  <2> DEFINE x == h[i]
  <2>1. x \in Int /\ NotBeyond(20 * x, 66 * a) /\ (i % 2 = 1 => NotBeyond(20 * x, 33 * a))
    BY <1>2, SMT
  <2> HIDE DEF x
  <2>2. Word32(x) /\ Word32(2 * x) /\ Word32(19 * x)
    BY <2>1, SMT DEF NotBeyond, Word32
  <2>4. Word64(121666 * x)
    <3> DEFINE n == 33554432 * 33554432
    <3>1. n \in Int /\ n >= 8000000 * 33554432
      BY SMT
    <3> HIDE DEF n
    <3>2. -(8192 * n) <= 121666 * x /\ 121666 * x < 8192 * n
      BY <2>1, <3>1, SMT DEF NotBeyond
    <3> QED BY <3>2, SMT DEF n, Word64
  <2>3. i % 2 = 1 => Word32((2 * 19) * x)
    BY <2>1, SMT DEF NotBeyond, Word32
  <2> QED BY <1>1, <2>2, <2>3, <2>4, SMT DEF x
<1>4. Word32(FOLD * h[9] + (OddRadix \div 2))
  <2> DEFINE x == h[9]
  <2>1. x \in Int /\ NotBeyond(20 * x, 33 * a)
    <3>1. 9 \in Limbs /\ 9 % 2 = 1
      BY SMT DEF Limbs
    <3> QED BY <1>2, <3>1, SMT
  <2> HIDE DEF x
  <2>2. Word32(19 * x + (33554432 \div 2))
    BY <2>1, SMT DEF NotBeyond, Word32
  <2> QED BY <1>1, <2>2, SMT DEF x
<1> QED BY <1>3, <1>4, SMT DEF LimbFits

(* So do the terms of their products. *)
LEMMA ProductTermsFit ==
  ASSUME CodeLiterals, NEW f, NEW g, Sized(f, 2), Sized(g, 2)
  PROVE  TermsFit(f, g)
<1>1. RoomForCarries /\ OddRadix = 33554432
  BY FieldHasRoom, SMT DEF CodeLiterals
<1>2. ASSUME NEW i \in Limbs, NEW j \in Limbs
      PROVE  Word64(22 * Cross(f, g, i, j))
  <2> DEFINE x == Cross(f, g, i, j)
  <2>1. x \in Int /\ NotBeyond(2 * x, 697 * (33554432 * 33554432))
    BY <1>1, CrossSized, SMT
  <2> HIDE DEF x
  <2>2. Word64(22 * x)
    <3> DEFINE n == 33554432 * 33554432
    <3>1. n \in Int /\ n > 0 /\ NotBeyond(2 * x, 697 * n)
      BY <2>1, SMT
    <3> HIDE DEF n
    <3>2. -(8192 * n) <= 22 * x /\ 22 * x < 8192 * n
      BY <2>1, <3>1, SMT DEF NotBeyond
    <3> QED BY <3>2, SMT DEF n, Word64
  <2> QED BY <2>2, SMT DEF x
<1> QED BY <1>2, SMT DEF TermsFit

(* No word of fe.c overflows in any sequence of calls that its comments allow:
   not in a sum, not in what fe_mul, fe_sq and fe_sq2 multiply a limb by
   beforehand, nor in the ten terms that they add (fe.c). *)
THEOREM WordsAreWideEnough == CodeLiterals => (FieldSpec => []WordsFit)
<1> SUFFICES ASSUME CodeLiterals PROVE FieldSpec => []WordsFit
  OBVIOUS
<1>1. RoomForCarries
  BY FieldHasRoom
<1>2. FieldInit => FieldIInv /\ FieldSizes
  BY <1>1, FieldInitRight, FieldInitSizes
<1>3. FieldIInv /\ FieldSizes /\ [FieldNext]_fieldVars => (FieldIInv /\ FieldSizes)'
  BY <1>1, FieldStepRight, FieldStepSizes
<1>4. FieldSizes => WordsFit
  <2> SUFFICES ASSUME FieldSizes, NEW x \in Elements, NEW y \in Elements
               PROVE  LimbFits(fe[x]) /\ TermsFit(fe[x], fe[y])
    BY Zenon DEF WordsFit
  <2>1. ASSUME NEW z \in Elements PROVE Sized(fe[z], 2)
    <3>1. sums[z] \in 0..2 /\ Sized(fe[z], sums[z])
      BY Zenon DEF FieldSizes
    <3> DEFINE d == sums[z]
               h == fe[z]
    <3>2. d \in Nat /\ 2 \in Nat /\ d <= 2 /\ Sized(h, d)
      BY <3>1
    <3> HIDE DEF d, h
    <3>3. Sized(h, 2)
      BY <3>2, SizedDeeper
    <3> QED BY <3>3, Zenon DEF h
  <2> QED BY <2>1, LimbsFit, ProductTermsFit
<1> QED BY <1>2, <1>3, <1>4, PTL DEF FieldSpec

-----------------------------------------------------------------------------
\* Rows of digits of sc.c, and the numbers that they are worth.

(* What starts at 0 and goes on from each to the next holds of all. *)
LEMMA Upwards ==
  ASSUME NEW n \in Nat, NEW S, 0 \in S, \A i \in 0..(n - 1) : i \in S => i + 1 \in S
  PROVE  \A i \in 0..n : i \in S
<1> DEFINE T == {i \in 0..n : i \notin S}
<1> SUFFICES ASSUME T # {} PROVE FALSE
  OBVIOUS
<1>1. PICK i \in T : \A j \in T : i <= j
  <2>1. T \subseteq Nat
    OBVIOUS
  <2> HIDE DEF T
  <2> QED BY <2>1, LeastOf
<1>2. i \in 0..n /\ i \notin S /\ i # 0
  BY <1>1
<1>3. i - 1 \in 0..(n - 1) /\ i - 1 \in 0..n /\ ~(i <= i - 1) /\ (i - 1) + 1 = i
  BY <1>2
<1>4. i - 1 \in S
  <2>1. i - 1 \in T => i <= i - 1
    BY <1>1, Zenon
  <2>2. i - 1 \notin T
    BY <1>3, <2>1, Zenon
  <2> QED BY <1>3, <2>2
<1> QED BY <1>2, <1>3, <1>4, Zenon

(* The radix and what is folded. *)
LEMMA ScalarConstants ==
  /\ ScalarRadix \in Nat \ {0} /\ ScalarRadix \in Int /\ ScalarRadix >= 2
  /\ \A k \in 1..6 : Excess[k] \in Int
  BY ScalarAssumption

(* Places of rows, one more and one less. *)
LEMMA NextPlaces ==
  /\ \A i \in 1..24 : i - 1 \in Places /\ i - 1 \in 0..24 /\ i \in 0..24 /\ (i - 1) + 1 = i
  /\ \A i \in Places : /\ i + 1 \in 1..24 /\ i \in 0..24 /\ i + 1 \in 0..24
                       /\ (i + 1) - 1 = i /\ i + 1 # 0
                       /\ i \in 0..(24 - 1) /\ i \in Int
  /\ \A i \in 0..(24 - 1) : i \in Places
  /\ \A i \in 0..24 : i # 0 => i \in 1..24
  /\ 0 \in Int /\ 1 \in Int /\ 24 \in Nat /\ 24 \in 0..24 /\ 0 \in 0..24
  BY DEF Places

\* The weights of the digits of rows.
Scale[i \in 0..24] == IF i = 0 THEN 1 ELSE ScalarRadix * Scale[i - 1]

(* They are powers of the radix. *)
LEMMA Scales ==
  /\ Scale[0] = 1
  /\ \A i \in Places : Scale[i + 1] = ScalarRadix * Scale[i]
  /\ \A i \in 0..24 : Scale[i] \in Nat \ {0}
<1> DEFINE W(f) == f = [i \in 0..24 |-> IF i = 0 THEN 1 ELSE ScalarRadix * f[i - 1]]
           G == [i \in 1..24 |-> [x \in Int |-> ScalarRadix * x]]
<1>1. \A x \in Int : ScalarRadix * x \in Int
  BY ScalarConstants
<1>2. G \in [1..24 -> [Int -> Int]]
  BY <1>1
<1>3. \E f : W(f)
  <2>1. PICK f \in [0..24 -> Int] :
          f[0] = 1 /\ \A i \in 1..24 : f[i] = G[i][f[i - 1]]
    <3>1. 24 \in Nat /\ 1 \in Int
      OBVIOUS
    <3> HIDE DEF G
    <3> QED BY <1>2, <3>1, StairsExist
  <2>2. \A i \in 1..24 : f[i] = ScalarRadix * f[i - 1]
    <3> TAKE i \in 1..24
    <3>1. f[i - 1] \in Int
      BY NextPlaces
    <3>2. f[i] = G[i][f[i - 1]]
      BY <2>1
    <3> QED BY <3>1, <3>2, Zenon
  <2>3. \A i \in 0..24 : f[i] = IF i = 0 THEN 1 ELSE ScalarRadix * f[i - 1]
    BY <2>1, <2>2, NextPlaces, Zenon
  <2>4. f = [i \in 0..24 |-> f[i]]
    OBVIOUS
  <2>5. W(f)
    BY <2>3, <2>4, Zenon
  <2> QED BY <2>5
<1>4. W(Scale)
  BY <1>3, Zenon DEF Scale
<1>5. \A i \in 0..24 : Scale[i] = IF i = 0 THEN 1 ELSE ScalarRadix * Scale[i - 1]
  BY <1>4, Zenon
<1> HIDE DEF W, G
<1>6. Scale[0] = 1
  BY <1>5
<1>7. \A i \in Places : Scale[i + 1] = ScalarRadix * Scale[i]
  BY <1>5, NextPlaces, Zenon
<1>8. \A i \in 0..24 : Scale[i] \in Nat \ {0}
  <2> DEFINE S == {i \in 0..24 : Scale[i] \in Nat \ {0}}
  <2>1. 0 \in S
    BY <1>6
  <2>2. \A i \in 0..(24 - 1) : i \in S => i + 1 \in S
    <3> TAKE i \in 0..(24 - 1)
    <3>1. i + 1 \in 0..24 /\ Scale[i + 1] = ScalarRadix * Scale[i]
      BY <1>7, NextPlaces
    <3>2. \A x, y \in Nat \ {0} : x * y \in Nat \ {0}
      OBVIOUS
    <3>3. Scale[i] \in Nat \ {0} => Scale[i + 1] \in Nat \ {0}
      BY <3>1, <3>2, ScalarConstants, Zenon
    <3> QED BY <3>1, <3>3, Zenon
  <2> HIDE DEF S
  <2>3. \A i \in 0..24 : i \in S
    BY <2>1, <2>2, NextPlaces, Upwards, Zenon
  <2> QED BY <2>3 DEF S
<1> QED BY <1>6, <1>7, <1>8

\* Rows of 24 digits, of either sign and any size.
Rows == [Places -> Int]

\* u adds up a row from the lowest digit.
Adds(s, u) ==
  /\ u \in [0..24 -> Int] /\ u[0] = 0
  /\ \A i \in Places : u[i + 1] = u[i] + s[i] * Scale[i]

\* The numbers of a row's lowest digits.
Lowest(s) == CHOOSE u : Adds(s, u)

\* The number of a row.
Worth(s) == Lowest(s)[24]

(* Digits and weights are integers. *)
LEMMA RowType ==
  ASSUME NEW s \in Rows
  PROVE  \A i \in Places : s[i] \in Int /\ Scale[i] \in Int /\ Scale[i] \in Nat \ {0}
<1>1. \A i \in Places : i \in 0..24
  BY DEF Places
<1>2. \A i \in Places : Scale[i] \in Nat \ {0}
  BY <1>1, Scales, Zenon
<1>3. \A n \in Nat \ {0} : n \in Int
  OBVIOUS
<1>4. \A i \in Places : s[i] \in Int
  BY DEF Rows
<1> QED BY <1>2, <1>3, <1>4, Zenon

(* Every row has these numbers. *)
LEMMA RowsAdd ==
  ASSUME NEW s \in Rows
  PROVE  Adds(s, Lowest(s)) /\ Worth(s) \in Int
<1> DEFINE G == [i \in 1..24 |-> [x \in Int |-> x + s[i - 1] * Scale[i - 1]]]
<1>1. \A i \in Places : s[i] * Scale[i] \in Int
  <2> TAKE i \in Places
  <2>1. s[i] \in Int /\ Scale[i] \in Int
    BY RowType
  <2> QED BY <2>1
<1>2. G \in [1..24 -> [Int -> Int]]
  <2>1. \A i \in 1..24, x \in Int : x + s[i - 1] * Scale[i - 1] \in Int
    <3> TAKE i \in 1..24, x \in Int
    <3> DEFINE y == s[i - 1] * Scale[i - 1]
    <3>1. y \in Int
      BY <1>1, NextPlaces
    <3> HIDE DEF y
    <3>2. x + y \in Int
      BY <3>1
    <3> QED BY <3>2 DEF y
  <2> QED BY <2>1
<1>3. PICK f \in [0..24 -> Int] : f[0] = 0 /\ \A i \in 1..24 : f[i] = G[i][f[i - 1]]
  <2>1. 24 \in Nat /\ 0 \in Int
    OBVIOUS
  <2> HIDE DEF G
  <2> QED BY <1>2, <2>1, StairsExist
<1>4. \A i \in Places : f[i + 1] = f[i] + s[i] * Scale[i]
  <2> TAKE i \in Places
  <2>1. f[i] \in Int /\ i + 1 \in 1..24 /\ (i + 1) - 1 = i
    BY NextPlaces
  <2>2. f[i + 1] = G[i + 1][f[(i + 1) - 1]]
    BY <1>3, <2>1
  <2> QED BY <2>1, <2>2, Zenon
<1>5. Adds(s, f)
  BY <1>3, <1>4, Zenon DEF Adds
<1>6. Adds(s, Lowest(s))
  BY <1>5, Zenon DEF Lowest
<1>7. Worth(s) \in Int
  BY <1>6, NextPlaces DEF Worth, Adds
<1> QED BY <1>6, <1>7

(* There is one way to add a row up. *)
LEMMA AddsAlone ==
  ASSUME NEW s \in Rows, NEW u, Adds(s, u), NEW i \in 0..24
  PROVE  u[i] = Lowest(s)[i]
<1> DEFINE v == Lowest(s)
           S == {k \in 0..24 : u[k] = v[k]}
<1>1. Adds(s, v)
  BY RowsAdd, Zenon
<1> HIDE DEF v
<1>2. 0 \in S
  BY <1>1 DEF Adds
<1>3. \A k \in 0..(24 - 1) : k \in S => k + 1 \in S
  <2> TAKE k \in 0..(24 - 1)
  <2>1. k \in Places /\ k + 1 \in 0..24
    BY NextPlaces
  <2>2. u[k + 1] = u[k] + s[k] * Scale[k] /\ v[k + 1] = v[k] + s[k] * Scale[k]
    BY <1>1, <2>1, Zenon DEF Adds
  <2> QED BY <2>1, <2>2, Zenon
<1> HIDE DEF S
<1>4. \A k \in 0..24 : k \in S
  BY <1>2, <1>3, NextPlaces, Upwards, Zenon
<1> QED BY <1>4 DEF S, v

(* Another digit at one place. *)
LEMMA PutWorth ==
  ASSUME NEW s \in Rows, NEW i \in Places, NEW x \in Int
  PROVE  /\ [s EXCEPT ![i] = x] \in Rows
         /\ Worth([s EXCEPT ![i] = x]) = Worth(s) + (x - s[i]) * Scale[i]
<1> DEFINE g == [s EXCEPT ![i] = x]
           d == (x - s[i]) * Scale[i]
           v == Lowest(s)
           u == [k \in 0..24 |-> IF k <= i THEN v[k] ELSE v[k] + d]
<1>1. g \in Rows /\ g[i] = x /\ \A k \in Places : k # i => g[k] = s[k]
  BY DEF Rows
<1>2. Adds(s, v)
  BY RowsAdd, Zenon
<1>3. s[i] \in Int /\ Scale[i] \in Int /\ d \in Int
  <2>1. s[i] \in Int /\ Scale[i] \in Int
    BY RowType
  <2> QED BY <2>1
<1>4. x * Scale[i] = s[i] * Scale[i] + d /\ s[i] * Scale[i] \in Int
  BY <1>3
<1>5. \A k \in 0..24 : v[k] \in Int
  BY <1>2, Zenon DEF Adds
<1> HIDE DEF d, v, g
<1>6. Adds(g, u)
  <2>1. u \in [0..24 -> Int]
    BY <1>3, <1>5
  <2>2. u[0] = 0
    BY <1>2 DEF Adds, Places
  <2>3. ASSUME NEW k \in Places
        PROVE  u[k + 1] = u[k] + g[k] * Scale[k]
    <3>1. k \in 0..24 /\ k + 1 \in 0..24 /\ k \in Int /\ i \in Int
      BY NextPlaces
    <3>2. v[k + 1] = v[k] + s[k] * Scale[k]
      BY <1>2, Zenon DEF Adds
    <3> DEFINE y == s[k] * Scale[k]
    <3>3. y \in Int /\ v[k] \in Int
      <4>1. s[k] \in Int /\ Scale[k] \in Int
        BY RowType
      <4> QED BY <1>5, <3>1, <4>1
    <3>4. CASE k = i
      <4>1. u[k] = v[k] /\ u[k + 1] = v[k + 1] + d
        BY <3>1, <3>4
      <4>2. g[k] * Scale[k] = y + d
        BY <1>1, <1>4, <3>4, Zenon DEF y
      <4>3. v[k + 1] = v[k] + y
        BY <3>2
      <4> HIDE DEF u, y
      <4>4. (v[k] + y) + d = v[k] + (y + d)
        BY <1>3, <3>3
      <4> QED BY <4>1, <4>2, <4>3, <4>4, Zenon
    <3>5. CASE k < i
      <4>1. u[k] = v[k] /\ u[k + 1] = v[k + 1] /\ k # i
        BY <3>1, <3>5
      <4> HIDE DEF u
      <4> QED BY <1>1, <3>2, <4>1, Zenon
    <3>6. CASE k > i
      <4>1. u[k] = v[k] + d /\ u[k + 1] = v[k + 1] + d /\ k # i
        BY <3>1, <3>6
      <4>2. g[k] = s[k] /\ v[k + 1] = v[k] + y
        BY <1>1, <3>2, <4>1, Zenon
      <4> HIDE DEF u
      <4>3. (v[k] + y) + d = (v[k] + d) + y
        <5> HIDE DEF y
        <5> QED BY <1>3, <3>3
      <4> QED BY <4>1, <4>2, <4>3, Zenon
    <3> QED BY <3>1, <3>4, <3>5, <3>6
  <2> HIDE DEF u
  <2> QED BY <2>1, <2>2, <2>3 DEF Adds
<1>7. u[24] = Lowest(g)[24]
  <2> HIDE DEF u
  <2>1. 24 \in 0..24
    OBVIOUS
  <2> QED BY <1>1, <1>6, <2>1, AddsAlone
<1>8. u[24] = v[24] + d
  BY DEF Places
<1> HIDE DEF u
<1>9. Worth(g) = Worth(s) + d
  BY <1>7, <1>8, Zenon DEF Worth, v
<1> QED BY <1>1, <1>9, Zenon DEF g, d

(* The powers of the radix are the lower of these weights. *)
LEMMA PowersAreScales ==
  \A i \in 0..12 : Power[i] = Scale[i]
<1> DEFINE W(f) == f = [i \in 0..12 |-> IF i = 0 THEN 1 ELSE ScalarRadix * f[i - 1]]
           g == [i \in 0..12 |-> Scale[i]]
<1>1. \A i \in 0..12 : i # 0 => /\ i - 1 \in 0..12 /\ i - 1 \in Places /\ (i - 1) + 1 = i
  BY DEF Places
<1>2. \A i \in 0..12 : Scale[i] = IF i = 0 THEN 1 ELSE ScalarRadix * g[i - 1]
  BY <1>1, Scales, Zenon
<1>3. \E f : W(f)
  <2>1. W(g)
    BY <1>2, Zenon
  <2> QED BY <2>1
<1>4. W(Power)
  BY <1>3, Zenon DEF Power
<1>5. \A i \in 0..12 : Power[i] = IF i = 0 THEN 1 ELSE ScalarRadix * Power[i - 1]
  BY <1>4, Zenon
<1> HIDE DEF W, g
<1> DEFINE S == {i \in 0..12 : Power[i] = Scale[i]}
<1>6. 0 \in S
  BY <1>5, Scales
<1>7. \A i \in 0..(12 - 1) : i \in S => i + 1 \in S
  <2> TAKE i \in 0..(12 - 1)
  <2>1. i + 1 \in 0..12 /\ i + 1 # 0 /\ (i + 1) - 1 = i /\ i \in Places
    BY DEF Places
  <2>2. Power[i + 1] = ScalarRadix * Power[i] /\ Scale[i + 1] = ScalarRadix * Scale[i]
    BY <1>5, <2>1, Scales, Zenon
  <2> QED BY <2>1, <2>2, Zenon
<1>8. \A i \in 0..12 : i \in S
  <2>1. 12 \in Nat
    OBVIOUS
  <2> HIDE DEF S
  <2> QED BY <1>6, <1>7, <2>1, Upwards
<1> QED BY <1>8

\* What 2^252 is modulo the order.
Folding ==
  Excess[1] * Scale[0] + Excess[2] * Scale[1] + Excess[3] * Scale[2]
    + Excess[4] * Scale[3] + Excess[5] * Scale[4] + Excess[6] * Scale[5]

(* The order is that much less. *)
LEMMA OrderIs ==
  Order = Scale[12] - Folding /\ Folding \in Int /\ Order \in Int /\ Scale[12] \in Nat \ {0}
<1> DEFINE e(i) == Excess[i] * Power[i - 1]
           W(f) == f = [i \in 0..6 |-> IF i = 0 THEN Power[12]
                                       ELSE f[i - 1] - Excess[i] * Power[i - 1]]
           G == [i \in 1..6 |-> [x \in Int |-> x - e(i)]]
<1>1. \A i \in 0..12 : Power[i] = Scale[i] /\ Power[i] \in Int /\ Scale[i] \in Nat \ {0}
  <2>1. \A i \in 0..12 : i \in 0..24
    OBVIOUS
  <2>2. \A i \in 0..12 : Scale[i] \in Nat \ {0}
    BY <2>1, Scales, Zenon
  <2>3. \A n \in Nat \ {0} : n \in Int
    OBVIOUS
  <2> QED BY <2>2, <2>3, PowersAreScales, Zenon
<1>2. \A i \in 1..6 : e(i) \in Int
  <2> TAKE i \in 1..6
  <2>1. i - 1 \in 0..12
    OBVIOUS
  <2>2. Power[i - 1] \in Int /\ Excess[i] \in Int
    BY <1>1, <2>1, ScalarConstants, Zenon
  <2> QED BY <2>2
<1> HIDE DEF e
<1>3. G \in [1..6 -> [Int -> Int]]
  BY <1>2
<1>4. PICK f \in [0..6 -> Int] :
        f[0] = Power[12] /\ \A i \in 1..6 : f[i] = G[i][f[i - 1]]
  <2>1. 6 \in Nat /\ Power[12] \in Int
    BY <1>1
  <2> HIDE DEF G
  <2> QED BY <1>3, <2>1, StairsExist
<1>5. \A i \in 1..6 : f[i] = f[i - 1] - e(i)
  <2> TAKE i \in 1..6
  <2>1. f[i - 1] \in Int
    OBVIOUS
  <2>2. f[i] = G[i][f[i - 1]]
    BY <1>4
  <2> QED BY <2>1, <2>2, Zenon
<1>6. \E u : W(u)
  <2>1. \A i \in 0..6 : i # 0 => i \in 1..6
    OBVIOUS
  <2>2. \A i \in 0..6 : f[i] = IF i = 0 THEN Power[12] ELSE f[i - 1] - Excess[i] * Power[i - 1]
    BY <1>4, <1>5, <2>1, Zenon DEF e
  <2>3. f = [i \in 0..6 |-> f[i]]
    OBVIOUS
  <2>4. W(f)
    BY <2>2, <2>3, Zenon
  <2> QED BY <2>4
<1> DEFINE u == CHOOSE u : W(u)
<1>7. W(u)
  BY <1>6, Zenon
<1>8. Order = u[6]
  BY Zenon DEF Order
<1> HIDE DEF u, G
<1>9. u[0] = Power[12] /\ \A i \in 1..6 : u[i] = u[i - 1] - e(i)
  <2>1. \A i \in 0..6 : u[i] = IF i = 0 THEN Power[12]
                               ELSE u[i - 1] - Excess[i] * Power[i - 1]
    BY <1>7, Zenon
  <2>2. 0 \in 0..6 /\ \A i \in 1..6 : i \in 0..6 /\ i # 0
    OBVIOUS
  <2> QED BY <2>1, <2>2, Zenon DEF e
<1> HIDE DEF W
<1>10. /\ e(1) = Excess[1] * Scale[0] /\ e(2) = Excess[2] * Scale[1]
       /\ e(3) = Excess[3] * Scale[2] /\ e(4) = Excess[4] * Scale[3]
       /\ e(5) = Excess[5] * Scale[4] /\ e(6) = Excess[6] * Scale[5]
  BY <1>1 DEF e
<1>11. /\ e(1) \in Int /\ e(2) \in Int /\ e(3) \in Int
       /\ e(4) \in Int /\ e(5) \in Int /\ e(6) \in Int
  BY <1>2
<1>12. /\ u[1] = u[0] - e(1) /\ u[2] = u[1] - e(2) /\ u[3] = u[2] - e(3)
       /\ u[4] = u[3] - e(4) /\ u[5] = u[4] - e(5) /\ u[6] = u[5] - e(6)
  BY <1>9
<1>13. u[0] = Scale[12] /\ Scale[12] \in Int /\ Scale[12] \in Nat \ {0}
  BY <1>1, <1>9
<1>14. Folding = e(1) + e(2) + e(3) + e(4) + e(5) + e(6)
  BY <1>10, Zenon DEF Folding
<1>15. Order = Scale[12] - Folding /\ Folding \in Int /\ Order \in Int
  BY <1>8, <1>11, <1>12, <1>13, <1>14
<1> QED BY <1>13, <1>15

(* Carries keep a row's number. *)
LEMMA CarryOfWorth ==
  ASSUME NEW s \in Rows, NEW i \in 0..22, NEW c \in Int
  PROVE  /\ CarryOf(s, i, c) \in Rows /\ Worth(CarryOf(s, i, c)) = Worth(s)
         /\ CarryOf(s, i, c)[i] = s[i] - c * ScalarRadix
         /\ CarryOf(s, i, c)[i + 1] = s[i + 1] + c
         /\ \A k \in Places : k # i /\ k # i + 1 => CarryOf(s, i, c)[k] = s[k]
<1> DEFINE x == s[i] - c * ScalarRadix
           y == s[i + 1] + c
           h == [s EXCEPT ![i] = x]
           g == [h EXCEPT ![i + 1] = y]
<1>1. i \in Places /\ i + 1 \in Places /\ i # i + 1 /\ i \in Int
  BY DEF Places
<1>2. x \in Int /\ y \in Int
  <2>1. s[i] \in Int /\ s[i + 1] \in Int
    BY <1>1, RowType, Zenon
  <2> QED BY <2>1, ScalarConstants
<1>3. CarryOf(s, i, c) = g
  <2>1. CarryOf(s, i, c) = [s EXCEPT ![i] = x, ![i + 1] = y]
    BY <1>1 DEF CarryOf, Rows
  <2> HIDE DEF x, y
  <2> QED BY <1>1, <2>1 DEF Rows
<1> HIDE DEF x, y
<1>4. h \in Rows /\ Worth(h) = Worth(s) + (x - s[i]) * Scale[i]
  BY <1>1, <1>2, PutWorth, Zenon
<1>5. h[i] = x /\ h[i + 1] = s[i + 1] /\ \A k \in Places : k # i => h[k] = s[k]
  BY <1>1 DEF Rows
<1> HIDE DEF h
<1>6. g \in Rows /\ Worth(g) = Worth(h) + (y - h[i + 1]) * Scale[i + 1]
  BY <1>1, <1>2, <1>4, PutWorth, Zenon
<1>7. g[i] = x /\ g[i + 1] = y /\ \A k \in Places : k # i /\ k # i + 1 => g[k] = s[k]
  BY <1>1, <1>4, <1>5 DEF Rows
<1> HIDE DEF g
<1>8. Worth(g) = Worth(s)
  <2> DEFINE a == Scale[i]
             r == ScalarRadix
  <2>1. /\ s[i] \in Int /\ s[i + 1] \in Int /\ a \in Int /\ r \in Int
        /\ Scale[i + 1] = r * a /\ Worth(s) \in Int
    BY <1>1, RowType, RowsAdd, Scales, ScalarConstants, Zenon
  <2>2. x - s[i] = -(c * r) /\ y - h[i + 1] = c
    <3>1. c * r \in Int
      BY <2>1
    <3> DEFINE z == c * r
    <3>2. x = s[i] - z
      BY DEF x
    <3> HIDE DEF z, r
    <3>3. x - s[i] = -z
      BY <2>1, <3>1, <3>2 DEF z
    <3>4. y - h[i + 1] = c
      BY <1>5, <2>1 DEF y
    <3> QED BY <3>3, <3>4 DEF z, r
  <2>3. Worth(g) = (Worth(s) + (-(c * r)) * a) + c * (r * a)
    BY <1>4, <1>6, <2>1, <2>2, Zenon
  <2> HIDE DEF a, r
  <2>4. (-(c * r)) * a = -(c * (r * a)) /\ c * (r * a) \in Int
    BY <2>1
  <2> DEFINE z == c * (r * a)
  <2>5. Worth(g) = (Worth(s) + (-z)) + z /\ z \in Int
    BY <2>3, <2>4
  <2> HIDE DEF z
  <2> QED BY <2>1, <2>5
<1> QED BY <1>3, <1>6, <1>7, <1>8 DEF x, y

-----------------------------------------------------------------------------
\* Folds keep the number modulo the order.

\* Digits wide enough for the folds: with 2^21 and the six digits of the code,
\* the last of which is negative, as the order is more than 2^252.
RoomForFolds ==
  /\ ScalarRadix % 2 = 0 /\ ScalarRadix >= 1048576
  /\ \A k \in 1..6 : NotBeyond(2 * Excess[k], ScalarRadix)
  /\ Excess[6] < 0

(* The order is little more than 2^252. *)
LEMMA OrderSize ==
  ASSUME RoomForFolds
  PROVE  /\ Order \in Nat \ {0} /\ Scale[12] <= Order /\ Order <= Scale[12] + Scale[6]
<1> DEFINE R == ScalarRadix
           p0 == Scale[0]
           p1 == Scale[1]
           p2 == Scale[2]
           p3 == Scale[3]
           p4 == Scale[4]
           p5 == Scale[5]
           p6 == Scale[6]
           e1 == Excess[1] * p0
           e2 == Excess[2] * p1
           e3 == Excess[3] * p2
           e4 == Excess[4] * p3
           e5 == Excess[5] * p4
           e6 == Excess[6] * p5
<1>1. R \in Nat /\ R >= 4
  BY ScalarConstants, SMT DEF RoomForFolds
<1>2. /\ p1 = R * p0 /\ p2 = R * p1 /\ p3 = R * p2 /\ p4 = R * p3 /\ p5 = R * p4
      /\ p6 = R * p5
  BY Scales DEF Places
<1>3. /\ p0 \in Nat \ {0} /\ p1 \in Nat \ {0} /\ p2 \in Nat \ {0} /\ p3 \in Nat \ {0}
      /\ p4 \in Nat \ {0} /\ p5 \in Nat \ {0} /\ p6 \in Nat \ {0}
  BY Scales
<1>4. /\ NotBeyond(2 * Excess[1], R) /\ NotBeyond(2 * Excess[2], R)
      /\ NotBeyond(2 * Excess[3], R) /\ NotBeyond(2 * Excess[4], R)
      /\ NotBeyond(2 * Excess[5], R) /\ NotBeyond(2 * Excess[6], R) /\ Excess[6] < 0
  <2>1. \A k \in 1..6 : NotBeyond(2 * Excess[k], R)
    BY SMT DEF RoomForFolds
  <2>2. Excess[6] < 0
    BY SMT DEF RoomForFolds
  <2> HIDE DEF R
  <2> QED BY <2>1, <2>2
<1>5. /\ Excess[1] \in Int /\ Excess[2] \in Int /\ Excess[3] \in Int
      /\ Excess[4] \in Int /\ Excess[5] \in Int /\ Excess[6] \in Int
  BY ScalarConstants
<1>6. ASSUME NEW p \in Nat \ {0}, NEW x \in Int, NotBeyond(2 * x, R)
      PROVE  x * p \in Int /\ NotBeyond(2 * (x * p), R * p) /\ 4 * p <= R * p
  <2> HIDE DEF R
  <2>1. (2 * x) * p <= R * p /\ (-R) * p <= (2 * x) * p /\ x * p \in Int /\ 4 * p <= R * p
    BY <1>1, <1>6 DEF NotBeyond
  <2>2. (2 * x) * p = 2 * (x * p) /\ (-R) * p = -(R * p)
    BY <1>1, <1>6
  <2> QED BY <2>1, <2>2 DEF NotBeyond
<1> HIDE DEF p0, p1, p2, p3, p4, p5, p6
<1>7. /\ e1 \in Int /\ NotBeyond(2 * e1, p1) /\ 4 * p0 <= p1
      /\ e2 \in Int /\ NotBeyond(2 * e2, p2) /\ 4 * p1 <= p2
      /\ e3 \in Int /\ NotBeyond(2 * e3, p3) /\ 4 * p2 <= p3
      /\ e4 \in Int /\ NotBeyond(2 * e4, p4) /\ 4 * p3 <= p4
      /\ e5 \in Int /\ NotBeyond(2 * e5, p5) /\ 4 * p4 <= p5
      /\ e6 \in Int /\ NotBeyond(2 * e6, p6) /\ 4 * p5 <= p6
  <2> HIDE DEF R
  <2> QED BY <1>2, <1>3, <1>4, <1>5, <1>6, Zenon
<1>8. e6 <= -p5
  BY <1>3, <1>4, <1>5
<1>9. Folding = e1 + e2 + e3 + e4 + e5 + e6
  BY Zenon DEF Folding, p0, p1, p2, p3, p4, p5
<1> HIDE DEF e1, e2, e3, e4, e5, e6, R
<1>10. Folding < 0 /\ -p6 <= Folding /\ Folding \in Int
  BY <1>3, <1>7, <1>8, <1>9 DEF NotBeyond
<1>11. Order = Scale[12] - Folding /\ Scale[12] \in Nat \ {0}
  BY OrderIs
<1> QED BY <1>3, <1>10, <1>11 DEF p6

(* Weights multiply as their places add up. *)
LEMMA ScaleSum ==
  ASSUME NEW i \in 0..12, NEW j \in 0..12
  PROVE  Scale[i + j] = Scale[i] * Scale[j]
<1> DEFINE S == {k \in 0..12 : Scale[i + k] = Scale[i] * Scale[k]}
<1>1. \A k \in 0..24 : Scale[k] \in Int
  BY Scales
<1>2. 0 \in S
  <2>1. i + 0 = i /\ i \in 0..24
    OBVIOUS
  <2> QED BY <1>1, <2>1, Scales
<1>3. \A k \in 0..(12 - 1) : k \in S => k + 1 \in S
  <2> TAKE k \in 0..(12 - 1)
  <2> HAVE k \in S
  <2>1. /\ k \in Places /\ i + k \in Places /\ i + (k + 1) = (i + k) + 1 /\ k + 1 \in 0..12
        /\ i \in 0..24 /\ k \in 0..24
    BY DEF Places
  <2>2. Scale[k + 1] = ScalarRadix * Scale[k] /\ Scale[(i + k) + 1] = ScalarRadix * Scale[i + k]
    BY <2>1, Scales, Zenon
  <2>3. Scale[i] \in Int /\ Scale[k] \in Int /\ Scale[i + k] = Scale[i] * Scale[k]
    BY <1>1, <2>1
  <2> DEFINE a == Scale[i]
             b == Scale[k]
             r == ScalarRadix
  <2>4. a \in Int /\ b \in Int /\ r \in Int
    BY <2>3, ScalarConstants
  <2> HIDE DEF a, b, r
  <2>5. r * (a * b) = a * (r * b)
    BY <2>4
  <2> QED BY <2>1, <2>2, <2>3, <2>5 DEF a, b, r
<1>4. \A k \in 0..12 : k \in S
  <2>1. 12 \in Nat
    OBVIOUS
  <2> HIDE DEF S
  <2> QED BY <1>2, <1>3, <2>1, Upwards
<1> QED BY <1>4

\* d more at one place.
AddAt(s, i, d) == [s EXCEPT ![i] = s[i] + d]

(* What that is worth. *)
LEMMA AddAtWorth ==
  ASSUME NEW s \in Rows, NEW i \in Places, NEW d \in Int
  PROVE  /\ AddAt(s, i, d) \in Rows /\ AddAt(s, i, d)[i] = s[i] + d
         /\ \A k \in Places : k # i => AddAt(s, i, d)[k] = s[k]
         /\ Worth(AddAt(s, i, d)) = Worth(s) + d * Scale[i]
<1> DEFINE x == s[i] + d
           g == AddAt(s, i, d)
<1>1. x \in Int /\ x - s[i] = d
  <2>1. s[i] \in Int
    BY RowType
  <2> QED BY <2>1
<1>2. g[i] = x /\ \A k \in Places : k # i => g[k] = s[k]
  <2> HIDE DEF x
  <2>1. g = [s EXCEPT ![i] = x]
    BY DEF AddAt, x
  <2> QED BY <2>1 DEF Rows
<1>3. g = [s EXCEPT ![i] = x]
  BY DEF AddAt
<1> HIDE DEF x, g
<1>4. g \in Rows /\ Worth(g) = Worth(s) + (x - s[i]) * Scale[i]
  BY <1>1, <1>3, PutWorth, Zenon
<1> QED BY <1>1, <1>2, <1>4, Zenon DEF g, x

(* What a fold adds to each place. *)
LEMMA FoldParts ==
  ASSUME NEW s \in Rows, NEW i \in 12..23
  PROVE  /\ Fold(s, i) \in Rows /\ Fold(s, i)[i] = 0
         /\ \A j \in 1..6 : Fold(s, i)[(i - 12) + (j - 1)]
                              = s[(i - 12) + (j - 1)] + s[i] * Excess[j]
         /\ \A k \in Places : k # i /\ ~(i - 12 <= k /\ k <= i - 7) => Fold(s, i)[k] = s[k]
<1> DEFINE b == i - 12
           v(k) == IF k = i THEN 0
                   ELSE IF k \in b..(i - 7) THEN s[k] + s[i] * Excess[k - b + 1]
                   ELSE s[k]
<1>1. i \in Places /\ b \in 0..11 /\ i \in Int /\ i - 7 = b + 5 /\ i = b + 12
  BY DEF Places
<1>2. Fold(s, i) = [k \in Places |-> v(k)]
  BY Zenon DEF Fold
<1>3. \A k \in Places : s[k] \in Int /\ k \in Int
  BY RowType DEF Places
<1>4. \A j \in 1..6 : s[i] * Excess[j] \in Int
  <2> TAKE j \in 1..6
  <2>1. s[i] \in Int /\ Excess[j] \in Int
    BY <1>1, <1>3, ScalarConstants, Zenon
  <2> QED BY <2>1
<1>5. \A k \in Places : v(k) \in Int
  <2> TAKE k \in Places
  <2>1. CASE k \in b..(i - 7)
    <3>1. k - b + 1 \in 1..6 /\ k # i
      BY <1>1, <2>1
    <3> DEFINE d == s[i] * Excess[k - b + 1]
    <3>2. d \in Int /\ s[k] \in Int
      BY <1>3, <1>4, <3>1, Zenon
    <3> HIDE DEF d
    <3>3. s[k] + d \in Int
      BY <3>2
    <3> QED BY <2>1, <3>1, <3>3, Zenon DEF d
  <2>2. CASE k \notin b..(i - 7)
    <3>1. 0 \in Int
      OBVIOUS
    <3> QED BY <1>3, <2>2, <3>1, Zenon
  <2> QED BY <2>1, <2>2
<1>6. ASSUME NEW j \in 1..6
      PROVE  v(b + (j - 1)) = s[b + (j - 1)] + s[i] * Excess[j]
  <2> DEFINE k == b + (j - 1)
  <2>1. k \in b..(i - 7) /\ k # i /\ k - b + 1 = j
    BY <1>1
  <2>2. v(k) = s[k] + s[i] * Excess[k - b + 1]
    BY <2>1, Zenon
  <2> QED BY <2>1, <2>2, Zenon
<1>7. \A j \in 1..6 : b + (j - 1) \in Places
  BY <1>1 DEF Places
<1>8. \A k \in Places : k # i /\ ~(b <= k /\ k <= i - 7) => v(k) = s[k]
  <2> TAKE k \in Places
  <2>1. ~(b <= k /\ k <= i - 7) => k \notin b..(i - 7)
    BY <1>1, <1>3
  <2> QED BY <2>1, Zenon
<1>9. v(i) = 0
  OBVIOUS
<1> HIDE DEF v, b
<1>10. \A k \in Places : Fold(s, i)[k] = v(k)
  BY <1>2, Zenon
<1>11. Fold(s, i) \in Rows
  BY <1>2, <1>5 DEF Rows
<1> QED BY <1>1, <1>6, <1>7, <1>8, <1>9, <1>10, <1>11, Zenon DEF b

\* The first j of the six digits added.
FoldedSome(s, i, j) ==
  [k \in Places |-> IF i - 12 <= k /\ k < (i - 12) + j
                    THEN s[k] + s[i] * Excess[k - (i - 12) + 1] ELSE s[k]]

(* Each is worth its part of the folding. *)
LEMMA FoldedSomeWorth ==
  ASSUME NEW s \in Rows, NEW i \in 12..23, NEW j \in 0..5, FoldedSome(s, i, j) \in Rows
  PROVE  /\ FoldedSome(s, i, j + 1) \in Rows
         /\ Worth(FoldedSome(s, i, j + 1)) =
              Worth(FoldedSome(s, i, j)) + (s[i] * Scale[i - 12]) * (Excess[j + 1] * Scale[j])
<1> DEFINE b == i - 12
           x == s[i]
           d == x * Excess[j + 1]
           g == FoldedSome(s, i, j)
           h == FoldedSome(s, i, j + 1)
           p == b + j
<1>1. /\ i \in Places /\ b \in 0..12 /\ b \in Places /\ p \in Places /\ j \in 0..12
      /\ p - b + 1 = j + 1 /\ b <= p /\ p < b + (j + 1) /\ ~(p < b + j) /\ b \in Int
  BY DEF Places
<1>2. x \in Int /\ d \in Int /\ Excess[j + 1] \in Int /\ s[p] \in Int
  <2>1. x \in Int /\ s[p] \in Int
    BY <1>1, RowType, Zenon
  <2>2. j + 1 \in 1..6
    OBVIOUS
  <2>3. Excess[j + 1] \in Int
    BY <2>2, ScalarConstants, Zenon
  <2> HIDE DEF x
  <2> QED BY <2>1, <2>3
<1>3. g[p] = s[p] /\ h[p] = s[p] + d
  <2>1. g[p] = IF b <= p /\ p < b + j THEN s[p] + s[i] * Excess[p - b + 1] ELSE s[p]
    BY <1>1, Zenon DEF FoldedSome
  <2>2. h[p] = IF b <= p /\ p < b + (j + 1) THEN s[p] + s[i] * Excess[p - b + 1] ELSE s[p]
    BY <1>1, Zenon DEF FoldedSome
  <2> HIDE DEF g, h, b, p
  <2> QED BY <1>1, <2>1, <2>2, Zenon DEF d, x
<1>4. ASSUME NEW k \in Places, k # p
      PROVE  h[k] = g[k]
  <2>1. g[k] = IF b <= k /\ k < b + j THEN s[k] + s[i] * Excess[k - b + 1] ELSE s[k]
    BY Zenon DEF FoldedSome
  <2>2. h[k] = IF b <= k /\ k < b + (j + 1) THEN s[k] + s[i] * Excess[k - b + 1] ELSE s[k]
    BY Zenon DEF FoldedSome
  <2>3. k < b + (j + 1) <=> k < b + j
    BY <1>1, <1>4 DEF Places
  <2> DEFINE v == s[k] + s[i] * Excess[k - b + 1]
             here == b <= k /\ k < b + j
  <2>4. g[k] = IF here THEN v ELSE s[k]
    BY <2>1, Zenon
  <2>5. h[k] = IF here THEN v ELSE s[k]
    <3>1. (b <= k /\ k < b + (j + 1)) = here
      BY <2>3
    <3> HIDE DEF g, h, b, p, here
    <3> QED BY <2>2, <3>1
  <2> HIDE DEF g, h, v, here
  <2> QED BY <2>4, <2>5
<1>5. h = AddAt(g, p, d)
  <2>1. h = [k \in Places |-> h[k]]
    BY DEF FoldedSome
  <2>2. g \in [Places -> Int]
    BY Zenon DEF Rows
  <2> HIDE DEF g, h, p, d
  <2> QED BY <1>1, <1>3, <1>4, <2>1, <2>2 DEF AddAt
<1> HIDE DEF g, h, p
<1>6. h \in Rows /\ Worth(h) = Worth(g) + d * Scale[p]
  <2>1. g \in Rows /\ p \in Places /\ d \in Int
    <3>1. g \in Rows
      BY Zenon DEF g
    <3> QED BY <1>1, <1>2, <3>1, Zenon
  <2> HIDE DEF d
  <2>2. AddAt(g, p, d) \in Rows /\ Worth(AddAt(g, p, d)) = Worth(g) + d * Scale[p]
    BY <2>1, AddAtWorth, Zenon
  <2> QED BY <1>5, <2>2, Zenon
<1>7. Scale[p] = Scale[b] * Scale[j] /\ Scale[b] \in Int /\ Scale[j] \in Int
  <2>1. j \in Places
    BY DEF Places
  <2> HIDE DEF b
  <2> QED BY <1>1, <2>1, ScaleSum, RowType, Zenon DEF p
<1>8. d * Scale[p] = (x * Scale[b]) * (Excess[j + 1] * Scale[j])
  <2> DEFINE e == Excess[j + 1]
             w == Scale[b]
             v == Scale[j]
  <2>1. d = x * e /\ Scale[p] = w * v /\ e \in Int /\ w \in Int /\ v \in Int /\ x \in Int
    BY <1>2, <1>7, Zenon
  <2> HIDE DEF x, b, d, e, w, v
  <2>2. (x * e) * (w * v) = (x * w) * (e * v)
    BY <2>1
  <2> QED BY <2>1, <2>2, Zenon DEF e, w, v
<1> QED BY <1>6, <1>8, Zenon DEF h, g, x, b

(* A fold takes a multiple of the order away. *)
LEMMA FoldWorth ==
  ASSUME NEW s \in Rows, NEW i \in 12..23
  PROVE  Worth(Fold(s, i)) = Worth(s) - (s[i] * Scale[i - 12]) * Order
<1> DEFINE b == i - 12
           x == s[i]
           w == Scale[b]
           y == x * w
           g(j) == FoldedSome(s, i, j)
           e(j) == Excess[j + 1] * Scale[j]
           F == Fold(s, i)
           q == Scale[12]
           h == AddAt(g(6), i, -x)
<1>1. /\ i \in Places /\ b \in 0..12 /\ b \in Places /\ i = b + 12 /\ i - 7 = b + 5
      /\ b \in Int /\ i \in Int /\ 12 \in 0..12
  BY DEF Places
<1>2. /\ x \in Int /\ -x \in Int /\ w \in Int /\ y \in Int /\ q \in Int /\ Worth(s) \in Int
      /\ y * q \in Int
  <2>1. x \in Int /\ w \in Int /\ Worth(s) \in Int
    BY <1>1, RowType, RowsAdd, Zenon
  <2>2. q \in Int
    BY OrderIs
  <2> HIDE DEF x, w, q
  <2> QED BY <2>1, <2>2
<1>3. g(0) = s
  <2>1. \A k \in Places : ~(b <= k /\ k < b + 0)
    BY <1>1 DEF Places
  <2>2. \A k \in Places : g(0)[k] = s[k]
    <3> HIDE DEF b
    <3>1. \A k \in Places : g(0)[k] = IF b <= k /\ k < b + 0
                                     THEN s[k] + s[i] * Excess[k - b + 1] ELSE s[k]
      BY Zenon DEF FoldedSome, b
    <3> QED BY <2>1, <3>1, Zenon
  <2>3. g(0) = [k \in Places |-> g(0)[k]]
    BY DEF FoldedSome
  <2> HIDE DEF g
  <2> QED BY <2>2, <2>3 DEF Rows
<1>4. \A j \in 0..5 : g(j) \in Rows => g(j + 1) \in Rows /\ Worth(g(j + 1)) = Worth(g(j)) + y * e(j)
  BY FoldedSomeWorth, Zenon
<1>5. \A j \in 0..5 : e(j) \in Int
  <2> TAKE j \in 0..5
  <2>1. j + 1 \in 1..6 /\ j \in Places
    BY DEF Places
  <2>2. Excess[j + 1] \in Int /\ Scale[j] \in Int
    BY <2>1, ScalarConstants, RowType, Zenon
  <2> QED BY <2>2
<1>6. Folding = e(0) + e(1) + e(2) + e(3) + e(4) + e(5)
  BY DEF Folding
<1>7. F \in Rows /\ F[i] = 0
  BY FoldParts, Zenon
<1>8. ASSUME NEW k \in Places, k # i
      PROVE  F[k] = g(6)[k]
  <2>1. g(6)[k] = IF b <= k /\ k < b + 6 THEN s[k] + s[i] * Excess[k - b + 1] ELSE s[k]
    BY Zenon DEF FoldedSome
  <2>2. F[k] = IF k = i THEN 0 ELSE IF k \in b..(i - 7) THEN s[k] + s[i] * Excess[k - b + 1]
               ELSE s[k]
    BY Zenon DEF Fold
  <2>3. k \in b..(i - 7) <=> b <= k /\ k < b + 6
    BY <1>1 DEF Places
  <2> DEFINE v == s[k] + s[i] * Excess[k - b + 1]
             here == b <= k /\ k < b + 6
  <2>4. g(6)[k] = IF here THEN v ELSE s[k]
    BY <2>1, Zenon
  <2>5. F[k] = IF here THEN v ELSE s[k]
    <3>1. (k \in b..(i - 7)) = here
      BY <2>3
    <3> HIDE DEF F, b, g, here
    <3> QED BY <1>8, <2>2, <3>1
  <2> HIDE DEF F, g, v, here
  <2> QED BY <2>4, <2>5
<1>9. g(6)[i] = s[i]
  <2>1. g(6)[i] = IF b <= i /\ i < b + 6 THEN s[i] + s[i] * Excess[i - b + 1] ELSE s[i]
    BY <1>1, Zenon DEF FoldedSome
  <2>2. ~(i < b + 6)
    BY <1>1
  <2> HIDE DEF b, g
  <2> QED BY <2>1, <2>2, Zenon
<1> HIDE DEF g, e
<1>10. /\ g(6) \in Rows
       /\ Worth(g(6)) = Worth(s) + y * e(0) + y * e(1) + y * e(2) + y * e(3) + y * e(4) + y * e(5)
  <2>1. 0 + 1 = 1 /\ 1 + 1 = 2 /\ 2 + 1 = 3 /\ 3 + 1 = 4 /\ 4 + 1 = 5 /\ 5 + 1 = 6
    OBVIOUS
  <2>2. /\ 0 \in 0..5 /\ 1 \in 0..5 /\ 2 \in 0..5 /\ 3 \in 0..5 /\ 4 \in 0..5 /\ 5 \in 0..5
    OBVIOUS
  <2> HIDE DEF y
  <2>3. g(1) \in Rows /\ Worth(g(1)) = Worth(s) + y * e(0)
    BY <1>3, <1>4, <2>1, <2>2, Zenon
  <2>4. g(2) \in Rows /\ Worth(g(2)) = Worth(g(1)) + y * e(1)
    BY <1>4, <2>1, <2>2, <2>3, Zenon
  <2>5. g(3) \in Rows /\ Worth(g(3)) = Worth(g(2)) + y * e(2)
    BY <1>4, <2>1, <2>2, <2>4, Zenon
  <2>6. g(4) \in Rows /\ Worth(g(4)) = Worth(g(3)) + y * e(3)
    BY <1>4, <2>1, <2>2, <2>5, Zenon
  <2>7. g(5) \in Rows /\ Worth(g(5)) = Worth(g(4)) + y * e(4)
    BY <1>4, <2>1, <2>2, <2>6, Zenon
  <2>8. g(6) \in Rows /\ Worth(g(6)) = Worth(g(5)) + y * e(5)
    BY <1>4, <2>1, <2>2, <2>7, Zenon
  <2> QED BY <2>3, <2>4, <2>5, <2>6, <2>7, <2>8, Zenon
<1>11. Worth(g(6)) = Worth(s) + y * Folding
  <2> DEFINE e0 == e(0)
             e1 == e(1)
             e2 == e(2)
             e3 == e(3)
             e4 == e(4)
             e5 == e(5)
  <2>1. /\ e0 \in Int /\ e1 \in Int /\ e2 \in Int /\ e3 \in Int /\ e4 \in Int /\ e5 \in Int
    BY <1>5
  <2>2. /\ Worth(g(6)) = Worth(s) + y * e0 + y * e1 + y * e2 + y * e3 + y * e4 + y * e5
        /\ Folding = e0 + e1 + e2 + e3 + e4 + e5
    BY <1>6, <1>10, Zenon
  <2> HIDE DEF e0, e1, e2, e3, e4, e5, y
  <2>3. y * (e0 + e1 + e2 + e3 + e4 + e5) =
          y * e0 + y * e1 + y * e2 + y * e3 + y * e4 + y * e5
    BY <1>2, <2>1
  <2>4. /\ y * e0 \in Int /\ y * e1 \in Int /\ y * e2 \in Int /\ y * e3 \in Int
        /\ y * e4 \in Int /\ y * e5 \in Int
    BY <1>2, <2>1
  <2> DEFINE a0 == y * e0
             a1 == y * e1
             a2 == y * e2
             a3 == y * e3
             a4 == y * e4
             a5 == y * e5
             z == y * Folding
  <2>5. /\ Worth(g(6)) = Worth(s) + a0 + a1 + a2 + a3 + a4 + a5
        /\ z = a0 + a1 + a2 + a3 + a4 + a5
    BY <2>2, <2>3, Zenon
  <2>6. /\ a0 \in Int /\ a1 \in Int /\ a2 \in Int /\ a3 \in Int /\ a4 \in Int /\ a5 \in Int
    BY <2>4, Zenon
  <2> HIDE DEF a0, a1, a2, a3, a4, a5, z
  <2>7. Worth(g(6)) = Worth(s) + z
    BY <1>2, <2>5, <2>6
  <2> QED BY <2>7, Zenon DEF z
<1>12. h \in Rows /\ Worth(h) = Worth(g(6)) + (-x) * Scale[i]
       /\ h[i] = g(6)[i] + (-x) /\ \A k \in Places : k # i => h[k] = g(6)[k]
  <2> DEFINE r == g(6)
             d == -x
  <2>1. r \in Rows /\ d \in Int /\ i \in Places /\ h = AddAt(r, i, d)
    BY <1>1, <1>2, <1>10, Zenon
  <2> HIDE DEF r, d, h
  <2>2. h \in Rows /\ Worth(h) = Worth(r) + d * Scale[i]
        /\ h[i] = r[i] + d /\ \A k \in Places : k # i => h[k] = r[k]
    <3>1. r \in Rows /\ d \in Int /\ i \in Places
      BY <2>1, Zenon
    <3>2. /\ AddAt(r, i, d) \in Rows /\ AddAt(r, i, d)[i] = r[i] + d
          /\ \A k \in Places : k # i => AddAt(r, i, d)[k] = r[k]
          /\ Worth(AddAt(r, i, d)) = Worth(r) + d * Scale[i]
      BY <3>1, AddAtWorth, Zenon
    <3> QED BY <2>1, <3>2, Zenon
  <2> QED BY <2>2, Zenon DEF r, d
<1> HIDE DEF h, F
<1>13. h = F
  <2>1. x + (-x) = 0
    BY <1>2
  <2>2. h[i] = F[i]
    BY <1>7, <1>9, <1>12, <2>1, Zenon
  <2>3. \A k \in Places : h[k] = F[k]
    BY <1>8, <1>12, <2>2, Zenon
  <2>4. h \in [Places -> Int] /\ F \in [Places -> Int]
    BY <1>7, <1>12, Zenon DEF Rows
  <2> QED BY <2>3, <2>4
<1>14. (-x) * Scale[i] = -(y * q)
  <2>1. Scale[i] = w * q
    BY <1>1, ScaleSum, Zenon
  <2> HIDE DEF w, q, x
  <2>2. (-x) * (w * q) = -((x * w) * q)
    BY <1>2
  <2> QED BY <2>1, <2>2, Zenon
<1>15. y * Order = y * q - y * Folding /\ y * Folding \in Int
  <2>1. Order = q - Folding /\ Folding \in Int
    BY OrderIs
  <2> HIDE DEF y, q
  <2> QED BY <1>2, <2>1
<1> DEFINE zq == y * q
           zf == y * Folding
           zo == y * Order
<1>16. Worth(h) = (Worth(s) + zf) + (-zq) /\ zo = zq - zf /\ zq \in Int /\ zf \in Int
  BY <1>2, <1>11, <1>12, <1>14, <1>15, Zenon
<1> HIDE DEF zq, zf, zo
<1>17. Worth(h) = Worth(s) - zo
  BY <1>2, <1>16
<1> QED BY <1>13, <1>17, Zenon DEF zo, y, w, x, b, F

-----------------------------------------------------------------------------
\* How large digits get, through folds and carries.

(* Half the radix is whole. *)
LEMMA HalfRadix ==
  ASSUME RoomForFolds
  PROVE  /\ ScalarRadix \div 2 \in Nat /\ ScalarRadix = 2 * (ScalarRadix \div 2)
         /\ ScalarRadix \in Nat \ {0} /\ ScalarRadix >= 2
<1> DEFINE r == ScalarRadix
<1>1. r \in Nat \ {0} /\ r >= 2 /\ r % 2 = 0
  BY ScalarConstants, SMT DEF RoomForFolds
<1> HIDE DEF r
<1>2. r \div 2 \in Nat /\ r = 2 * (r \div 2)
  BY <1>1
<1> QED BY <1>1, <1>2 DEF r

(* A rounded carry leaves at most half the radix, and moves no more than the
   digit held of it. *)
LEMMA RoundedParts ==
  ASSUME RoomForFolds, NEW s \in Rows, NEW i \in 0..22
  PROVE  /\ Rounded(s, i) \in Rows /\ Worth(Rounded(s, i)) = Worth(s)
         /\ \A k \in Places : k # i /\ k # i + 1 => Rounded(s, i)[k] = s[k]
         /\ \A c \in Nat : NotBeyond(s[i], c * ScalarRadix) =>
              /\ NotBeyond(2 * Rounded(s, i)[i], ScalarRadix)
              /\ NotBeyond(Rounded(s, i)[i + 1] - s[i + 1], c)
<1> DEFINE x == s[i]
           r == ScalarRadix
           half == ScalarRadix \div 2
           c == (x + half) \div r
           g == Rounded(s, i)
<1>1. i \in Places /\ i + 1 \in Places
  BY DEF Places
<1>2. x \in Int /\ s[i + 1] \in Int
  BY <1>1, RowType, Zenon
<1>3. half \in Nat /\ r = 2 * half /\ r \in Nat \ {0}
  BY HalfRadix
<1>4. c \in Int
  <2> DEFINE y == x + half
  <2>1. y \in Int
    <3> HIDE DEF x, half
    <3> QED BY <1>2, <1>3
  <2> HIDE DEF y, r
  <2>2. y \div r \in Int
    BY <1>3, <2>1
  <2> QED BY <2>2 DEF y, r
<1>5. g = CarryOf(s, i, c)
  BY Zenon DEF Rounded
<1> HIDE DEF c, g
<1>6. /\ g \in Rows /\ Worth(g) = Worth(s) /\ g[i] = x - c * r /\ g[i + 1] = s[i + 1] + c
      /\ \A k \in Places : k # i /\ k # i + 1 => g[k] = s[k]
  BY <1>4, <1>5, CarryOfWorth, Zenon
<1>7. ASSUME NEW k \in Nat, NotBeyond(x, k * r)
      PROVE  NotBeyond(2 * g[i], r) /\ NotBeyond(g[i + 1] - s[i + 1], k)
  <2>1. half \in Int
    BY <1>3
  <2> HIDE DEF x, r, half
  <2>2. NotBeyond(c, k) /\ NotBeyond(2 * (x - c * r), r)
    BY <1>2, <1>3, <1>7, <2>1, NearestMultiple, Zenon DEF c
  <2>3. g[i + 1] - s[i + 1] = c
    <3> DEFINE z == s[i + 1]
    <3>1. g[i + 1] = z + c /\ z \in Int
      BY <1>2, <1>6, Zenon
    <3> HIDE DEF z
    <3>2. g[i + 1] - z = c
      BY <1>4, <3>1
    <3> QED BY <3>2 DEF z
  <2> QED BY <1>6, <2>2, <2>3, Zenon
<1> QED BY <1>6, <1>7, Zenon DEF g, x, r

\* g goes through n rounded carries, of every other place from a.
Every2nd(g, m, n, a) ==
  \A j \in 0..(n - 1) : g[m + (j + 1)] = Rounded(g[m + j], a + 2 * j)

\* What n such carries have made of a row: the places carried from are at most
\* half the radix, those carried to have no more than K says.
Passed(s, v, a, n, K) ==
  /\ v \in Rows
  /\ \A p \in Places :
       IF p < a \/ p >= a + 2 * n THEN v[p] = s[p]
       ELSE IF p % 2 = a % 2 THEN NotBeyond(2 * v[p], ScalarRadix)
       ELSE NotBeyond(v[p] - s[p], K[p - 1])

\* K says how often digits hold the radix.
Holds(s, K) == \A p \in Places : K[p] \in Nat /\ NotBeyond(s[p], K[p] * ScalarRadix)

(* One more carry of them. *)
LEMMA PassOn ==
  ASSUME RoomForFolds, NEW s \in Rows, NEW K, Holds(s, K), NEW a \in Nat, NEW n \in Nat,
         a + 2 * n <= 22, NEW v, Passed(s, v, a, n, K)
  PROVE  Passed(s, Rounded(v, a + 2 * n), a, n + 1, K)
<1> DEFINE i == a + 2 * n
           w == Rounded(v, i)
<1>1. /\ i \in 0..22 /\ i \in Places /\ i + 1 \in Places /\ i \in Int /\ (i + 1) - 1 = i
      /\ i % 2 = a % 2 /\ (i + 1) % 2 # a % 2 /\ i >= a /\ a + 2 * (n + 1) = i + 2
  BY DEF Places
<1>2. v \in Rows /\ v[i] = s[i] /\ v[i + 1] = s[i + 1]
  <2>1. i >= a + 2 * n /\ i + 1 >= a + 2 * n
    BY <1>1
  <2> HIDE DEF i
  <2> QED BY <1>1, <2>1, Zenon DEF Passed
<1>3. /\ w \in Rows /\ \A k \in Places : k # i /\ k # i + 1 => w[k] = v[k]
      /\ NotBeyond(2 * w[i], ScalarRadix) /\ NotBeyond(w[i + 1] - s[i + 1], K[i])
  <2>1. K[i] \in Nat /\ NotBeyond(v[i], K[i] * ScalarRadix)
    BY <1>1, <1>2, Zenon DEF Holds
  <2> HIDE DEF i
  <2> QED BY <1>1, <1>2, <2>1, RoundedParts, Zenon
<1> HIDE DEF w
<1>4. ASSUME NEW p \in Places
      PROVE  IF p < a \/ p >= i + 2 THEN w[p] = s[p]
             ELSE IF p % 2 = a % 2 THEN NotBeyond(2 * w[p], ScalarRadix)
             ELSE NotBeyond(w[p] - s[p], K[p - 1])
  <2>1. p \in Int
    BY DEF Places
  <2>2. IF p < a \/ p >= i THEN v[p] = s[p]
        ELSE IF p % 2 = a % 2 THEN NotBeyond(2 * v[p], ScalarRadix)
        ELSE NotBeyond(v[p] - s[p], K[p - 1])
    BY Zenon DEF Passed
  <2> HIDE DEF i
  <2>3. CASE p = i
    <3>1. ~(p < a \/ p >= i + 2) /\ p % 2 = a % 2
      BY <1>1, <2>3
    <3> QED BY <1>3, <2>3, <3>1, Zenon
  <2>4. CASE p = i + 1
    <3>1. ~(p < a \/ p >= i + 2) /\ p % 2 # a % 2 /\ p - 1 = i
      BY <1>1, <2>4
    <3> QED BY <1>3, <2>4, <3>1, Zenon
  <2>5. CASE p # i /\ p # i + 1
    <3>1. w[p] = v[p]
      BY <1>3, <2>5
    <3>2. p < a \/ p >= i + 2 <=> p < a \/ p >= i
      BY <1>1, <2>1, <2>5
    <3> QED BY <2>2, <3>1, <3>2, Zenon
  <2> QED BY <2>3, <2>4, <2>5
<1>5. Passed(s, w, a, n + 1, K)
  <2> HIDE DEF i
  <2> QED BY <1>1, <1>3, <1>4, Zenon DEF Passed
<1> QED BY <1>5 DEF w

(* All of them. *)
LEMMA RoundedPass ==
  ASSUME RoomForFolds, NEW s \in Rows, NEW K, Holds(s, K), NEW a \in Nat, NEW n \in Nat,
         a + 2 * n <= 24, NEW g, NEW m \in Nat, g[m] = s, Every2nd(g, m, n, a)
  PROVE  Passed(s, g[m + n], a, n, K)
<1> DEFINE S == {j \in 0..n : Passed(s, g[m + j], a, j, K)}
<1>1. 0 \in S
  <2>1. \A p \in Places : p < a \/ p >= a + 2 * 0
    BY DEF Places
  <2>2. m + 0 = m
    OBVIOUS
  <2>3. Passed(s, s, a, 0, K)
    BY <2>1, Zenon DEF Passed
  <2>4. 0 \in 0..n
    OBVIOUS
  <2> QED BY <2>2, <2>3, <2>4, Zenon
<1>2. \A j \in 0..(n - 1) : j \in S => j + 1 \in S
  <2> TAKE j \in 0..(n - 1)
  <2> HAVE j \in S
  <2>1. j \in Nat /\ a + 2 * j <= 22 /\ j + 1 \in 0..n
    OBVIOUS
  <2>2. g[m + (j + 1)] = Rounded(g[m + j], a + 2 * j)
    BY Zenon DEF Every2nd
  <2>3. Passed(s, g[m + j], a, j, K)
    OBVIOUS
  <2>4. Passed(s, Rounded(g[m + j], a + 2 * j), a, j + 1, K)
    BY <2>1, <2>3, PassOn, Zenon
  <2> QED BY <2>1, <2>2, <2>4, Zenon
<1>3. \A j \in 0..n : j \in S
  <2> HIDE DEF S
  <2> QED BY <1>1, <1>2, Upwards, Zenon
<1>4. n \in 0..n
  OBVIOUS
<1> QED BY <1>3, <1>4, Zenon

\* g folds the six places from f + 5 down.
SixFolds(g, f) == \A j \in 0..5 : g[j + 1] = Fold(g[j], (f + 5) - j)

\* What the first j of six folds have made of a row whose digits there are not
\* beyond c.
FoldedTo(s, v, f, c, j) ==
  /\ v \in Rows
  /\ \A p \in Places :
       IF p > (f + 5) - j /\ p <= f + 5 THEN v[p] = 0
       ELSE IF p >= f - 12 /\ p <= f - 2
         THEN NotBeyond(2 * (v[p] - s[p]), j * (c * ScalarRadix))
       ELSE v[p] = s[p]

(* What one digit adds to another by folding. *)
LEMMA FoldedSize ==
  ASSUME RoomForFolds, NEW x \in Int, NEW c \in Nat, NotBeyond(x, c), NEW k \in 1..6
  PROVE  x * Excess[k] \in Int /\ NotBeyond(2 * (x * Excess[k]), c * ScalarRadix)
<1> DEFINE e == Excess[k]
           r == ScalarRadix
           y == 2 * e
<1>1. e \in Int /\ r \in Nat
  BY ScalarConstants
<1>2. NotBeyond(2 * e, r)
  BY SMT DEF RoomForFolds
<1> HIDE DEF e, r
<1>3. y \in Int /\ NotBeyond(y, r)
  BY <1>1, <1>2
<1>4. x * y = 2 * (x * e) /\ x * e \in Int
  BY <1>1
<1> HIDE DEF y
<1>5. NotBeyond(x * y, c * r)
  BY <1>1, <1>3, ProductBounded, Zenon
<1> QED BY <1>4, <1>5 DEF e, r

(* One more fold of them. *)
LEMMA FoldOn ==
  ASSUME RoomForFolds, NEW s \in Rows, NEW f \in {12, 18}, NEW c \in Nat,
         \A p \in Places : p >= f /\ p <= f + 5 => NotBeyond(s[p], c),
         NEW j \in 0..5, NEW v, FoldedTo(s, v, f, c, j)
  PROVE  FoldedTo(s, Fold(v, (f + 5) - j), f, c, j + 1)
<1> DEFINE i == (f + 5) - j
           b == i - 12
           w == Fold(v, i)
           d == c * ScalarRadix
<1>1. /\ i \in 12..23 /\ i \in Places /\ i >= f /\ i <= f + 5 /\ b \in Int /\ i \in Int
      /\ (f + 5) - (j + 1) = i - 1 /\ b >= f - 12 /\ b + 5 <= f - 2 /\ i - 7 = b + 5
      /\ f \in Int /\ i = b + 12
  BY DEF Places
<1>2. v \in Rows /\ v[i] = s[i]
  <2>1. ~(i > (f + 5) - j /\ i <= f + 5) /\ ~(i >= f - 12 /\ i <= f - 2)
    BY <1>1
  <2> HIDE DEF i
  <2> QED BY <1>1, <2>1, Zenon DEF FoldedTo
<1>3. v[i] \in Int /\ NotBeyond(v[i], c)
  <2> HIDE DEF i
  <2> QED BY <1>1, <1>2, RowType, Zenon
<1>4. /\ w \in Rows /\ w[i] = 0
      /\ \A k \in 1..6 : w[b + (k - 1)] = v[b + (k - 1)] + v[i] * Excess[k]
      /\ \A k \in Places : k # i /\ ~(b <= k /\ k <= i - 7) => w[k] = v[k]
  BY <1>1, <1>2, FoldParts, Zenon
<1>5. d \in Int /\ j * d \in Int /\ (j + 1) * d = j * d + d
  <2>1. d \in Int
    BY ScalarConstants
  <2> HIDE DEF d
  <2> QED BY <2>1
<1> HIDE DEF w
<1>6. ASSUME NEW p \in Places
      PROVE  IF p > i - 1 /\ p <= f + 5 THEN w[p] = 0
             ELSE IF p >= f - 12 /\ p <= f - 2 THEN NotBeyond(2 * (w[p] - s[p]), (j + 1) * d)
             ELSE w[p] = s[p]
  <2>1. p \in Int /\ s[p] \in Int /\ v[p] \in Int
    BY <1>2, RowType DEF Places
  <2>2. IF p > i /\ p <= f + 5 THEN v[p] = 0
        ELSE IF p >= f - 12 /\ p <= f - 2 THEN NotBeyond(2 * (v[p] - s[p]), j * d)
        ELSE v[p] = s[p]
    BY Zenon DEF FoldedTo
  <2> HIDE DEF i, b
  <2>3. CASE p = i
    <3>1. p > i - 1 /\ p <= f + 5
      BY <1>1, <2>3
    <3> QED BY <1>4, <2>3, <3>1, Zenon
  <2>4. CASE b <= p /\ p <= b + 5
    <3> DEFINE k == p - b + 1
    <3>1. /\ k \in 1..6 /\ b + (k - 1) = p /\ ~(p > i - 1 /\ p <= f + 5)
          /\ ~(p > i /\ p <= f + 5) /\ p >= f - 12 /\ p <= f - 2
      BY <1>1, <2>1, <2>4
    <3> HIDE DEF k
    <3> DEFINE x == v[i] * Excess[k]
    <3>2. x \in Int /\ NotBeyond(2 * x, d)
      BY <1>3, <3>1, FoldedSize, Zenon DEF d
    <3>3. w[p] = v[p] + x
      BY <1>4, <3>1, Zenon
    <3>4. NotBeyond(2 * (v[p] - s[p]), j * d)
      BY <2>2, <3>1, Zenon
    <3> HIDE DEF x, d
    <3> DEFINE z == j * d
               y == v[p]
    <3>5. z \in Int /\ NotBeyond(2 * (y - s[p]), z) /\ w[p] = y + x /\ y \in Int
      BY <1>5, <2>1, <3>3, <3>4, Zenon
    <3> HIDE DEF z, y
    <3>6. NotBeyond(2 * (w[p] - s[p]), z + d)
      BY <1>5, <2>1, <3>2, <3>5 DEF NotBeyond
    <3> QED BY <1>5, <3>1, <3>6, Zenon DEF z
  <2>5. CASE p # i /\ ~(b <= p /\ p <= b + 5)
    <3>1. w[p] = v[p]
      BY <1>1, <1>4, <2>5, Zenon
    <3>2. p > i - 1 /\ p <= f + 5 <=> p > i /\ p <= f + 5
      BY <1>1, <2>1, <2>5
    <3>3. CASE p > i /\ p <= f + 5
      BY <2>2, <3>1, <3>2, <3>3, Zenon
    <3>4. CASE ~(p > i /\ p <= f + 5) /\ p >= f - 12 /\ p <= f - 2
      <4>1. NotBeyond(2 * (v[p] - s[p]), j * d)
        BY <2>2, <3>4, Zenon
      <4>2. d >= 0
        BY ScalarConstants DEF d
      <4> HIDE DEF d
      <4> DEFINE z == j * d
                 y == 2 * (v[p] - s[p])
      <4>3. z \in Int /\ NotBeyond(y, z) /\ y \in Int
        BY <1>5, <2>1, <4>1
      <4> HIDE DEF z, y
      <4>4. NotBeyond(y, z + d)
        BY <1>5, <4>2, <4>3 DEF NotBeyond
      <4> QED BY <1>5, <3>1, <3>2, <3>4, <4>4, Zenon DEF z, y
    <3>5. CASE ~(p > i /\ p <= f + 5) /\ ~(p >= f - 12 /\ p <= f - 2)
      BY <2>2, <3>1, <3>2, <3>5, Zenon
    <3> QED BY <3>3, <3>4, <3>5, Zenon
  <2> QED BY <2>3, <2>4, <2>5, Zenon
<1>7. FoldedTo(s, w, f, c, j + 1)
  <2> HIDE DEF i
  <2> QED BY <1>1, <1>4, <1>6, Zenon DEF FoldedTo, d
<1> QED BY <1>7 DEF w

(* All six. *)
LEMMA FoldPass ==
  ASSUME RoomForFolds, NEW s \in Rows, NEW f \in {12, 18}, NEW c \in Nat,
         \A p \in Places : p >= f /\ p <= f + 5 => NotBeyond(s[p], c),
         NEW g, g[0] = s, SixFolds(g, f)
  PROVE  FoldedTo(s, g[6], f, c, 6)
<1> DEFINE S == {j \in 0..6 : FoldedTo(s, g[j], f, c, j)}
<1>1. 0 \in S
  <2> DEFINE d == c * ScalarRadix
  <2>1. d \in Int
    BY ScalarConstants
  <2> HIDE DEF d
  <2>2. ASSUME NEW p \in Places
        PROVE  /\ ~(p > (f + 5) - 0 /\ p <= f + 5) /\ NotBeyond(2 * (s[p] - s[p]), 0 * d)
    <3>1. s[p] \in Int /\ p \in Int
      BY RowType DEF Places
    <3> QED BY <2>1, <3>1 DEF NotBeyond
  <2>3. FoldedTo(s, s, f, c, 0)
    BY <2>2, Zenon DEF FoldedTo, d
  <2>4. 0 \in 0..6
    OBVIOUS
  <2> QED BY <2>3, <2>4, Zenon
<1>2. \A j \in 0..(6 - 1) : j \in S => j + 1 \in S
  <2> TAKE j \in 0..(6 - 1)
  <2> HAVE j \in S
  <2>1. j \in 0..5 /\ j + 1 \in 0..6
    OBVIOUS
  <2>2. g[j + 1] = Fold(g[j], (f + 5) - j)
    BY <2>1, Zenon DEF SixFolds
  <2>3. FoldedTo(s, g[j], f, c, j)
    OBVIOUS
  <2>4. FoldedTo(s, Fold(g[j], (f + 5) - j), f, c, j + 1)
    BY <2>1, <2>3, FoldOn, Zenon
  <2> QED BY <2>1, <2>2, <2>4, Zenon
<1>3. \A j \in 0..6 : j \in S
  <2>1. 6 \in Nat
    OBVIOUS
  <2> HIDE DEF S
  <2> QED BY <1>1, <1>2, <2>1, Upwards
<1>4. 6 \in 0..6
  OBVIOUS
<1> QED BY <1>3, <1>4, Zenon

\* d, e and q are m * ScalarRadix, d * ScalarRadix and the square of the radix.
SizesOf(m, d, e, q) ==
  /\ d \in Nat /\ e \in Nat /\ q \in Nat
  /\ d = m * ScalarRadix /\ e = d * ScalarRadix /\ q = ScalarRadix * ScalarRadix
  /\ d <= e /\ d <= q /\ 3 * d + ScalarRadix <= q /\ 4 * d + ScalarRadix <= q /\ ScalarRadix <= q
  /\ (3 * d + ScalarRadix) * ScalarRadix = 3 * e + q
  /\ (3 * d + 2 * ScalarRadix) * ScalarRadix = 3 * e + 2 * q
  /\ (4 * m + 1) * ScalarRadix = 4 * d + ScalarRadix
  /\ (4 * m + 3) * ScalarRadix = 4 * d + 3 * ScalarRadix

(* Which sizes come up when digits are not beyond m radixes. *)
LEMMA SizesAre ==
  ASSUME NEW m \in Nat, 8 * m + 8 <= ScalarRadix
  PROVE  SizesOf(m, m * ScalarRadix, (m * ScalarRadix) * ScalarRadix, ScalarRadix * ScalarRadix)
<1> DEFINE r == ScalarRadix
           d == m * r
           e == d * r
           q == r * r
<1>1. r \in Nat /\ r >= 2 /\ 8 * m + 8 <= r
  BY ScalarConstants
<1> HIDE DEF r
<1>2. d \in Nat
  BY <1>1
<1>3. e \in Nat /\ q \in Nat /\ d <= e /\ r <= q
  <2> HIDE DEF d
  <2> QED BY <1>1, <1>2
<1>4. 4 * d + r = (4 * m + 1) * r /\ 4 * d + 3 * r = (4 * m + 3) * r
  BY <1>1
<1>5. (4 * m + 1) * r <= q
  <2> DEFINE k == 4 * m + 1
  <2>1. k \in Nat /\ k <= r
    BY <1>1
  <2> HIDE DEF k
  <2>2. k * r <= r * r
    BY <1>1, <2>1
  <2> QED BY <2>2, Zenon DEF k
<1>6. (3 * d + r) * r = 3 * e + q /\ (3 * d + 2 * r) * r = 3 * e + 2 * q
  <2> HIDE DEF d
  <2> QED BY <1>1, <1>2
<1>7. d <= q /\ 3 * d + r <= q /\ 4 * d + r <= q
  <2> HIDE DEF d, q
  <2> QED BY <1>1, <1>2, <1>3, <1>4, <1>5
<1> HIDE DEF d, e, q
<1>8. SizesOf(m, d, e, q)
  <2>1. d = m * r /\ e = d * r /\ q = r * r
    BY Zenon DEF d, e, q
  <2> QED BY <1>2, <1>3, <1>4, <1>6, <1>7, <2>1, Zenon DEF SizesOf, r
<1> QED BY <1>8, Zenon DEF d, e, q, r

\* The same at every place.
Everywhere(k) == [p \in Places |-> k]

(* Digits of a folded row hold the radix at most so often. *)
LEMMA FoldedHolds ==
  ASSUME RoomForFolds, NEW m, NEW d, NEW e, NEW q, SizesOf(m, d, e, q),
         NEW s \in Rows, \A p \in Places : NotBeyond(s[p], d),
         NEW f \in {12, 18}, NEW v, FoldedTo(s, v, f, d, 6)
  PROVE  Holds(v, Everywhere(3 * d + ScalarRadix))
<1> DEFINE r == ScalarRadix
           k == 3 * d + r
<1>1. r \in Nat
  BY ScalarConstants
<1>2. /\ d \in Nat /\ e \in Nat /\ q \in Nat /\ d <= e /\ k * r = 3 * e + q /\ d * r = e
      /\ d <= q
  BY Zenon DEF SizesOf
<1>3. k \in Nat
  <2> HIDE DEF r
  <2> QED BY <1>1, <1>2
<1> HIDE DEF r, k
<1>4. ASSUME NEW p \in Places
      PROVE  NotBeyond(v[p], k * r)
  <2>1. s[p] \in Int /\ v[p] \in Int /\ NotBeyond(s[p], d)
    BY RowType, Zenon DEF FoldedTo
  <2>2. IF p > (f + 5) - 6 /\ p <= f + 5 THEN v[p] = 0
        ELSE IF p >= f - 12 /\ p <= f - 2 THEN NotBeyond(2 * (v[p] - s[p]), 6 * e)
        ELSE v[p] = s[p]
    BY <1>2, Zenon DEF FoldedTo, r
  <2> DEFINE y == v[p]
             x == s[p]
  <2>3. x \in Int /\ y \in Int /\ NotBeyond(x, d)
        /\ (y = 0 \/ NotBeyond(2 * (y - x), 6 * e) \/ y = x)
    BY <2>1, <2>2, Zenon
  <2> HIDE DEF x, y
  <2>4. NotBeyond(y, 3 * e + q)
    BY <1>2, <2>3 DEF NotBeyond
  <2> QED BY <1>2, <2>4, Zenon DEF y
<1>5. \A p \in Places : Everywhere(k)[p] = k
  BY Zenon DEF Everywhere
<1>6. Holds(v, Everywhere(k))
  BY <1>3, <1>4, <1>5, Zenon DEF Holds, r
<1> QED BY <1>6, Zenon DEF k, r

\* The row after the first of the two passes that follow the folds.
HalfDone(s, w, f, d, e, q) ==
  /\ w \in Rows
  /\ \A p \in Places :
       IF p < f - 12 \/ p > f + 5 THEN w[p] = s[p]
       ELSE IF p >= f THEN w[p] = 0
       ELSE IF p % 2 = 0 THEN NotBeyond(2 * w[p], ScalarRadix)
       ELSE IF p = f - 1 THEN NotBeyond(w[p], 4 * d + ScalarRadix)
       ELSE NotBeyond(w[p], 3 * e + 2 * q)

(* What the first pass does. *)
LEMMA FirstPass ==
  ASSUME RoomForFolds, NEW m, NEW d, NEW e, NEW q, SizesOf(m, d, e, q),
         NEW s \in Rows, \A p \in Places : NotBeyond(s[p], d),
         NEW f \in {12, 18}, NEW v, FoldedTo(s, v, f, d, 6),
         NEW w, Passed(v, w, f - 12, 6, Everywhere(3 * d + ScalarRadix))
  PROVE  HalfDone(s, w, f, d, e, q)
<1> DEFINE r == ScalarRadix
           k == 3 * d + r
<1>1. r \in Nat
  BY ScalarConstants
<1>2. /\ d \in Nat /\ e \in Nat /\ q \in Nat /\ d <= e /\ d * r = e
      /\ d <= q /\ k <= q
  BY Zenon DEF SizesOf
<1>3. f \in Int /\ (f - 12) + 2 * 6 = f /\ (f - 12) % 2 = 0 /\ (f + 5) - 6 = f - 1
  OBVIOUS
<1> HIDE DEF r, k
<1>4. ASSUME NEW p \in Places
      PROVE  IF p < f - 12 \/ p > f + 5 THEN w[p] = s[p]
             ELSE IF p >= f THEN w[p] = 0
             ELSE IF p % 2 = 0 THEN NotBeyond(2 * w[p], r)
             ELSE IF p = f - 1 THEN NotBeyond(w[p], 4 * d + r)
             ELSE NotBeyond(w[p], 3 * e + 2 * q)
  <2>1. s[p] \in Int /\ v[p] \in Int /\ w[p] \in Int /\ NotBeyond(s[p], d) /\ p \in Int
    BY RowType, NextPlaces, Zenon DEF FoldedTo, Passed
  <2>2. IF p > f - 1 /\ p <= f + 5 THEN v[p] = 0
        ELSE IF p >= f - 12 /\ p <= f - 2 THEN NotBeyond(2 * (v[p] - s[p]), 6 * e)
        ELSE v[p] = s[p]
    BY <1>2, <1>3, Zenon DEF FoldedTo, r
  <2>3. IF p < f - 12 \/ p >= f THEN w[p] = v[p]
        ELSE IF p % 2 = 0 THEN NotBeyond(2 * w[p], r)
        ELSE NotBeyond(w[p] - v[p], k)
    <3>1. Everywhere(k)[p - 1] = k \/ p - 1 \notin Places
      BY Zenon DEF Everywhere
    <3>2. p % 2 # 0 => p - 1 \in Places
      BY <2>1 DEF Places
    <3>3. IF p < f - 12 \/ p >= (f - 12) + 2 * 6 THEN w[p] = v[p]
          ELSE IF p % 2 = (f - 12) % 2 THEN NotBeyond(2 * w[p], ScalarRadix)
          ELSE NotBeyond(w[p] - v[p], Everywhere(3 * d + ScalarRadix)[p - 1])
      BY Zenon DEF Passed
    <3> QED BY <1>3, <3>1, <3>2, <3>3, Zenon DEF k, r
  <2> DEFINE x == s[p]
             y == v[p]
             z == w[p]
             low == p < f - 12
             top == p > f + 5
             mid == p >= f
             odd == p % 2 # 0
             last == p = f - 1
  <2>4. x \in Int /\ y \in Int /\ z \in Int /\ NotBeyond(x, d)
    BY <2>1
  <2>5. (low \/ top) => z = x
    <3>1. (low \/ top) => /\ ~(p > f - 1 /\ p <= f + 5) /\ ~(p >= f - 12 /\ p <= f - 2)
                          /\ (p < f - 12 \/ p >= f)
      BY <1>3, <2>1
    <3> QED BY <2>2, <2>3, <3>1, Zenon
  <2>6. ~low /\ ~top /\ mid => z = 0
    <3>1. ~low /\ ~top /\ mid => (p > f - 1 /\ p <= f + 5)
      BY <1>3, <2>1
    <3> QED BY <2>2, <2>3, <3>1, Zenon
  <2>7. ~low /\ ~top /\ ~mid /\ ~odd => NotBeyond(2 * z, r)
    BY <2>3, Zenon
  <2>8. ~low /\ ~top /\ ~mid /\ odd => NotBeyond(z - y, k)
    BY <2>3, Zenon
  <2>9. ~low /\ ~top /\ ~mid /\ last => y = x
    <3>1. last => ~(p > f - 1 /\ p <= f + 5) /\ ~(p >= f - 12 /\ p <= f - 2)
      BY <1>3, <2>1
    <3> QED BY <2>2, <3>1, Zenon
  <2>10. ~low /\ ~top /\ ~mid /\ ~last => NotBeyond(2 * (y - x), 6 * e)
    <3>1. ~low /\ ~top /\ ~mid /\ ~last =>
            ~(p > f - 1 /\ p <= f + 5) /\ (p >= f - 12 /\ p <= f - 2)
      BY <1>3, <2>1
    <3> QED BY <2>2, <3>1, Zenon
  <2> HIDE DEF x, y, z, low, top, mid, odd, last
  <2>11. ~low /\ ~top /\ ~mid /\ odd /\ last => NotBeyond(z, 4 * d + r)
    BY <1>1, <1>2, <2>4, <2>8, <2>9 DEF NotBeyond, k
  <2>12. ~low /\ ~top /\ ~mid /\ odd /\ ~last => NotBeyond(z, 3 * e + 2 * q)
    <3>1. k \in Int
      BY <1>1, <1>2 DEF k
    <3> QED BY <1>2, <2>4, <2>8, <2>10, <3>1 DEF NotBeyond
  <2> QED BY <2>5, <2>6, <2>7, <2>11, <2>12, Zenon DEF x, y, z, low, top, mid, odd, last
<1>5. w \in Rows
  BY Zenon DEF Passed
<1> QED BY <1>4, <1>5, Zenon DEF HalfDone, r

\* How often digits hold the radix after the first pass: the highest that is
\* carried from, less often.
Backs(f, m, d) == [p \in Places |-> IF p = f - 1 THEN 4 * m + 1 ELSE 3 * d + 2 * ScalarRadix]

(* They do. *)
LEMMA HalfDoneHolds ==
  ASSUME RoomForFolds, NEW m \in Nat, NEW d, NEW e, NEW q, SizesOf(m, d, e, q),
         NEW s \in Rows, \A p \in Places : NotBeyond(s[p], d),
         NEW f \in {12, 18}, NEW w, HalfDone(s, w, f, d, e, q)
  PROVE  Holds(w, Backs(f, m, d))
<1> DEFINE r == ScalarRadix
           k == 3 * d + 2 * r
           j == 4 * m + 1
<1>1. r \in Nat
  BY ScalarConstants
<1>2. /\ d \in Nat /\ e \in Nat /\ q \in Nat /\ d <= e /\ k * r = 3 * e + 2 * q
      /\ d <= q /\ j * r = 4 * d + r /\ r <= q
  BY Zenon DEF SizesOf
<1>3. k \in Nat /\ j \in Nat
  <2> HIDE DEF r
  <2> QED BY <1>1, <1>2
<1> HIDE DEF r, k, j
<1>4. ASSUME NEW p \in Places
      PROVE  IF p = f - 1 THEN NotBeyond(w[p], j * r) ELSE NotBeyond(w[p], k * r)
  <2>1. s[p] \in Int /\ w[p] \in Int /\ NotBeyond(s[p], d) /\ p \in Int
    BY RowType, NextPlaces, Zenon DEF HalfDone
  <2>2. IF p < f - 12 \/ p > f + 5 THEN w[p] = s[p]
        ELSE IF p >= f THEN w[p] = 0
        ELSE IF p % 2 = 0 THEN NotBeyond(2 * w[p], r)
        ELSE IF p = f - 1 THEN NotBeyond(w[p], 4 * d + r)
        ELSE NotBeyond(w[p], 3 * e + 2 * q)
    BY Zenon DEF HalfDone, r
  <2> DEFINE x == s[p]
             z == w[p]
  <2>3. x \in Int /\ z \in Int /\ NotBeyond(x, d)
    BY <2>1
  <2>4. CASE p = f - 1
    <3>1. ~(p < f - 12 \/ p > f + 5) /\ ~(p >= f) /\ ~(p % 2 = 0)
      BY <2>4
    <3> QED BY <1>2, <2>2, <2>4, <3>1, Zenon
  <2>5. CASE p # f - 1
    <3>1. \/ z = x \/ z = 0 \/ NotBeyond(2 * z, r) \/ NotBeyond(z, 3 * e + 2 * q)
      BY <2>2, <2>5, Zenon
    <3> HIDE DEF x, z
    <3>2. NotBeyond(z, 3 * e + 2 * q)
      BY <1>1, <1>2, <2>3, <3>1 DEF NotBeyond
    <3> QED BY <1>2, <2>5, <3>2, Zenon DEF z
  <2> QED BY <2>4, <2>5
<1>5. \A p \in Places : Backs(f, m, d)[p] = IF p = f - 1 THEN j ELSE k
  BY Zenon DEF Backs, j, k, r
<1>6. ASSUME NEW p \in Places
      PROVE  Backs(f, m, d)[p] \in Nat /\ NotBeyond(w[p], Backs(f, m, d)[p] * r)
  <2>1. CASE p = f - 1
    BY <1>3, <1>4, <1>5, <2>1, Zenon
  <2>2. CASE p # f - 1
    BY <1>3, <1>4, <1>5, <2>2, Zenon
  <2> QED BY <2>1, <2>2
<1> QED BY <1>6, Zenon DEF Holds, r

\* The row after both.
AllDone(s, x, f, n, m, d) ==
  /\ x \in Rows
  /\ \A p \in Places :
       IF p < f - 12 \/ p > f + 5 THEN x[p] = s[p]
       ELSE IF p > f THEN x[p] = 0
       ELSE IF p = f THEN NotBeyond(x[p], 4 * m + 1) /\ (n = 5 => x[p] = 0)
       ELSE /\ NotBeyond(x[p], 4 * d + 3 * ScalarRadix)
            /\ n = 6 /\ p = f - 1 => NotBeyond(2 * x[p], ScalarRadix)

(* What the second pass does. *)
LEMMA SecondPass ==
  ASSUME RoomForFolds, NEW m \in Nat, NEW d, NEW e, NEW q, SizesOf(m, d, e, q),
         NEW s \in Rows, NEW f \in {12, 18}, NEW w, HalfDone(s, w, f, d, e, q),
         NEW n \in {5, 6}, NEW x, Passed(w, x, f - 11, n, Backs(f, m, d))
  PROVE  AllDone(s, x, f, n, m, d)
<1> DEFINE r == ScalarRadix
           k == 3 * d + 2 * r
           j == 4 * m + 1
           a == f - 11
           B == Backs(f, m, d)
<1>1. r \in Nat /\ d \in Nat /\ j \in Nat
  <2>1. d \in Nat
    BY Zenon DEF SizesOf
  <2> QED BY <2>1, ScalarConstants
<1>2. k \in Nat
  <2> HIDE DEF r
  <2> QED BY <1>1
<1>3. \A p \in Places : B[p] = IF p = f - 1 THEN j ELSE k
  BY Zenon DEF Backs
<1> HIDE DEF r, B
<1>4. x \in Rows /\ w \in Rows
  BY Zenon DEF Passed, HalfDone
<1>5. ASSUME NEW p \in Places
      PROVE  IF p < f - 12 \/ p > f + 5 THEN x[p] = s[p]
             ELSE IF p > f THEN x[p] = 0
             ELSE IF p = f THEN NotBeyond(x[p], 4 * m + 1) /\ (n = 5 => x[p] = 0)
             ELSE /\ NotBeyond(x[p], 4 * d + 3 * r)
                  /\ n = 6 /\ p = f - 1 => NotBeyond(2 * x[p], r)
  <2>1. s[p] \in Int /\ x[p] \in Int /\ w[p] \in Int /\ p \in Int
    BY <1>4, RowType, NextPlaces, Zenon
  <2>2. IF p < f - 12 \/ p > f + 5 THEN w[p] = s[p]
        ELSE IF p >= f THEN w[p] = 0
        ELSE IF p % 2 = 0 THEN NotBeyond(2 * w[p], r)
        ELSE IF p = f - 1 THEN NotBeyond(w[p], 4 * d + r)
        ELSE NotBeyond(w[p], 3 * e + 2 * q)
    BY Zenon DEF HalfDone, r
  <2>3. IF p < a \/ p >= a + 2 * n THEN x[p] = w[p]
        ELSE IF p % 2 = a % 2 THEN NotBeyond(2 * x[p], r)
        ELSE NotBeyond(x[p] - w[p], B[p - 1])
    BY Zenon DEF Passed, r, B
  <2> DEFINE y == w[p]
             z == x[p]
  <2>4. y \in Int /\ z \in Int
    BY <2>1
  <2>5. CASE p < f - 12 \/ p > f + 5
    <3>1. p < a \/ p >= a + 2 * n
      BY <2>1, <2>5
    <3> QED BY <2>2, <2>3, <2>5, <3>1, Zenon
  <2>6. CASE p > f /\ p <= f + 5
    <3>1. p >= a + 2 * n /\ p >= f /\ ~(p < f - 12 \/ p > f + 5)
      BY <2>1, <2>6
    <3> QED BY <2>2, <2>3, <2>6, <3>1, Zenon
  <2>7. CASE p = f
    <3>1. /\ ~(p < f - 12 \/ p > f + 5) /\ p >= f /\ ~(p > f)
          /\ (n = 5 => p >= a + 2 * n)
          /\ (n = 6 => ~(p < a \/ p >= a + 2 * n) /\ p % 2 # a % 2)
          /\ (n = 5 \/ n = 6) /\ f - 1 \in Places
      BY <2>7 DEF Places
    <3>2. y = 0
      BY <2>2, <3>1, Zenon
    <3>3. n = 5 => z = 0
      BY <2>3, <3>1, <3>2, Zenon
    <3>4. n = 6 => NotBeyond(z - y, j)
      <4>1. B[p - 1] = j
        BY <1>3, <2>7, <3>1, Zenon
      <4> QED BY <2>3, <3>1, <4>1, Zenon
    <3> HIDE DEF y, z, j
    <3>5. NotBeyond(z, j)
      BY <1>1, <2>4, <3>1, <3>2, <3>3, <3>4 DEF NotBeyond
    <3> QED BY <2>7, <3>1, <3>3, <3>5, Zenon DEF z, j
  <2>8. CASE p < f /\ p >= f - 12
    <3>1. /\ ~(p < f - 12 \/ p > f + 5) /\ ~(p >= f) /\ ~(p > f) /\ p # f
      BY <2>1, <2>8
    <3>2. CASE p % 2 = 0
      <4>1. NotBeyond(2 * y, r) /\ p # f - 1
        BY <2>2, <3>1, <3>2
      <4>2. z = y \/ NotBeyond(z - y, k)
        <5>1. CASE p = f - 12
          <6>1. p < a
            BY <2>1, <5>1
          <6> QED BY <2>3, <6>1, Zenon
        <5>2. CASE p # f - 12
          <6>1. /\ ~(p < a \/ p >= a + 2 * n) /\ p % 2 # a % 2 /\ p - 1 \in Places /\ p - 1 # f - 1
            BY <2>1, <2>8, <3>2, <5>2 DEF Places
          <6>2. B[p - 1] = k
            BY <1>3, <6>1, Zenon
          <6> QED BY <2>3, <6>1, <6>2, Zenon
        <5> QED BY <5>1, <5>2
      <4> HIDE DEF y, z
      <4>3. NotBeyond(z, 4 * d + 3 * r)
        BY <1>1, <2>4, <4>1, <4>2 DEF NotBeyond
      <4> QED BY <3>1, <4>1, <4>3, Zenon DEF z
    <3>3. CASE p % 2 # 0
      <4>1. CASE p < a + 2 * n
        <5>1. ~(p < a \/ p >= a + 2 * n) /\ p % 2 = a % 2
          BY <2>1, <2>8, <3>3, <4>1
        <5>2. NotBeyond(2 * z, r)
          BY <2>3, <5>1, Zenon
        <5>3. NotBeyond(z, 4 * d + 3 * r)
          <6> HIDE DEF z
          <6> QED BY <1>1, <2>4, <5>2 DEF NotBeyond
        <5> QED BY <3>1, <5>2, <5>3, Zenon
      <4>2. CASE p >= a + 2 * n
        <5>1. p = f - 1 /\ n # 6
          BY <2>1, <2>8, <3>3, <4>2
        <5>2. z = y
          BY <2>3, <4>2, Zenon
        <5>3. NotBeyond(y, 4 * d + r)
          BY <2>2, <3>1, <3>3, <5>1, Zenon
        <5>4. NotBeyond(z, 4 * d + 3 * r)
          <6> HIDE DEF y, z
          <6> QED BY <1>1, <2>4, <5>2, <5>3 DEF NotBeyond
        <5> QED BY <3>1, <5>1, <5>4, Zenon
      <4> QED BY <2>1, <4>1, <4>2
    <3> QED BY <3>2, <3>3
  <2> QED BY <2>1, <2>5, <2>6, <2>7, <2>8
<1> QED BY <1>4, <1>5, Zenon DEF AllDone, r

\* Numbers that are the same modulo the order.
SameModOrder(a, b) == a % Order = b % Order

(* Sums and products of such numbers are such numbers. *)
LEMMA OrderSums ==
  ASSUME RoomForFolds, NEW a \in Int, NEW b \in Int, NEW c \in Int, NEW d \in Int,
         SameModOrder(a, b), SameModOrder(c, d)
  PROVE  SameModOrder(a + c, b + d) /\ SameModOrder(a * c, b * d)
<1>1. /\ ((a % Order) + (c % Order)) % Order = (a + c) % Order
      /\ ((b % Order) + (d % Order)) % Order = (b + d) % Order
      /\ ((a % Order) * (c % Order)) % Order = (a * c) % Order
      /\ ((b % Order) * (d % Order)) % Order = (b * d) % Order
  BY BothReduced, OrderSize, Zenon
<1> QED BY <1>1, Zenon DEF SameModOrder

(* Multiples of the order do not matter. *)
LEMMA OrderMultiples ==
  ASSUME RoomForFolds, NEW a \in Int, NEW q \in Int
  PROVE  SameModOrder(a - q * Order, a)
<1> DEFINE p == Order
<1>1. p \in Nat \ {0}
  BY OrderSize
<1> HIDE DEF p
<1>2. a - q * p \in Int /\ a - q * p = a + p * (-q) /\ -q \in Int
  <2>1. q * p \in Int /\ p * (-q) = -(q * p) /\ -q \in Int
    BY <1>1
  <2> DEFINE z == q * p
  <2> HIDE DEF z
  <2>2. z \in Int /\ p * (-q) = -z
    BY <2>1 DEF z
  <2>3. a - z \in Int /\ a - z = a + p * (-q)
    BY <2>2
  <2> QED BY <2>1, <2>3 DEF z
<1> DEFINE x == a - q * p
           y == -q
<1>3. x \in Int /\ y \in Int /\ x = a + p * y
  BY <1>2, Zenon
<1> HIDE DEF x, y
<1>4. x % p = a % p
  BY <1>1, <1>3, SameRemainder, Zenon
<1> QED BY <1>4, Zenon DEF SameModOrder, p, x

(* Nor does reducing. *)
LEMMA OrderItself ==
  ASSUME RoomForFolds, NEW a \in Int
  PROVE  SameModOrder(a % Order, a) /\ a % Order \in 0..(Order - 1)
<1> DEFINE p == Order
<1>1. p \in Nat \ {0}
  BY OrderSize
<1> HIDE DEF p
<1>2. a % p \in 0..(p - 1)
  BY <1>1
<1>3. ((a % p) + 0) % p = (a + 0) % p
  <2>1. 0 \in Int
    OBVIOUS
  <2> QED BY <1>1, <2>1, ReducedFirst, Zenon
<1>4. a + 0 = a /\ (a % p) + 0 = a % p
  BY <1>2
<1> QED BY <1>2, <1>3, <1>4, Zenon DEF SameModOrder, p

(* A fold keeps a row's number modulo the order. *)
LEMMA FoldKeeps ==
  ASSUME RoomForFolds, NEW s \in Rows, NEW i \in 12..23
  PROVE  Fold(s, i) \in Rows /\ SameModOrder(Worth(Fold(s, i)), Worth(s))
<1> DEFINE q == s[i] * Scale[i - 12]
           x == Worth(s)
<1>1. q \in Int
  <2>1. i \in Places /\ i - 12 \in Places
    BY DEF Places
  <2>2. s[i] \in Int /\ Scale[i - 12] \in Int
    BY <2>1, RowType, Zenon
  <2> QED BY <2>2
<1>2. x \in Int /\ Worth(Fold(s, i)) = x - q * Order /\ Fold(s, i) \in Rows
  BY RowsAdd, FoldWorth, FoldParts, Zenon
<1> HIDE DEF q, x
<1>3. SameModOrder(x - q * Order, x)
  BY <1>1, <1>2, OrderMultiples, Zenon
<1> QED BY <1>2, <1>3, Zenon DEF x

\* g goes through six folds and comes to a row of the same number.
SixFoldsTo(g, s, f, F) ==
  /\ g[0] = s /\ SixFolds(g, f) /\ g[6] = FoldLeft(Fold, s, F)
  /\ g[6] \in Rows /\ SameModOrder(Worth(g[6]), Worth(s))

(* Six folds from one place down, and what they come to. *)
LEMMA SixFoldsGo ==
  ASSUME RoomForFolds, NEW s \in Rows, NEW f \in {12, 18}, NEW F, DOMAIN F = 1..6,
         \A j \in 0..5 : F[j + 1] = (f + 5) - j
  PROVE  \E g : SixFoldsTo(g, s, f, F)
<1> DEFINE K == {v \in Rows : SameModOrder(Worth(v), Worth(s))}
           I == 12..23
<1>1. s \in K
  BY Zenon DEF SameModOrder
<1>2. \A k \in 1..6 : F[k] \in I
  <2> TAKE k \in 1..6
  <2>1. k - 1 \in 0..5 /\ (k - 1) + 1 = k /\ (f + 5) - (k - 1) \in I
    OBVIOUS
  <2> QED BY <2>1, Zenon
<1>3. \A v \in K, i \in I : Fold(v, i) \in K
  <2> TAKE v \in K, i \in I
  <2>1. v \in Rows /\ SameModOrder(Worth(v), Worth(s)) /\ i \in 12..23
    OBVIOUS
  <2>2. Fold(v, i) \in Rows /\ SameModOrder(Worth(Fold(v, i)), Worth(v))
    BY <2>1, FoldKeeps, Zenon
  <2> QED BY <2>1, <2>2, Zenon DEF SameModOrder
<1>4. PICK g : FoldTrail(K, s, 6, F, g)
  <2>1. 6 \in Nat
    OBVIOUS
  <2> HIDE DEF K, I
  <2> QED BY <1>1, <1>2, <1>3, <2>1, FoldSteps, Zenon
<1>5. g[6] \in K
  <2>1. 6 \in 0..6
    OBVIOUS
  <2> QED BY <1>4, <2>1, Zenon DEF FoldTrail
<1>6. SixFolds(g, f)
  <2>1. ASSUME NEW j \in 0..5
        PROVE  g[j + 1] = Fold(g[j], (f + 5) - j)
    <3>1. j + 1 \in 1..6 /\ (j + 1) - 1 = j
      OBVIOUS
    <3>2. g[j + 1] = Fold(g[(j + 1) - 1], F[j + 1])
      BY <1>4, <3>1, Zenon DEF FoldTrail
    <3> QED BY <3>1, <3>2, Zenon
  <2> QED BY <2>1, Zenon DEF SixFolds
<1>7. g[0] = s /\ g[6] = FoldLeft(Fold, s, F)
  BY <1>4, Zenon DEF FoldTrail
<1>8. g[6] \in Rows /\ SameModOrder(Worth(g[6]), Worth(s))
  BY <1>5, Zenon
<1>9. SixFoldsTo(g, s, f, F)
  BY <1>6, <1>7, <1>8, Zenon DEF SixFoldsTo
<1> QED BY <1>9

\* g goes through n rounded carries, of the places that P says.
RoundedTo(g, s, n, P) ==
  /\ g[0] = s /\ g[n] = FoldLeft(Rounded, s, P)
  /\ g[n] \in Rows /\ Worth(g[n]) = Worth(s)
  /\ \A k \in 0..n : g[k] \in Rows
  /\ \A k \in 1..n : g[k] = Rounded(g[k - 1], P[k])

(* Rounded carries in a row, and what they come to. *)
LEMMA RoundedGo ==
  ASSUME RoomForFolds, NEW s \in Rows, NEW n \in Nat, NEW P, DOMAIN P = 1..n,
         \A k \in 1..n : P[k] \in 0..22
  PROVE  \E g : RoundedTo(g, s, n, P)
<1> DEFINE K == {v \in Rows : Worth(v) = Worth(s)}
           I == 0..22
<1>1. s \in K
  OBVIOUS
<1>2. \A v \in K, i \in I : Rounded(v, i) \in K
  <2> TAKE v \in K, i \in I
  <2>1. v \in Rows /\ Worth(v) = Worth(s) /\ i \in 0..22
    OBVIOUS
  <2>2. Rounded(v, i) \in Rows /\ Worth(Rounded(v, i)) = Worth(v)
    BY <2>1, RoundedParts, Zenon
  <2> QED BY <2>1, <2>2, Zenon
<1>3. \A v \in K : v \in Rows /\ Worth(v) = Worth(s)
  OBVIOUS
<1>4. PICK g : RoundedTrail(K, s, n, P, g)
  <2>1. \A k \in 1..n : P[k] \in I
    OBVIOUS
  <2> HIDE DEF K, I
  <2> QED BY <1>1, <1>2, <2>1, RoundedSteps, Zenon
<1> HIDE DEF K
<1>5. \A k \in 0..n : g[k] \in Rows
  BY <1>3, <1>4, Zenon DEF RoundedTrail
<1>6. n \in 0..n
  OBVIOUS
<1>7. g[n] \in Rows /\ Worth(g[n]) = Worth(s)
  BY <1>3, <1>4, <1>6, Zenon DEF RoundedTrail
<1>8. RoundedTo(g, s, n, P)
  BY <1>4, <1>5, <1>7, Zenon DEF RoundedTrail, RoundedTo
<1> QED BY <1>8

\* The places that are carried from, in order: every other one, twice.
TwoPasses(P, n, f) ==
  /\ DOMAIN P = 1..(6 + n)
  /\ \A j \in 0..5 : P[j + 1] = (f - 12) + 2 * j
  /\ \A j \in 0..(n - 1) : P[6 + (j + 1)] = (f - 11) + 2 * j

(* Six folds and two passes of rounded carries leave small digits, at fewer
   places, of the same number modulo the order. *)
LEMMA FoldsAndPasses ==
  ASSUME RoomForFolds, NEW m \in Nat, 8 * m + 8 <= ScalarRadix,
         NEW s \in Rows, \A p \in Places : NotBeyond(s[p], m * ScalarRadix),
         NEW f \in {12, 18}, NEW n \in {5, 6},
         NEW F, DOMAIN F = 1..6, \A j \in 0..5 : F[j + 1] = (f + 5) - j,
         NEW P, TwoPasses(P, n, f)
  PROVE  /\ AllDone(s, FoldLeft(Rounded, FoldLeft(Fold, s, F), P), f, n, m, m * ScalarRadix)
         /\ SameModOrder(Worth(FoldLeft(Rounded, FoldLeft(Fold, s, F), P)), Worth(s))
<1> DEFINE r == ScalarRadix
           d == m * r
           e == d * r
           q == r * r
           x == FoldLeft(Rounded, FoldLeft(Fold, s, F), P)
<1>1. SizesOf(m, d, e, q)
  BY SizesAre
<1>2. \A p \in Places : NotBeyond(s[p], d)
  OBVIOUS
<1>3. d \in Nat
  BY <1>1, Zenon DEF SizesOf
<1> HIDE DEF d, e, q
<1>4a. PICK g : SixFoldsTo(g, s, f, F)
  BY SixFoldsGo, Zenon
<1>4. /\ g[0] = s /\ SixFolds(g, f) /\ g[6] = FoldLeft(Fold, s, F)
      /\ g[6] \in Rows /\ SameModOrder(Worth(g[6]), Worth(s))
  BY <1>4a, Zenon DEF SixFoldsTo
<1> DEFINE v == g[6]
<1>5. FoldedTo(s, v, f, d, 6)
  <2>1. \A p \in Places : p >= f /\ p <= f + 5 => NotBeyond(s[p], d)
    BY <1>2, Zenon
  <2> QED BY <1>3, <1>4, <2>1, FoldPass, Zenon
<1>6. v \in Rows /\ v = FoldLeft(Fold, s, F) /\ SameModOrder(Worth(v), Worth(s))
  BY <1>4, Zenon
<1> HIDE DEF v
<1> DEFINE N == 6 + n
<1>7. N \in Nat /\ \A k \in 1..N : P[k] \in 0..22
  <2>1. N \in Nat /\ n \in Nat /\ f \in Int
    OBVIOUS
  <2>2. ASSUME NEW k \in 1..N
        PROVE  P[k] \in 0..22
    <3>1. CASE k <= 6
      <4> DEFINE j == k - 1
      <4>1. j \in 0..5 /\ j + 1 = k /\ (f - 12) + 2 * j \in 0..22
        BY <3>1
      <4> HIDE DEF j
      <4> QED BY <4>1, Zenon DEF TwoPasses
    <3>2. CASE k > 6
      <4> DEFINE j == k - 7
      <4>1. j \in 0..(n - 1) /\ 6 + (j + 1) = k /\ (f - 11) + 2 * j \in 0..22
        BY <2>1, <3>2
      <4> HIDE DEF j
      <4> QED BY <4>1, Zenon DEF TwoPasses
    <3> QED BY <2>1, <3>1, <3>2
  <2> QED BY <2>1, <2>2, Zenon
<1>8. DOMAIN P = 1..N
  BY Zenon DEF TwoPasses
<1>9a. PICK h : RoundedTo(h, v, N, P)
  <2> HIDE DEF N
  <2> QED BY <1>6, <1>7, <1>8, RoundedGo, Zenon
<1>9. /\ h[0] = v /\ h[N] = FoldLeft(Rounded, v, P)
      /\ h[N] \in Rows /\ Worth(h[N]) = Worth(v)
      /\ \A k \in 1..N : h[k] = Rounded(h[k - 1], P[k])
  BY <1>9a, Zenon DEF RoundedTo
<1>10. Every2nd(h, 0, 6, f - 12)
  <2>1. ASSUME NEW j \in 0..(6 - 1)
        PROVE  h[0 + (j + 1)] = Rounded(h[0 + j], (f - 12) + 2 * j)
    <3>1. j \in 0..5 /\ j + 1 \in 1..N /\ (j + 1) - 1 = j /\ 0 + (j + 1) = j + 1 /\ 0 + j = j
      OBVIOUS
    <3>2. h[j + 1] = Rounded(h[(j + 1) - 1], P[j + 1])
      BY <1>9, <3>1, Zenon
    <3>3. P[j + 1] = (f - 12) + 2 * j
      BY <3>1, Zenon DEF TwoPasses
    <3> QED BY <3>1, <3>2, <3>3, Zenon
  <2> QED BY <2>1, Zenon DEF Every2nd
<1>11. Every2nd(h, 6, n, f - 11)
  <2>1. ASSUME NEW j \in 0..(n - 1)
        PROVE  h[6 + (j + 1)] = Rounded(h[6 + j], (f - 11) + 2 * j)
    <3>1. 6 + (j + 1) \in 1..N /\ (6 + (j + 1)) - 1 = 6 + j
      OBVIOUS
    <3>2. h[6 + (j + 1)] = Rounded(h[(6 + (j + 1)) - 1], P[6 + (j + 1)])
      BY <1>9, <3>1, Zenon
    <3>3. P[6 + (j + 1)] = (f - 11) + 2 * j
      BY Zenon DEF TwoPasses
    <3> QED BY <3>1, <3>2, <3>3, Zenon
  <2> QED BY <2>1, Zenon DEF Every2nd
<1> DEFINE w == h[6]
           k == 3 * d + r
<1>12. Passed(v, w, f - 12, 6, Everywhere(k))
  <2>1. Holds(v, Everywhere(k))
    BY <1>1, <1>2, <1>5, FoldedHolds, Zenon
  <2> DEFINE a == f - 12
  <2>2. a \in Nat /\ 6 \in Nat /\ a + 2 * 6 <= 24 /\ 0 \in Nat /\ 0 + 6 = 6
    OBVIOUS
  <2>3. Every2nd(h, 0, 6, a) /\ h[0] = v
    BY <1>9, <1>10, Zenon
  <2> HIDE DEF a, k
  <2>4. Passed(v, h[0 + 6], a, 6, Everywhere(k))
    BY <1>6, <2>1, <2>2, <2>3, RoundedPass, Zenon
  <2> QED BY <2>2, <2>4, Zenon DEF a
<1>13. HalfDone(s, w, f, d, e, q)
  BY <1>1, <1>2, <1>5, <1>12, FirstPass, Zenon
<1>14. Passed(w, x, f - 11, n, Backs(f, m, d))
  <2>1. Holds(w, Backs(f, m, d)) /\ w \in Rows
    BY <1>1, <1>2, <1>13, HalfDoneHolds, Zenon DEF HalfDone
  <2> DEFINE a == f - 11
  <2>2. a \in Nat /\ 6 \in Nat /\ n \in Nat /\ a + 2 * n <= 24
    OBVIOUS
  <2>3. Every2nd(h, 6, n, a)
    BY <1>11, Zenon
  <2>4. w = h[6] /\ x = h[6 + n]
    BY <1>6, <1>9, Zenon
  <2> HIDE DEF a, w, x
  <2>5. Passed(w, h[6 + n], a, n, Backs(f, m, d))
    BY <2>1, <2>2, <2>3, <2>4, RoundedPass, Zenon
  <2> QED BY <2>4, <2>5, Zenon DEF a
<1>15. AllDone(s, x, f, n, m, d)
  BY <1>1, <1>13, <1>14, SecondPass, Zenon
<1>16. SameModOrder(Worth(x), Worth(s))
  BY <1>6, <1>9, Zenon DEF SameModOrder
<1> QED BY <1>15, <1>16, Zenon DEF x, d, r

\* What one round of folds and passes makes of the size of digits.
Rounds(m) == 4 * m + 3

(* The upper digits folded: eighteen are left. *)
LEMMA UpperRight ==
  ASSUME RoomForFolds, NEW m \in Nat, 8 * m + 8 <= ScalarRadix,
         NEW s \in Rows, \A p \in Places : NotBeyond(s[p], m * ScalarRadix)
  PROVE  /\ Upper(s) \in Rows /\ SameModOrder(Worth(Upper(s)), Worth(s))
         /\ \A p \in Places : NotBeyond(Upper(s)[p], Rounds(m) * ScalarRadix)
         /\ \A p \in Places : p >= 18 => Upper(s)[p] = 0
<1> DEFINE F == <<23, 22, 21, 20, 19, 18>>
           P == <<6, 8, 10, 12, 14, 16, 7, 9, 11, 13, 15>>
           r == ScalarRadix
           d == m * r
           x == FoldLeft(Rounded, FoldLeft(Fold, s, F), P)
<1>1. x = Upper(s)
  BY Zenon DEF Upper
<1>2. DOMAIN F = 1..6 /\ \A j \in 0..5 : F[j + 1] = (18 + 5) - j
  OBVIOUS
<1>3. TwoPasses(P, 5, 18)
  <2>1. /\ DOMAIN P = 1..(6 + 5) /\ \A j \in 0..5 : P[j + 1] = (18 - 12) + 2 * j
    OBVIOUS
  <2>2. \A j \in 0..(5 - 1) : P[6 + (j + 1)] = (18 - 11) + 2 * j
    OBVIOUS
  <2> HIDE DEF P
  <2> QED BY <2>1, <2>2 DEF TwoPasses
<1> HIDE DEF F, P
<1>4. /\ AllDone(s, x, 18, 5, m, d)
      /\ SameModOrder(Worth(x), Worth(s))
  <2>1. 18 \in {12, 18} /\ 5 \in {5, 6}
    OBVIOUS
  <2> QED BY <1>2, <1>3, <2>1, FoldsAndPasses
<1>5. SizesOf(m, d, d * r, r * r)
  BY SizesAre
<1> HIDE DEF x, d
<1>6. x \in Rows
  BY <1>4 DEF AllDone
<1>7. ASSUME NEW p \in Places
      PROVE  NotBeyond(x[p], 4 * d + 3 * r) /\ (p >= 18 => x[p] = 0)
  <2>1. IF p < 18 - 12 \/ p > 18 + 5 THEN x[p] = s[p]
        ELSE IF p > 18 THEN x[p] = 0
        ELSE IF p = 18 THEN x[p] = 0
        ELSE NotBeyond(x[p], 4 * d + 3 * r)
    BY <1>4 DEF AllDone
  <2>2. NotBeyond(s[p], d) /\ s[p] \in Int /\ x[p] \in Int
    BY <1>6, RowType DEF d
  <2>3. d \in Nat /\ r \in Nat
    BY <1>5, ScalarConstants DEF SizesOf
  <2>4. p \in 0..23
    BY DEF Places
  <2> HIDE DEF r
  <2> QED BY <2>1, <2>2, <2>3, <2>4 DEF NotBeyond
<1>8. 4 * d + 3 * r = Rounds(m) * r
  BY <1>5, Zenon DEF SizesOf, Rounds
<1> QED BY <1>1, <1>4, <1>6, <1>7, <1>8, Zenon

(* And the lower ones: twelve are left, with little in the thirteenth. *)
LEMMA LowerRight ==
  ASSUME RoomForFolds, NEW m \in Nat, 8 * m + 8 <= ScalarRadix,
         NEW s \in Rows, \A p \in Places : NotBeyond(s[p], m * ScalarRadix),
         \A p \in Places : p >= 18 => s[p] = 0
  PROVE  /\ Lower(s) \in Rows /\ SameModOrder(Worth(Lower(s)), Worth(s))
         /\ \A p \in Places : p <= 10 => NotBeyond(Lower(s)[p], Rounds(m) * ScalarRadix)
         /\ NotBeyond(2 * Lower(s)[11], ScalarRadix) /\ NotBeyond(Lower(s)[12], Rounds(m))
         /\ \A p \in Places : p >= 13 => Lower(s)[p] = 0
<1> DEFINE F == <<17, 16, 15, 14, 13, 12>>
           P == <<0, 2, 4, 6, 8, 10, 1, 3, 5, 7, 9, 11>>
           r == ScalarRadix
           d == m * r
           x == FoldLeft(Rounded, FoldLeft(Fold, s, F), P)
<1>1. x = Lower(s)
  BY Zenon DEF Lower
<1>2. DOMAIN F = 1..6 /\ \A j \in 0..5 : F[j + 1] = (12 + 5) - j
  OBVIOUS
<1>3. TwoPasses(P, 6, 12)
  <2>1. /\ DOMAIN P = 1..(6 + 6) /\ \A j \in 0..5 : P[j + 1] = (12 - 12) + 2 * j
    OBVIOUS
  <2>2. \A j \in 0..(6 - 1) : P[6 + (j + 1)] = (12 - 11) + 2 * j
    OBVIOUS
  <2> HIDE DEF P
  <2> QED BY <2>1, <2>2 DEF TwoPasses
<1> HIDE DEF F, P
<1>4. /\ AllDone(s, x, 12, 6, m, d)
      /\ SameModOrder(Worth(x), Worth(s))
  <2>1. 12 \in {12, 18} /\ 6 \in {5, 6}
    OBVIOUS
  <2> QED BY <1>2, <1>3, <2>1, FoldsAndPasses
<1>5. SizesOf(m, d, d * r, r * r)
  BY SizesAre
<1> HIDE DEF x, d
<1>6. x \in Rows
  BY <1>4 DEF AllDone
<1>7. ASSUME NEW p \in Places
      PROVE  IF p > 17 THEN x[p] = s[p]
             ELSE IF p > 12 THEN x[p] = 0
             ELSE IF p = 12 THEN NotBeyond(x[p], 4 * m + 1)
             ELSE NotBeyond(x[p], 4 * d + 3 * r) /\ (p = 11 => NotBeyond(2 * x[p], r))
  <2>1. IF p < 12 - 12 \/ p > 12 + 5 THEN x[p] = s[p]
        ELSE IF p > 12 THEN x[p] = 0
        ELSE IF p = 12 THEN NotBeyond(x[p], 4 * m + 1)
        ELSE NotBeyond(x[p], 4 * d + 3 * r) /\ (p = 12 - 1 => NotBeyond(2 * x[p], r))
    BY <1>4 DEF AllDone
  <2>2. p \in 0..23
    BY DEF Places
  <2> HIDE DEF r
  <2> QED BY <2>1, <2>2
<1>8. 4 * d + 3 * r = Rounds(m) * r
  BY <1>5, Zenon DEF SizesOf, Rounds
<1>9. \A p \in Places : p <= 10 => NotBeyond(x[p], Rounds(m) * r)
  <2> TAKE p \in Places
  <2>1. p <= 10 => ~(p > 17) /\ ~(p > 12) /\ p # 12
    BY DEF Places
  <2> QED BY <1>7, <1>8, <2>1, Zenon
<1>10. NotBeyond(2 * x[11], r)
  <2>1. 11 \in Places /\ ~(11 > 17) /\ ~(11 > 12) /\ 11 # 12
    BY DEF Places
  <2> QED BY <1>7, <2>1
<1>11. NotBeyond(x[12], Rounds(m))
  <2>1. 12 \in Places /\ ~(12 > 17) /\ ~(12 > 12)
    BY DEF Places
  <2>2. NotBeyond(x[12], 4 * m + 1) /\ x[12] \in Int
    BY <1>6, <1>7, <2>1, RowType
  <2> QED BY <2>2 DEF NotBeyond, Rounds
<1>12. \A p \in Places : p >= 13 => x[p] = 0
  <2> TAKE p \in Places
  <2>1. p >= 13 => p > 12 /\ (p > 17 => p >= 18)
    BY DEF Places
  <2> QED BY <1>7, <2>1, Zenon
<1> QED BY <1>1, <1>4, <1>6, <1>9, <1>10, <1>11, <1>12

-----------------------------------------------------------------------------
\* The twelve digits at the end.

(* A carry that leaves a digit. *)
LEMMA FlooredParts ==
  ASSUME NEW s \in Rows, NEW i \in 0..22
  PROVE  /\ Floored(s, i) \in Rows /\ Worth(Floored(s, i)) = Worth(s)
         /\ Floored(s, i)[i] \in 0..(ScalarRadix - 1)
         /\ \A k \in Places : k # i /\ k # i + 1 => Floored(s, i)[k] = s[k]
<1> DEFINE x == s[i]
           r == ScalarRadix
           c == x \div r
           g == Floored(s, i)
<1>1. i \in Places
  BY DEF Places
<1>2. x \in Int /\ r \in Nat \ {0} /\ r \in Int
  BY <1>1, RowType, ScalarConstants, Zenon
<1>3. c \in Int /\ x - c * r \in 0..(r - 1)
  <2> HIDE DEF x, r
  <2>1. x = r * (x \div r) + (x % r) /\ x % r \in 0..(r - 1) /\ x \div r \in Int
    BY <1>2, Division
  <2>2. c \in Int /\ x = r * c + (x % r)
    BY <2>1, Zenon DEF c
  <2> HIDE DEF c
  <2> DEFINE z == c * r
             y == x % r
  <2>3. z \in Int /\ r * c = z
    BY <1>2, <2>2
  <2>4. x = z + y /\ y \in 0..(r - 1)
    BY <2>1, <2>2, <2>3
  <2> HIDE DEF z, y
  <2>5. x - z = y
    BY <1>2, <2>3, <2>4
  <2> QED BY <2>2, <2>4, <2>5 DEF z
<1>4. g = CarryOf(s, i, c)
  BY Zenon DEF Floored
<1> HIDE DEF c, g
<1>5. /\ g \in Rows /\ Worth(g) = Worth(s) /\ g[i] = x - c * r
      /\ \A k \in Places : k # i /\ k # i + 1 => g[k] = s[k]
  BY <1>3, <1>4, CarryOfWorth, Zenon
<1> QED BY <1>3, <1>5, Zenon DEF g, x, r

\* What such carries make of a row: digits below place n, nothing else above.
FlooredTo(s, v, n) ==
  /\ v \in Rows /\ Worth(v) = Worth(s)
  /\ \A p \in Places : /\ p < n => v[p] \in 0..(ScalarRadix - 1)
                       /\ p > n => v[p] = s[p]

(* They do, one after the other. *)
LEMMA FlooredGo ==
  ASSUME NEW s \in Rows, NEW n \in 0..23, NEW P, DOMAIN P = 1..n, \A k \in 1..n : P[k] = k - 1
  PROVE  FlooredTo(s, FoldLeft(Floored, s, P), n)
<1> DEFINE I == 0..22
<1>1. \A v \in Rows, i \in I : Floored(v, i) \in Rows
  BY FlooredParts, Zenon
<1>2. n \in Nat /\ \A k \in 1..n : P[k] \in I
  <2>1. n \in Nat /\ \A k \in 1..n : k - 1 \in I
    OBVIOUS
  <2> QED BY <2>1, Zenon
<1>3. PICK g : FlooredTrail(Rows, s, n, P, g)
  <2> HIDE DEF I
  <2> QED BY <1>1, <1>2, FlooredSteps, Zenon
<1> DEFINE S == {j \in 0..n : FlooredTo(s, g[j], j)}
<1>4. 0 \in S
  <2>1. \A p \in Places : ~(p < 0)
    BY DEF Places
  <2>2. 0 \in 0..n
    OBVIOUS
  <2>3. g[0] = s
    BY <1>3, Zenon DEF FlooredTrail
  <2>4. FlooredTo(s, s, 0)
    BY <2>1, Zenon DEF FlooredTo
  <2> QED BY <2>2, <2>3, <2>4, Zenon
<1>5. \A j \in 0..(n - 1) : j \in S => j + 1 \in S
  <2> TAKE j \in 0..(n - 1)
  <2> HAVE j \in S
  <2>1. j \in 0..22 /\ j + 1 \in 1..n /\ j + 1 \in 0..n /\ (j + 1) - 1 = j /\ j \in Int
    OBVIOUS
  <2>2. P[j + 1] = j
    BY <2>1, Zenon
  <2>3. g[j + 1] = Floored(g[j], j)
    <3>1. g[j + 1] = Floored(g[(j + 1) - 1], P[j + 1])
      BY <1>3, <2>1, Zenon DEF FlooredTrail
    <3> QED BY <2>1, <2>2, <3>1, Zenon
  <2>4. FlooredTo(s, g[j], j)
    OBVIOUS
  <2> DEFINE v == g[j]
             w == g[j + 1]
  <2>5. v \in Rows /\ w = Floored(v, j)
    BY <2>3, <2>4, Zenon DEF FlooredTo
  <2> HIDE DEF v, w
  <2>6. /\ w \in Rows /\ Worth(w) = Worth(v) /\ w[j] \in 0..(ScalarRadix - 1)
        /\ \A k \in Places : k # j /\ k # j + 1 => w[k] = v[k]
    BY <2>1, <2>5, FlooredParts, Zenon
  <2>7. ASSUME NEW p \in Places
        PROVE  /\ p < j + 1 => w[p] \in 0..(ScalarRadix - 1)
               /\ p > j + 1 => w[p] = s[p]
    <3>1. /\ p < j + 1 => p < j \/ p = j
          /\ p < j => p # j /\ p # j + 1
          /\ p > j + 1 => p > j /\ p # j /\ p # j + 1
      BY <2>1 DEF Places
    <3>2. /\ p < j => v[p] \in 0..(ScalarRadix - 1)
          /\ p > j => v[p] = s[p]
      BY <2>4, Zenon DEF FlooredTo, v
    <3> QED BY <2>6, <3>1, <3>2, Zenon
  <2>8. FlooredTo(s, w, j + 1)
    BY <2>4, <2>6, <2>7, Zenon DEF FlooredTo, v
  <2> QED BY <2>1, <2>8, Zenon DEF w
<1>6. \A j \in 0..n : j \in S
  <2> HIDE DEF S
  <2> QED BY <1>2, <1>4, <1>5, Upwards, Zenon
<1>7. n \in 0..n
  BY <1>2
<1>8. FlooredTo(s, g[n], n)
  BY <1>6, <1>7, Zenon
<1> QED BY <1>3, <1>8, Zenon DEF FlooredTrail

(* The numbers of lowest digits are integers, and each adds the next digit. *)
LEMMA LowestSteps ==
  ASSUME NEW s \in Rows
  PROVE  /\ Lowest(s)[0] = 0 /\ \A i \in 0..24 : Lowest(s)[i] \in Int /\ Scale[i] \in Nat \ {0}
         /\ \A i \in Places : Lowest(s)[i + 1] = Lowest(s)[i] + s[i] * Scale[i]
<1>1. Adds(s, Lowest(s))
  BY RowsAdd, Zenon
<1>2. \A i \in 0..24 : Lowest(s)[i] \in Int
  BY <1>1, Zenon DEF Adds
<1> QED BY <1>1, <1>2, Scales, Zenon DEF Adds

(* Digits fill their weights. *)
LEMMA DigitsFill ==
  ASSUME NEW s \in Rows, NEW n \in 0..24,
         \A p \in Places : p < n => s[p] \in 0..(ScalarRadix - 1)
  PROVE  Lowest(s)[n] \in 0..(Scale[n] - 1)
<1> DEFINE u == Lowest(s)
           S == {i \in 0..n : u[i] \in 0..(Scale[i] - 1)}
<1>1. /\ u[0] = 0 /\ \A i \in 0..24 : u[i] \in Int /\ Scale[i] \in Nat \ {0}
      /\ \A i \in Places : u[i + 1] = u[i] + s[i] * Scale[i]
  BY LowestSteps, Zenon
<1> HIDE DEF u
<1>2. 0 \in S
  <2>1. Scale[0] = 1 /\ 0 \in 0..n
    BY Scales
  <2> QED BY <1>1, <2>1
<1>3. \A i \in 0..(n - 1) : i \in S => i + 1 \in S
  <2> TAKE i \in 0..(n - 1)
  <2> HAVE i \in S
  <2>1. i \in Places /\ i < n /\ i + 1 \in 0..n /\ i \in 0..24
    BY DEF Places
  <2> DEFINE x == s[i]
             w == Scale[i]
             r == ScalarRadix
             y == u[i]
  <2>2. /\ x \in 0..(r - 1) /\ w \in Nat \ {0} /\ y \in 0..(w - 1) /\ r \in Nat
        /\ u[i + 1] = y + x * w /\ Scale[i + 1] = r * w
    BY <1>1, <2>1, Scales, ScalarConstants
  <2> HIDE DEF x, w, r, y
  <2>3. y + x * w \in 0..(r * w - 1)
    <3>1. x * w >= 0 /\ x * w <= (r - 1) * w /\ (r - 1) * w = r * w - w /\ r * w \in Int
          /\ x * w \in Int
      BY <2>2
    <3> DEFINE a == x * w
               b == r * w
    <3>2. a >= 0 /\ a <= b - w /\ a \in Int /\ b \in Int
      BY <3>1
    <3> HIDE DEF a, b
    <3>3. y + a \in 0..(b - 1)
      BY <2>2, <3>2
    <3> QED BY <3>3 DEF a, b
  <2> QED BY <2>1, <2>2, <2>3, Zenon
<1>4. \A i \in 0..n : i \in S
  <2>1. n \in Nat
    OBVIOUS
  <2> HIDE DEF S
  <2> QED BY <1>2, <1>3, <2>1, Upwards, Zenon
<1>5. n \in 0..n
  OBVIOUS
<1> QED BY <1>4, <1>5, Zenon DEF u

(* Zeros add nothing. *)
LEMMA ZerosAbove ==
  ASSUME NEW s \in Rows, NEW n \in 0..24, \A p \in Places : p >= n => s[p] = 0
  PROVE  Worth(s) = Lowest(s)[n]
<1> DEFINE u == Lowest(s)
           m == 24 - n
           S == {i \in 0..m : u[n + i] = u[n]}
<1>1. /\ \A i \in 0..24 : u[i] \in Int /\ Scale[i] \in Nat \ {0}
      /\ \A i \in Places : u[i + 1] = u[i] + s[i] * Scale[i]
  BY LowestSteps, Zenon
<1> HIDE DEF u
<1>2. 0 \in S
  <2>1. n + 0 = n /\ 0 \in 0..m
    OBVIOUS
  <2> QED BY <2>1, Zenon
<1>3. \A i \in 0..(m - 1) : i \in S => i + 1 \in S
  <2> TAKE i \in 0..(m - 1)
  <2> HAVE i \in S
  <2>1. /\ n + i \in Places /\ n + i >= n /\ n + i \in 0..24
        /\ (n + i) + 1 = n + (i + 1) /\ i + 1 \in 0..m
    BY DEF Places
  <2>2. u[n + (i + 1)] = u[n + i] + 0 * Scale[n + i]
    BY <1>1, <2>1, Zenon
  <2>3. u[n + i] + 0 * Scale[n + i] = u[n + i]
    BY <1>1, <2>1
  <2> QED BY <2>1, <2>2, <2>3, Zenon
<1>4. \A i \in 0..m : i \in S
  <2>1. m \in Nat
    OBVIOUS
  <2> HIDE DEF S, m
  <2> QED BY <1>2, <1>3, <2>1, Upwards, Zenon
<1>5. m \in 0..m /\ n + m = 24
  OBVIOUS
<1> QED BY <1>4, <1>5, Zenon DEF u, Worth

(* Digits that are not beyond m radixes come to little more than m times the
   weight above them. *)
LEMMA LowestBounded ==
  ASSUME NEW s \in Rows, NEW m \in Nat, NEW n \in 0..24,
         \A p \in Places : p < n => NotBeyond(s[p], m * ScalarRadix)
  PROVE  NotBeyond(Lowest(s)[n], (2 * m) * Scale[n])
<1> DEFINE u == Lowest(s)
           k == 2 * m
           S == {i \in 0..n : NotBeyond(u[i], k * Scale[i])}
<1>1. /\ u[0] = 0 /\ \A i \in 0..24 : u[i] \in Int /\ Scale[i] \in Nat \ {0}
      /\ \A i \in Places : u[i + 1] = u[i] + s[i] * Scale[i]
  BY LowestSteps, Zenon
<1> HIDE DEF u
<1>2. 0 \in S
  <2>1. Scale[0] = 1 /\ 0 \in 0..n
    BY Scales
  <2>2. NotBeyond(u[0], k * Scale[0])
    BY <1>1, <2>1 DEF NotBeyond
  <2> QED BY <2>1, <2>2
<1>3. \A i \in 0..(n - 1) : i \in S => i + 1 \in S
  <2> TAKE i \in 0..(n - 1)
  <2> HAVE i \in S
  <2>1. i \in Places /\ i < n /\ i + 1 \in 0..n /\ i \in 0..24
    BY DEF Places
  <2> DEFINE x == s[i]
             w == Scale[i]
             r == ScalarRadix
             y == u[i]
  <2>2. /\ NotBeyond(x, m * r) /\ x \in Int /\ w \in Nat \ {0} /\ y \in Int /\ r \in Nat
        /\ r >= 2 /\ NotBeyond(y, k * w)
        /\ u[i + 1] = y + x * w /\ Scale[i + 1] = r * w
    BY <1>1, <2>1, Scales, ScalarConstants, RowType
  <2> HIDE DEF x, w, r, y
  <2> DEFINE a == m * r
             z == m * w
             b == a * w
             c == x * w
  <2>3. a \in Nat /\ z \in Nat
    BY <2>2
  <2>4. w \in Nat /\ w \in Int /\ NotBeyond(w, w)
    BY <2>2 DEF NotBeyond
  <2>5. NotBeyond(x, a)
    BY <2>2, Zenon
  <2>6. b = r * z /\ k * w = 2 * z /\ k * (r * w) = 2 * (r * z) /\ r * z >= 2 * z
    BY <2>2
  <2> HIDE DEF a
  <2>7. c \in Int /\ b \in Nat /\ NotBeyond(c, b)
    BY <2>2, <2>3, <2>4, <2>5, ProductBounded, Zenon DEF b, c
  <2> HIDE DEF b, c, k, z
  <2> DEFINE rz == r * z
  <2>8. b = rz /\ k * (r * w) = 2 * rz /\ rz >= 2 * z /\ NotBeyond(y, 2 * z) /\ rz \in Int
    BY <2>2, <2>6, <2>7
  <2> HIDE DEF rz
  <2>9. NotBeyond(y + c, 2 * rz)
    BY <2>2, <2>3, <2>7, <2>8 DEF NotBeyond
  <2>10. NotBeyond(u[i + 1], k * Scale[i + 1])
    BY <2>2, <2>8, <2>9, Zenon DEF c
  <2> QED BY <2>1, <2>10
<1>4. \A i \in 0..n : i \in S
  <2>1. n \in Nat
    OBVIOUS
  <2> HIDE DEF S
  <2> QED BY <1>2, <1>3, <2>1, Upwards, Zenon
<1>5. n \in 0..n
  OBVIOUS
<1> QED BY <1>4, <1>5, Zenon DEF u

\* A row of twelve digits, with little in the thirteenth place.
Twelve(s, n) ==
  /\ s \in Rows
  /\ \A p \in Places : p <= 10 => NotBeyond(s[p], n * ScalarRadix)
  /\ NotBeyond(2 * s[11], ScalarRadix) /\ NotBeyond(s[12], n)
  /\ \A p \in Places : p >= 13 => s[p] = 0

(* The thirteenth folded: the number is between the weight above it and that
   below zero. *)
LEMMA FoldedTwelve ==
  ASSUME RoomForFolds, NEW n \in Nat, 8 * n + 8 <= ScalarRadix, NEW s, Twelve(s, n)
  PROVE  /\ Fold(s, 12) \in Rows /\ \A p \in Places : p >= 12 => Fold(s, 12)[p] = 0
         /\ SameModOrder(Worth(Fold(s, 12)), Worth(s))
         /\ -Scale[12] < Worth(Fold(s, 12)) /\ Worth(Fold(s, 12)) < Scale[12]
<1> DEFINE t == Fold(s, 12)
           r == ScalarRadix
           x == s[12]
<1>1. s \in Rows
  BY DEF Twelve
<1>2. /\ t \in Rows /\ t[12] = 0
      /\ \A j \in 1..6 : t[j - 1] = s[j - 1] + x * Excess[j]
      /\ \A k \in Places : k # 12 /\ k > 5 => t[k] = s[k]
  <2>1. 12 \in 12..23 /\ 12 - 12 = 0 /\ 12 - 7 = 5
    OBVIOUS
  <2>2. /\ t \in Rows /\ t[12] = 0
        /\ \A j \in 1..6 : t[(12 - 12) + (j - 1)] = s[(12 - 12) + (j - 1)] + x * Excess[j]
        /\ \A k \in Places : k # 12 /\ ~(12 - 12 <= k /\ k <= 12 - 7) => t[k] = s[k]
    BY <1>1, <2>1, FoldParts
  <2>3. \A j \in 1..6 : (12 - 12) + (j - 1) = j - 1
    OBVIOUS
  <2>4. \A k \in Places : k > 5 => ~(12 - 12 <= k /\ k <= 12 - 7)
    BY DEF Places
  <2> HIDE DEF t, x
  <2>5. \A j \in 1..6 : t[j - 1] = s[j - 1] + x * Excess[j]
    BY <2>2, <2>3
  <2>6. \A k \in Places : k # 12 /\ k > 5 => t[k] = s[k]
    BY <2>2, <2>4
  <2> QED BY <2>2, <2>5, <2>6
<1>3. SameModOrder(Worth(t), Worth(s))
  <2>1. 12 \in 12..23
    OBVIOUS
  <2> QED BY <1>1, <2>1, FoldKeeps
<1>4. x \in Int /\ NotBeyond(x, n) /\ s[11] \in Int
  <2>1. 12 \in Places /\ 11 \in Places
    BY DEF Places
  <2> QED BY <1>1, <2>1, RowType DEF Twelve
<1> HIDE DEF t, x
<1>5. \A p \in Places : p >= 12 => t[p] = 0
  <2> TAKE p \in Places
  <2>1. p >= 12 => p = 12 \/ (p # 12 /\ p > 5 /\ p >= 13)
    BY DEF Places
  <2>2. p >= 13 => s[p] = 0
    BY DEF Twelve
  <2> QED BY <1>2, <2>1, <2>2, Zenon
<1> DEFINE N == 2 * n
<1>6. \A p \in Places : p < 11 => NotBeyond(t[p], N * r)
  <2> TAKE p \in Places
  <2> HAVE p < 11
  <2> DEFINE d == n * r
  <2>1. p <= 10 /\ p # 12 /\ p \in Int
    BY DEF Places
  <2>2. NotBeyond(s[p], d) /\ s[p] \in Int
    BY <1>1, <2>1, RowType, Zenon DEF Twelve
  <2>3. d \in Nat /\ N * r = 2 * d
    BY ScalarConstants
  <2> HIDE DEF d
  <2>4. CASE p > 5
    <3>1. t[p] = s[p]
      BY <1>2, <2>1, <2>4, Zenon
    <3>2. NotBeyond(t[p], 2 * d)
      BY <2>2, <2>3, <3>1 DEF NotBeyond
    <3> QED BY <2>3, <3>2, Zenon
  <2>5. CASE p <= 5
    <3> DEFINE j == p + 1
    <3>1. j \in 1..6 /\ j - 1 = p
      BY <2>5 DEF Places
    <3> HIDE DEF j
    <3> DEFINE z == x * Excess[j]
    <3>2. z \in Int /\ NotBeyond(2 * z, d)
      BY <1>4, <3>1, FoldedSize, Zenon DEF d
    <3>3. t[p] = s[p] + z
      BY <1>2, <3>1, Zenon
    <3> HIDE DEF z
    <3>4. NotBeyond(t[p], 2 * d)
      BY <2>2, <2>3, <3>2, <3>3 DEF NotBeyond
    <3> QED BY <2>3, <3>4, Zenon
  <2> QED BY <2>1, <2>4, <2>5
<1>7. Worth(t) = Lowest(t)[12]
  <2>1. 12 \in 0..24
    OBVIOUS
  <2> QED BY <1>2, <1>5, <2>1, ZerosAbove
<1> DEFINE u == Lowest(t)
           w == Scale[11]
           y == s[11]
           z == y * w
<1>8. /\ u[12] = u[11] + z /\ u[11] \in Int /\ w \in Nat \ {0} /\ Scale[12] = r * w
  <2>1. 11 \in Places /\ 11 + 1 = 12 /\ 11 # 12 /\ 11 > 5 /\ 11 \in 0..24
    BY DEF Places
  <2>2. t[11] = y
    BY <1>2, <2>1
  <2>3. /\ \A i \in 0..24 : u[i] \in Int /\ Scale[i] \in Nat \ {0}
        /\ \A i \in Places : u[i + 1] = u[i] + t[i] * Scale[i]
    BY <1>2, LowestSteps, Zenon
  <2>4. \A i \in Places : Scale[i + 1] = r * Scale[i]
    BY Scales, Zenon
  <2> HIDE DEF u, y, r
  <2> QED BY <2>1, <2>2, <2>3, <2>4
<1>9. NotBeyond(u[11], (2 * N) * w)
  <2>1. N \in Nat /\ 11 \in 0..24
    OBVIOUS
  <2> HIDE DEF N
  <2> QED BY <1>2, <1>6, <2>1, LowestBounded
<1>10. r \in Nat /\ 8 * n + 8 <= r /\ y \in Int /\ NotBeyond(2 * y, r)
  BY <1>4, ScalarConstants DEF Twelve
<1> HIDE DEF u, w, y, r
<1>11. (2 * N) * w = 4 * (n * w) /\ n * w \in Nat /\ r * w \in Nat
       /\ 8 * (n * w) + 8 * w <= r * w
  <2>1. (8 * n + 8) * w <= r * w /\ (8 * n + 8) * w = 8 * (n * w) + 8 * w
    BY <1>8, <1>10
  <2> QED BY <1>8, <1>10, <2>1
<1>12. NotBeyond(2 * z, r * w) /\ z \in Int
  <2>1. (2 * y) * w <= r * w /\ (-r) * w <= (2 * y) * w
    BY <1>8, <1>10 DEF NotBeyond
  <2>2. (2 * y) * w = 2 * (y * w) /\ (-r) * w = -(r * w) /\ y * w \in Int
    BY <1>8, <1>10
  <2> QED BY <2>1, <2>2 DEF NotBeyond
<1> DEFINE nw == n * w
           rw == r * w
<1>13. /\ nw \in Nat /\ rw \in Nat /\ 8 * nw + 8 * w <= rw /\ NotBeyond(u[11], 4 * nw)
       /\ NotBeyond(2 * z, rw) /\ Scale[12] = rw
  BY <1>8, <1>9, <1>11, <1>12, Zenon
<1> HIDE DEF nw, rw, z
<1>14. -rw < u[12] /\ u[12] < rw
  BY <1>8, <1>12, <1>13 DEF NotBeyond
<1>15. -Scale[12] < Worth(t) /\ Worth(t) < Scale[12]
  BY <1>7, <1>13, <1>14, Zenon DEF u
<1> QED BY <1>2, <1>3, <1>5, <1>15, Zenon DEF t

(* A row in digits below the twelfth place, of a number between the weight
   there and that below zero: the twelfth is 0 or -1, and -1 if the number is
   negative. *)
LEMMA SignOfRow ==
  ASSUME NEW s \in Rows, \A p \in Places : p < 12 => s[p] \in 0..(ScalarRadix - 1),
         \A p \in Places : p > 12 => s[p] = 0,
         -Scale[12] < Worth(s), Worth(s) < Scale[12]
  PROVE  \/ s[12] = 0 /\ Worth(s) >= 0
         \/ s[12] = -1 /\ Worth(s) < 0
<1> DEFINE u == Lowest(s)
           x == s[12]
           w == Scale[12]
           W == Worth(s)
<1>1. u[12] \in 0..(w - 1) /\ W = u[13]
  <2>1. 12 \in 0..24 /\ 13 \in 0..24 /\ \A p \in Places : p >= 13 => p > 12
    BY DEF Places
  <2>2. u[12] \in 0..(w - 1)
    BY <2>1, DigitsFill
  <2>3. \A p \in Places : p >= 13 => s[p] = 0
    BY <2>1
  <2> HIDE DEF u, W
  <2>4. W = u[13]
    BY <2>1, <2>3, ZerosAbove DEF u, W
  <2> QED BY <2>2, <2>4
<1>2. u[13] = u[12] + x * w /\ x \in Int /\ w \in Nat \ {0}
  <2>1. 12 \in Places /\ 12 + 1 = 13 /\ 12 \in 0..24
    BY DEF Places
  <2>2. /\ \A i \in 0..24 : u[i] \in Int /\ Scale[i] \in Nat \ {0}
        /\ \A i \in Places : u[i + 1] = u[i] + s[i] * Scale[i]
    BY LowestSteps, Zenon
  <2>3. x \in Int
    BY <2>1, RowType
  <2> HIDE DEF u, x
  <2> QED BY <2>1, <2>2, <2>3 DEF x
<1>3. -w < W /\ W < w
  OBVIOUS
<1> DEFINE z == w * x
<1>4. z \in Int /\ x * w = z
  BY <1>2
<1> HIDE DEF u, w, W, x
<1>5. z > -w - w /\ z < w /\ W = u[12] + z
  <2> HIDE DEF z
  <2> QED BY <1>1, <1>2, <1>3, <1>4
<1>6. x < 1 /\ x >= -1
  <2>1. w * x < w * 1
    BY <1>2, <1>5
  <2>2. w * (x + 1) > -w /\ x + 1 \in Int
    <3>1. w * (x + 1) = w * x + w
      BY <1>2
    <3> DEFINE y == w * (x + 1)
    <3>2. y = z + w /\ x + 1 \in Int
      BY <1>2, <3>1
    <3> HIDE DEF y, z
    <3>3. y > -w
      BY <1>2, <1>4, <1>5, <3>2
    <3> QED BY <3>2, <3>3 DEF y
  <2> DEFINE y == x + 1
  <2>3. w * y > -w /\ y \in Int
    BY <2>2, Zenon
  <2>4. 1 \in Int
    OBVIOUS
  <2> HIDE DEF y
  <2>5. y >= 0 /\ x < 1
    BY <1>2, <2>1, <2>3, <2>4, BetweenMultiples, Zenon
  <2> QED BY <1>2, <2>5 DEF y
<1>7. CASE x = 0
  <2>1. z = 0
    BY <1>2, <1>7
  <2> HIDE DEF z
  <2>2. W >= 0
    BY <1>1, <1>2, <1>5, <2>1
  <2> QED BY <1>7, <2>2 DEF x, W
<1>8. CASE x = -1
  <2>1. z = -w
    BY <1>2, <1>8
  <2> HIDE DEF z
  <2>2. W < 0
    BY <1>1, <1>2, <1>5, <2>1
  <2> QED BY <1>8, <2>2 DEF x, W
<1> QED BY <1>2, <1>6, <1>7, <1>8

\* A row of the digits of a number below the order.
RightRow(v) ==
  /\ v \in Rows
  /\ \A p \in Places : /\ p < 11 => v[p] \in 0..(ScalarRadix - 1)
                       /\ p >= 12 => v[p] = 0
  /\ v[11] \in 0..ScalarRadix
  /\ Worth(v) \in 0..(Order - 1)

(* The last fold makes the number one below the order, and the carries make
   digits of it. *)
LEMMA LastFold ==
  ASSUME RoomForFolds, NEW s \in Rows,
         \A p \in Places : p < 12 => s[p] \in 0..(ScalarRadix - 1),
         \A p \in Places : p > 12 => s[p] = 0,
         -Scale[12] < Worth(s), Worth(s) < Scale[12],
         NEW P, DOMAIN P = 1..11, \A k \in 1..11 : P[k] = k - 1
  PROVE  /\ RightRow(FoldLeft(Floored, Fold(s, 12), P))
         /\ SameModOrder(Worth(FoldLeft(Floored, Fold(s, 12), P)), Worth(s))
<1> DEFINE t == Fold(s, 12)
           v == FoldLeft(Floored, t, P)
           W == Worth(s)
           O == Order
<1>1. O \in Nat \ {0} /\ Scale[12] <= O /\ O <= Scale[12] + Scale[6] /\ Scale[12] \in Nat \ {0}
  BY OrderSize, OrderIs, Zenon
<1>2. t \in Rows /\ \A p \in Places : p > 11 => t[p] = 0
  <2>1. 12 \in 12..23 /\ 12 - 7 = 5
    OBVIOUS
  <2>2. /\ t \in Rows /\ t[12] = 0
        /\ \A k \in Places : k # 12 /\ ~(12 - 12 <= k /\ k <= 12 - 7) => t[k] = s[k]
    BY <2>1, FoldParts
  <2>3. \A p \in Places : p > 11 => p = 12 \/ (p # 12 /\ p > 12 /\ ~(12 - 12 <= p /\ p <= 12 - 7))
    BY DEF Places
  <2> HIDE DEF t
  <2> QED BY <2>2, <2>3
<1>3. SameModOrder(Worth(t), Worth(s))
  <2>1. 12 \in 12..23
    OBVIOUS
  <2> QED BY <2>1, FoldKeeps
<1>4. Worth(t) = W - s[12] * O /\ W \in Int
  <2>1. 12 \in 12..23 /\ 12 - 12 = 0 /\ Scale[0] = 1 /\ 12 \in Places
    BY Scales DEF Places
  <2>2. Worth(t) = W - (s[12] * Scale[0]) * O
    <3> DEFINE i == 12
    <3>1. i \in 12..23 /\ i - 12 = 0
      OBVIOUS
    <3> HIDE DEF i
    <3>2. Worth(Fold(s, i)) = Worth(s) - (s[i] * Scale[i - 12]) * Order
      BY <3>1, FoldWorth, Zenon
    <3> QED BY <3>1, <3>2, Zenon DEF i
  <2>3. s[12] \in Int /\ W \in Int
    BY <2>1, RowType, RowsAdd
  <2>4. s[12] * Scale[0] = s[12]
    BY <2>1, <2>3
  <2> HIDE DEF t, W, O
  <2> QED BY <2>2, <2>3, <2>4, Zenon
<1> HIDE DEF t, O
<1>5. Worth(t) \in 0..(O - 1)
  <2>1. \/ s[12] = 0 /\ W >= 0
        \/ s[12] = -1 /\ W < 0
    BY SignOfRow
  <2>2. -Scale[12] < W /\ W < Scale[12]
    OBVIOUS
  <2> HIDE DEF W
  <2>3. CASE s[12] = 0 /\ W >= 0
    BY <1>1, <1>4, <2>2, <2>3
  <2>4. CASE s[12] = -1 /\ W < 0
    BY <1>1, <1>4, <2>2, <2>4
  <2> QED BY <2>1, <2>3, <2>4
<1>6. FlooredTo(t, v, 11)
  <2>1. 11 \in 0..23
    OBVIOUS
  <2> QED BY <1>2, <2>1, FlooredGo
<1> HIDE DEF v, W
<1>7. /\ v \in Rows /\ Worth(v) = Worth(t)
      /\ \A p \in Places : p < 11 => v[p] \in 0..(ScalarRadix - 1)
      /\ \A p \in Places : p > 11 => v[p] = 0
  BY <1>2, <1>6 DEF FlooredTo
<1> DEFINE u == Lowest(v)
           x == v[11]
           w == Scale[11]
           r == ScalarRadix
<1>8. u[11] \in 0..(w - 1) /\ Worth(v) = u[12]
  <2>1. 11 \in 0..24 /\ 12 \in 0..24 /\ \A p \in Places : p >= 12 => p > 11
    BY DEF Places
  <2>2. u[11] \in 0..(w - 1)
    BY <1>7, <2>1, DigitsFill
  <2>3. \A p \in Places : p >= 12 => v[p] = 0
    BY <1>7, <2>1
  <2> HIDE DEF u
  <2>4. Worth(v) = u[12]
    BY <1>7, <2>1, <2>3, ZerosAbove DEF u
  <2> QED BY <2>2, <2>4
<1>9. /\ u[12] = u[11] + x * w /\ x \in Int /\ w \in Nat \ {0} /\ Scale[12] = r * w
      /\ r \in Nat /\ u[11] \in Int
  <2>1. 11 \in Places /\ 11 + 1 = 12 /\ 11 \in 0..24
    BY DEF Places
  <2>2. /\ \A i \in 0..24 : u[i] \in Int /\ Scale[i] \in Nat \ {0}
        /\ \A i \in Places : u[i + 1] = u[i] + v[i] * Scale[i]
    BY <1>7, LowestSteps, Zenon
  <2>3. x \in Int
    BY <1>7, <2>1, RowType
  <2>4. \A i \in Places : Scale[i + 1] = r * Scale[i]
    BY Scales, Zenon
  <2>5. r \in Nat
    BY ScalarConstants
  <2> HIDE DEF u, x, r
  <2> QED BY <2>1, <2>2, <2>3, <2>4, <2>5 DEF x
<1>10. Scale[6] <= w
  <2>1. \A i \in {6, 7, 8, 9, 10} : Scale[i] <= Scale[i + 1]
    <3> TAKE i \in {6, 7, 8, 9, 10}
    <3>1. i \in Places /\ i \in 0..24
      BY DEF Places
    <3> DEFINE y == Scale[i]
    <3>2. Scale[i + 1] = r * y /\ y \in Nat \ {0} /\ r \in Nat /\ r >= 2
      BY <3>1, Scales, ScalarConstants
    <3> HIDE DEF y, r
    <3>3. y <= r * y
      BY <3>2
    <3> QED BY <3>2, <3>3 DEF y
  <2>2. \A i \in 0..24 : Scale[i] \in Nat \ {0}
    BY Scales, Zenon
  <2>3. /\ Scale[6] <= Scale[7] /\ Scale[7] <= Scale[8] /\ Scale[8] <= Scale[9]
        /\ Scale[9] <= Scale[10] /\ Scale[10] <= Scale[11]
    BY <2>1
  <2>4. /\ Scale[6] \in Nat /\ Scale[7] \in Nat /\ Scale[8] \in Nat /\ Scale[9] \in Nat
        /\ Scale[10] \in Nat /\ Scale[11] \in Nat
    BY <2>2
  <2> QED BY <2>3, <2>4
<1>11. Scale[6] \in Nat
  <2>1. 6 \in 0..24
    OBVIOUS
  <2> QED BY <2>1, Scales
<1> HIDE DEF u, x, w, r
<1> DEFINE z == w * x
           y == r * w
<1>12. z \in Int /\ x * w = z /\ y \in Int
  BY <1>9
<1>13. z > -w /\ z < y + w
  <2> HIDE DEF z, y
  <2>1. Worth(v) = u[11] + z /\ Scale[12] = y
    BY <1>8, <1>9, <1>12, Zenon DEF y
  <2> QED BY <1>1, <1>5, <1>7, <1>8, <1>9, <1>10, <1>11, <1>12, <2>1
<1>14. x >= 0 /\ x <= r
  <2> DEFINE k == r + 1
  <2>1. w * k = y + w /\ k \in Int
    BY <1>9
  <2>2. w * x > -w /\ w * x < w * k
    <3> HIDE DEF k, y
    <3> QED BY <1>13, <2>1
  <2> HIDE DEF k
  <2>3. x >= 0 /\ x < k
    BY <1>9, <2>1, <2>2, BetweenMultiples, Zenon
  <2> QED BY <1>9, <2>3 DEF k
<1>15. RightRow(v)
  <2>1. \A p \in Places : p >= 12 => p > 11
    BY DEF Places
  <2>2. x \in 0..r
    BY <1>9, <1>14
  <2>3. \A p \in Places : /\ p < 11 => v[p] \in 0..(ScalarRadix - 1)
                          /\ p >= 12 => v[p] = 0
    BY <1>7, <2>1, Zenon
  <2> HIDE DEF z, y
  <2>4. Worth(v) \in 0..(Order - 1)
    BY <1>5, <1>7, Zenon DEF O
  <2> QED BY <1>7, <2>2, <2>3, <2>4 DEF RightRow, x, r
<1> QED BY <1>3, <1>7, <1>15, Zenon DEF v, t, SameModOrder

(* What a row comes to by the two last folds and their carries. *)
LEMMA CanonicalRight ==
  ASSUME RoomForFolds, NEW n \in Nat, 8 * n + 8 <= ScalarRadix, NEW s, Twelve(s, n)
  PROVE  RightRow(Canonical(s)) /\ SameModOrder(Worth(Canonical(s)), Worth(s))
<1> DEFINE A == <<0, 1, 2, 3, 4, 5, 6, 7, 8, 9, 10, 11>>
           B == <<0, 1, 2, 3, 4, 5, 6, 7, 8, 9, 10>>
           t == Fold(s, 12)
           once == FoldLeft(Floored, t, A)
           v == FoldLeft(Floored, Fold(once, 12), B)
<1>1. Canonical(s) = v
  BY Zenon DEF Canonical
<1>2. DOMAIN A = 1..12 /\ \A k \in 1..12 : A[k] = k - 1
  OBVIOUS
<1>3. DOMAIN B = 1..11 /\ \A k \in 1..11 : B[k] = k - 1
  OBVIOUS
<1> HIDE DEF A, B
<1>4. /\ t \in Rows /\ \A p \in Places : p >= 12 => t[p] = 0
      /\ SameModOrder(Worth(t), Worth(s))
      /\ -Scale[12] < Worth(t) /\ Worth(t) < Scale[12]
  BY FoldedTwelve
<1> HIDE DEF t
<1>5. FlooredTo(t, once, 12)
  <2>1. 12 \in 0..23
    OBVIOUS
  <2> QED BY <1>2, <1>4, <2>1, FlooredGo
<1> HIDE DEF once
<1>6. /\ once \in Rows /\ Worth(once) = Worth(t)
      /\ \A p \in Places : p < 12 => once[p] \in 0..(ScalarRadix - 1)
      /\ \A p \in Places : p > 12 => once[p] = 0
  <2>1. \A p \in Places : p > 12 => p >= 12
    BY DEF Places
  <2> QED BY <1>4, <1>5, <2>1 DEF FlooredTo
<1>7. -Scale[12] < Worth(once) /\ Worth(once) < Scale[12]
  BY <1>4, <1>6
<1>8. RightRow(v) /\ SameModOrder(Worth(v), Worth(once))
  BY <1>3, <1>6, <1>7, LastFold
<1> HIDE DEF v
<1> QED BY <1>1, <1>4, <1>6, <1>8, Zenon DEF SameModOrder

\* Digits small enough, and of so many radixes, for all that a reduction does.
Reducible(s, m) ==
  /\ s \in Rows /\ m \in Nat /\ 128 * m + 128 <= ScalarRadix
  /\ \A p \in Places : NotBeyond(s[p], m * ScalarRadix)

(* A reduction leaves the digits of the number modulo the order. *)
LEMMA ReducedRight ==
  ASSUME RoomForFolds, NEW s, NEW m, Reducible(s, m)
  PROVE  RightRow(sc_reduce(s)) /\ Worth(sc_reduce(s)) = Worth(s) % Order
<1> DEFINE m1 == Rounds(m)
           m2 == Rounds(m1)
           r == ScalarRadix
           a == Upper(s)
           b == Lower(a)
           v == Canonical(b)
<1>1. s \in Rows /\ m \in Nat /\ \A p \in Places : NotBeyond(s[p], m * r)
  BY DEF Reducible
<1>2. /\ m1 \in Nat /\ m2 \in Nat /\ 8 * m + 8 <= r /\ 8 * m1 + 8 <= r /\ 8 * m2 + 8 <= r
  <2>1. 128 * m + 128 <= r /\ r \in Nat
    BY ScalarConstants DEF Reducible
  <2> HIDE DEF r
  <2> QED BY <1>1, <2>1 DEF Rounds
<1> HIDE DEF m1, m2
<1>3. /\ a \in Rows /\ SameModOrder(Worth(a), Worth(s))
      /\ \A p \in Places : NotBeyond(a[p], m1 * r)
      /\ \A p \in Places : p >= 18 => a[p] = 0
  BY <1>1, <1>2, UpperRight DEF m1
<1> HIDE DEF a
<1>4. /\ b \in Rows /\ SameModOrder(Worth(b), Worth(a))
      /\ \A p \in Places : p <= 10 => NotBeyond(b[p], m2 * r)
      /\ NotBeyond(2 * b[11], r) /\ NotBeyond(b[12], m2)
      /\ \A p \in Places : p >= 13 => b[p] = 0
  BY <1>2, <1>3, LowerRight DEF m2
<1> HIDE DEF b
<1>5. Twelve(b, m2)
  BY <1>4 DEF Twelve
<1>6. RightRow(v) /\ SameModOrder(Worth(v), Worth(b))
  BY <1>2, <1>5, CanonicalRight
<1> HIDE DEF v
<1>7. Worth(v) % Order = Worth(s) % Order
  BY <1>3, <1>4, <1>6, Zenon DEF SameModOrder
<1>8. Worth(v) % Order = Worth(v)
  <2> DEFINE x == Worth(v)
             p == Order
  <2>1. p \in Nat \ {0} /\ x \in 0..(p - 1)
    BY <1>6, OrderSize DEF RightRow
  <2> HIDE DEF x, p
  <2>2. x % p = x
    BY <2>1
  <2> QED BY <2>2 DEF x, p
<1>9. v = sc_reduce(s)
  BY Zenon DEF sc_reduce, v, b, a
<1> QED BY <1>6, <1>7, <1>8, <1>9, Zenon

-----------------------------------------------------------------------------
\* Products.

\* A row with x times the first j digits of another added from place i on.
AddedSome(s, b, i, x, j) ==
  [k \in Places |-> IF i <= k /\ k < i + j THEN s[k] + x * b[k - i] ELSE s[k]]

(* One digit more. *)
LEMMA AddedSomeWorth ==
  ASSUME NEW s \in Rows, NEW b \in Rows, NEW i \in 0..11, NEW x \in Int, NEW j \in 0..11,
         AddedSome(s, b, i, x, j) \in Rows
  PROVE  /\ AddedSome(s, b, i, x, j + 1) \in Rows
         /\ Worth(AddedSome(s, b, i, x, j + 1)) =
              Worth(AddedSome(s, b, i, x, j)) + (x * Scale[i]) * (b[j] * Scale[j])
<1> DEFINE d == x * b[j]
           g == AddedSome(s, b, i, x, j)
           h == AddedSome(s, b, i, x, j + 1)
           p == i + j
<1>1. /\ i \in Places /\ j \in Places /\ p \in Places /\ j \in 0..12 /\ i \in 0..12
      /\ p - i = j /\ i <= p /\ p < i + (j + 1) /\ ~(p < i + j) /\ i \in Int
  BY DEF Places
<1>2. d \in Int /\ b[j] \in Int /\ s[p] \in Int
  <2>1. b[j] \in Int /\ s[p] \in Int
    BY <1>1, RowType, Zenon
  <2> QED BY <2>1
<1>3. g[p] = s[p] /\ h[p] = s[p] + d
  <2>1. g[p] = IF i <= p /\ p < i + j THEN s[p] + x * b[p - i] ELSE s[p]
    BY <1>1, Zenon DEF AddedSome
  <2>2. h[p] = IF i <= p /\ p < i + (j + 1) THEN s[p] + x * b[p - i] ELSE s[p]
    BY <1>1, Zenon DEF AddedSome
  <2> HIDE DEF g, h, p
  <2> QED BY <1>1, <2>1, <2>2, Zenon DEF d
<1>4. ASSUME NEW k \in Places, k # p
      PROVE  h[k] = g[k]
  <2> DEFINE v == s[k] + x * b[k - i]
             here == i <= k /\ k < i + j
  <2>1. g[k] = IF here THEN v ELSE s[k]
    BY Zenon DEF AddedSome
  <2>2. h[k] = IF i <= k /\ k < i + (j + 1) THEN v ELSE s[k]
    BY Zenon DEF AddedSome
  <2>3. k < i + (j + 1) <=> k < i + j
    BY <1>1, <1>4 DEF Places
  <2>4. h[k] = IF here THEN v ELSE s[k]
    <3>1. (i <= k /\ k < i + (j + 1)) = here
      BY <2>3
    <3> HIDE DEF g, h, v, p, here
    <3> QED BY <2>2, <3>1
  <2> HIDE DEF g, h, v, here
  <2> QED BY <2>1, <2>4
<1>5. h = AddAt(g, p, d)
  <2>1. h = [k \in Places |-> h[k]]
    BY DEF AddedSome
  <2>2. g \in [Places -> Int]
    BY Zenon DEF Rows
  <2> HIDE DEF g, h, p, d
  <2> QED BY <1>1, <1>3, <1>4, <2>1, <2>2 DEF AddAt
<1> HIDE DEF g, h, p, d
<1>6. h \in Rows /\ Worth(h) = Worth(g) + d * Scale[p]
  <2>1. g \in Rows
    BY Zenon DEF g
  <2>1a. p \in Places /\ d \in Int
    BY <1>1, <1>2
  <2>2. AddAt(g, p, d) \in Rows /\ Worth(AddAt(g, p, d)) = Worth(g) + d * Scale[p]
    BY <2>1, <2>1a, AddAtWorth, Zenon
  <2> QED BY <1>5, <2>2, Zenon
<1>7. Scale[p] = Scale[i] * Scale[j] /\ Scale[i] \in Int /\ Scale[j] \in Int
  BY <1>1, ScaleSum, RowType, Zenon DEF p
<1>8. d * Scale[p] = (x * Scale[i]) * (b[j] * Scale[j])
  <2> DEFINE e == b[j]
             w == Scale[i]
             v == Scale[j]
  <2>1. d = x * e /\ Scale[p] = w * v /\ e \in Int /\ w \in Int /\ v \in Int
    BY <1>2, <1>7, Zenon DEF d
  <2> HIDE DEF e, w, v
  <2>2. (x * e) * (w * v) = (x * w) * (e * v)
    BY <2>1
  <2> QED BY <2>1, <2>2, Zenon DEF e, w, v
<1> QED BY <1>6, <1>8, Zenon DEF h, g

(* All twelve: x times the other row, moved up. *)
LEMMA AddedWorth ==
  ASSUME NEW s \in Rows, NEW b \in Rows, NEW i \in 0..11, NEW x \in Int
  PROVE  /\ AddedSome(s, b, i, x, 12) \in Rows
         /\ Worth(AddedSome(s, b, i, x, 12)) = Worth(s) + (x * Scale[i]) * Lowest(b)[12]
<1> DEFINE g(j) == AddedSome(s, b, i, x, j)
           y == x * Scale[i]
           u == Lowest(b)
           S == {j \in 0..12 : g(j) \in Rows /\ Worth(g(j)) = Worth(s) + y * u[j]}
<1>1. /\ u[0] = 0 /\ \A k \in 0..24 : u[k] \in Int
      /\ \A k \in Places : u[k + 1] = u[k] + b[k] * Scale[k]
  BY LowestSteps, Zenon
<1>2. y \in Int /\ Worth(s) \in Int
  <2>1. i \in Places
    BY DEF Places
  <2>2. Scale[i] \in Int /\ Worth(s) \in Int
    BY <2>1, RowType, RowsAdd, Zenon
  <2> QED BY <2>2
<1>3. g(0) = s
  <2>1. \A k \in Places : ~(i <= k /\ k < i + 0)
    BY DEF Places
  <2>2. \A k \in Places : g(0)[k] = IF i <= k /\ k < i + 0 THEN s[k] + x * b[k - i] ELSE s[k]
    BY Zenon DEF AddedSome
  <2>3. \A k \in Places : g(0)[k] = s[k]
    <3> HIDE DEF g
    <3> QED BY <2>1, <2>2, Zenon
  <2>4. g(0) = [k \in Places |-> g(0)[k]]
    BY DEF AddedSome
  <2> HIDE DEF g
  <2> QED BY <2>3, <2>4 DEF Rows
<1>4. \A j \in 0..11 : g(j) \in Rows => /\ g(j + 1) \in Rows
                                        /\ Worth(g(j + 1)) = Worth(g(j)) + y * (b[j] * Scale[j])
  BY AddedSomeWorth, Zenon
<1> HIDE DEF g, y, u
<1>5. 0 \in S
  <2>1. Worth(s) = Worth(s) + y * u[0] /\ 0 \in 0..12
    BY <1>1, <1>2
  <2> QED BY <1>3, <2>1, Zenon
<1>6. \A j \in 0..(12 - 1) : j \in S => j + 1 \in S
  <2> TAKE j \in 0..(12 - 1)
  <2> HAVE j \in S
  <2>1. j \in 0..11 /\ j \in Places /\ j \in 0..24 /\ j + 1 \in 0..12
    BY DEF Places
  <2>2. g(j) \in Rows /\ Worth(g(j)) = Worth(s) + y * u[j]
    OBVIOUS
  <2> DEFINE z == b[j] * Scale[j]
             a == u[j]
  <2>3. /\ g(j + 1) \in Rows /\ Worth(g(j + 1)) = Worth(g(j)) + y * z
        /\ u[j + 1] = a + z /\ a \in Int
    BY <1>1, <1>4, <2>1, <2>2, Zenon
  <2>4. z \in Int
    <3>1. b[j] \in Int /\ Scale[j] \in Int
      BY <2>1, RowType, Zenon
    <3> QED BY <3>1
  <2> HIDE DEF z, a
  <2>5. y * (a + z) = y * a + y * z /\ y * a \in Int /\ y * z \in Int
    BY <1>2, <2>3, <2>4
  <2> DEFINE ya == y * a
             yz == y * z
             yy == y * (a + z)
  <2>6. /\ Worth(g(j)) = Worth(s) + ya /\ Worth(g(j + 1)) = Worth(g(j)) + yz
        /\ yy = ya + yz /\ ya \in Int /\ yz \in Int
    BY <2>2, <2>3, <2>5, Zenon DEF a
  <2> HIDE DEF ya, yz, yy
  <2>7. Worth(g(j + 1)) = Worth(s) + yy
    BY <1>2, <2>6
  <2>8. Worth(g(j + 1)) = Worth(s) + y * u[j + 1]
    BY <2>3, <2>7, Zenon DEF yy
  <2> QED BY <2>1, <2>3, <2>8, Zenon
<1>7. \A j \in 0..12 : j \in S
  <2>1. 12 \in Nat
    OBVIOUS
  <2> HIDE DEF S
  <2> QED BY <1>5, <1>6, <2>1, Upwards
<1>8. 12 \in 0..12
  OBVIOUS
<1>9. g(12) \in Rows /\ Worth(g(12)) = Worth(s) + y * u[12]
  BY <1>7, <1>8, Zenon
<1> QED BY <1>9, Zenon DEF g, y, u

\* What the i-th digit of one factor adds to place k of a product.
PartOf(a, b, i, k) == IF k - i \in 0..11 THEN a[i] * b[k - i] ELSE 0

\* u adds up place k of a product and a sum.
Terms(a, b, c, k, u) ==
  u = [i \in -1..11 |->
         IF i = -1 THEN c[k]
         ELSE u[i - 1] + IF k - i \in 0..11 THEN a[i] * b[k - i] ELSE 0]

\* What it comes to, term by term.
TermsOf(a, b, c, k) == CHOOSE u : Terms(a, b, c, k, u)

(* Parts are integers. *)
LEMMA PartType ==
  ASSUME NEW a \in Rows, NEW b \in Rows, NEW i \in 0..11, NEW k \in Places
  PROVE  PartOf(a, b, i, k) \in Int
<1>1. i \in Places
  BY DEF Places
<1>2. a[i] \in Int
  BY <1>1, RowType, Zenon
<1>3. CASE k - i \in 0..11
  <2>1. k - i \in Places
    BY <1>3 DEF Places
  <2>2. b[k - i] \in Int
    BY <2>1, RowType, Zenon
  <2> DEFINE y == b[k - i]
  <2> HIDE DEF y
  <2>3. a[i] * y \in Int
    BY <1>2, <2>2 DEF y
  <2> QED BY <1>3, <2>3, Zenon DEF PartOf, y
<1>4. CASE k - i \notin 0..11
  <2>1. 0 \in Int
    OBVIOUS
  <2> QED BY <1>4, <2>1, Zenon DEF PartOf
<1> QED BY <1>3, <1>4

(* The terms of every place, and their sum. *)
LEMMA TermsAre ==
  ASSUME NEW a \in Rows, NEW b \in Rows, NEW c \in Rows, NEW k \in Places
  PROVE  /\ TermsOf(a, b, c, k)[-1] = c[k]
         /\ \A i \in 0..11 :
              TermsOf(a, b, c, k)[i] = TermsOf(a, b, c, k)[i - 1] + PartOf(a, b, i, k)
         /\ \A i \in -1..11 : TermsOf(a, b, c, k)[i] \in Int
<1> DEFINE G == [i \in 1..12 |-> [x \in Int |-> x + PartOf(a, b, i - 1, k)]]
           u == TermsOf(a, b, c, k)
<1>1. \A i \in 0..11 : PartOf(a, b, i, k) \in Int
  BY PartType, Zenon
<1>2. c[k] \in Int
  BY RowType
<1>3. G \in [1..12 -> [Int -> Int]]
  <2>1. \A i \in 1..12, x \in Int : x + PartOf(a, b, i - 1, k) \in Int
    <3> TAKE i \in 1..12, x \in Int
    <3> DEFINE y == PartOf(a, b, i - 1, k)
    <3>1. i - 1 \in 0..11
      OBVIOUS
    <3>2. y \in Int
      BY <1>1, <3>1, Zenon
    <3> HIDE DEF y
    <3>3. x + y \in Int
      BY <3>2
    <3> QED BY <3>3 DEF y
  <2> QED BY <2>1
<1>4. PICK f \in [0..12 -> Int] : f[0] = c[k] /\ \A i \in 1..12 : f[i] = G[i][f[i - 1]]
  <2>1. 12 \in Nat
    OBVIOUS
  <2> HIDE DEF G
  <2> QED BY <1>2, <1>3, <2>1, StairsExist
<1>5. \A i \in 0..11 : f[i + 1] = f[i] + PartOf(a, b, i, k)
  <2> TAKE i \in 0..11
  <2>1. i + 1 \in 1..12 /\ (i + 1) - 1 = i /\ f[i] \in Int
    OBVIOUS
  <2>2. f[i + 1] = G[i + 1][f[(i + 1) - 1]]
    BY <1>4, <2>1
  <2> QED BY <2>1, <2>2, Zenon
<1> HIDE DEF G
<1> DEFINE h == [i \in -1..11 |-> f[i + 1]]
<1>6. Terms(a, b, c, k, h)
  <2>1. ASSUME NEW i \in -1..11
        PROVE  h[i] = IF i = -1 THEN c[k]
                      ELSE h[i - 1] + (IF k - i \in 0..11 THEN a[i] * b[k - i] ELSE 0)
    <3>1. CASE i = -1
      <4>1. h[i] = c[k]
        BY <1>4, <3>1
      <4> QED BY <3>1, <4>1, Zenon
    <3>2. CASE i # -1
      <4>1. i \in 0..11 /\ i - 1 \in -1..11 /\ (i - 1) + 1 = i
        BY <3>2
      <4>2. h[i] = f[i + 1] /\ h[i - 1] = f[i]
        BY <4>1, Zenon
      <4> HIDE DEF h
      <4> QED BY <1>5, <3>2, <4>1, <4>2, Zenon DEF PartOf
    <3> QED BY <3>1, <3>2
  <2>2. h = [i \in -1..11 |-> h[i]]
    OBVIOUS
  <2> HIDE DEF h
  <2> QED BY <2>1, <2>2, Zenon DEF Terms
<1>7. Terms(a, b, c, k, u)
  BY <1>6, Zenon DEF TermsOf
<1> HIDE DEF u, h
<1>8. \A i \in -1..11 :
        u[i] = IF i = -1 THEN c[k]
               ELSE u[i - 1] + (IF k - i \in 0..11 THEN a[i] * b[k - i] ELSE 0)
  BY <1>7, Zenon DEF Terms
<1>9. u[-1] = c[k]
  <2>1. -1 \in -1..11
    OBVIOUS
  <2> QED BY <1>8, <2>1, Zenon
<1>10. \A i \in 0..11 : u[i] = u[i - 1] + PartOf(a, b, i, k)
  <2>1. \A i \in 0..11 : i \in -1..11 /\ i # -1
    OBVIOUS
  <2> QED BY <1>8, <2>1, Zenon DEF PartOf
<1>11. \A i \in -1..11 : u[i] \in Int
  <2> DEFINE S == {i \in 0..12 : u[i - 1] \in Int}
  <2>1. 0 \in S
    <3>1. 0 - 1 = -1 /\ 0 \in 0..12
      OBVIOUS
    <3> QED BY <1>2, <1>9, <3>1, Zenon
  <2>2. \A i \in 0..(12 - 1) : i \in S => i + 1 \in S
    <3> TAKE i \in 0..(12 - 1)
    <3> HAVE i \in S
    <3> DEFINE y == PartOf(a, b, i, k)
               z == u[i - 1]
    <3>1. i \in 0..11 /\ (i + 1) - 1 = i /\ i + 1 \in 0..12
      OBVIOUS
    <3>2. u[i] = z + y /\ z \in Int /\ y \in Int
      BY <1>1, <1>10, <3>1, Zenon
    <3> HIDE DEF y, z
    <3>3. u[i] \in Int
      BY <3>2
    <3> QED BY <3>1, <3>3, Zenon
  <2>3. \A i \in 0..12 : i \in S
    <3>1. 12 \in Nat
      OBVIOUS
    <3> HIDE DEF S
    <3> QED BY <2>1, <2>2, <3>1, Upwards
  <2> TAKE i \in -1..11
  <2>4. i + 1 \in 0..12 /\ (i + 1) - 1 = i
    OBVIOUS
  <2> QED BY <2>3, <2>4, Zenon
<1> QED BY <1>9, <1>10, <1>11, Zenon DEF u

(* A convolution is what they add up to. *)
LEMMA ConvolutionIs ==
  ASSUME NEW a, NEW b, NEW c
  PROVE  Convolution(a, b, c) = [k \in Places |-> TermsOf(a, b, c, k)[11]]
  BY Zenon DEF Convolution, TermsOf, Terms

\* The row after n digits of the first factor.
TermRow(a, b, c, n) == [k \in Places |-> TermsOf(a, b, c, k)[n - 1]]

(* Each digit adds the second factor moved up. *)
LEMMA TermRowStep ==
  ASSUME NEW a \in Rows, NEW b \in Rows, NEW c \in Rows, NEW n \in 0..11,
         TermRow(a, b, c, n) \in Rows
  PROVE  TermRow(a, b, c, n + 1) = AddedSome(TermRow(a, b, c, n), b, n, a[n], 12)
<1> DEFINE g == TermRow(a, b, c, n)
           h == TermRow(a, b, c, n + 1)
           m == AddedSome(g, b, n, a[n], 12)
<1>1. ASSUME NEW k \in Places
      PROVE  h[k] = m[k]
  <2>1. (n + 1) - 1 = n
    OBVIOUS
  <2>2. g[k] = TermsOf(a, b, c, k)[n - 1] /\ h[k] = TermsOf(a, b, c, k)[n]
    BY <2>1, Zenon DEF TermRow
  <2>3. h[k] = g[k] + PartOf(a, b, n, k)
    <3>1. \A i \in 0..11 :
            TermsOf(a, b, c, k)[i] = TermsOf(a, b, c, k)[i - 1] + PartOf(a, b, i, k)
      BY TermsAre
    <3> HIDE DEF g, h
    <3> QED BY <2>2, <3>1, Zenon
  <2>4. m[k] = IF n <= k /\ k < n + 12 THEN g[k] + a[n] * b[k - n] ELSE g[k]
    BY Zenon DEF AddedSome
  <2>5. n <= k /\ k < n + 12 <=> k - n \in 0..11
    BY DEF Places
  <2>6. g[k] \in Int
    BY RowType, Zenon
  <2>7. g[k] + 0 = g[k]
    <3> HIDE DEF g
    <3> QED BY <2>6
  <2> HIDE DEF g, h, m
  <2>8. CASE k - n \in 0..11
    BY <2>3, <2>4, <2>5, <2>8, Zenon DEF PartOf
  <2>9. CASE k - n \notin 0..11
    BY <2>3, <2>4, <2>5, <2>7, <2>9, Zenon DEF PartOf
  <2> QED BY <2>8, <2>9
<1>2. h = [k \in Places |-> h[k]] /\ m = [k \in Places |-> m[k]]
  BY DEF TermRow, AddedSome
<1> HIDE DEF g, h, m
<1>3. h = m
  BY <1>1, <1>2
<1> QED BY <1>3 DEF g, h, m

(* A convolution is worth the product and the sum. *)
LEMMA ConvolutionWorth ==
  ASSUME NEW a \in Rows, NEW b \in Rows, NEW c \in Rows
  PROVE  /\ Convolution(a, b, c) \in Rows
         /\ Worth(Convolution(a, b, c)) = Worth(c) + Lowest(a)[12] * Lowest(b)[12]
<1> DEFINE g(n) == TermRow(a, b, c, n)
           u == Lowest(a)
           y == Lowest(b)[12]
           S == {n \in 0..12 : g(n) \in Rows /\ Worth(g(n)) = Worth(c) + u[n] * y}
<1>1. /\ u[0] = 0 /\ \A k \in 0..24 : u[k] \in Int
      /\ \A k \in Places : u[k + 1] = u[k] + a[k] * Scale[k]
  BY LowestSteps, Zenon
<1>2. y \in Int /\ Worth(c) \in Int
  <2>1. 12 \in 0..24
    OBVIOUS
  <2>2. \A k \in 0..24 : Lowest(b)[k] \in Int
    BY LowestSteps, Zenon
  <2> QED BY <2>1, <2>2, RowsAdd
<1>3. g(0) = c
  <2>1. \A k \in Places : TermsOf(a, b, c, k)[-1] = c[k]
    <3> TAKE k \in Places
    <3> QED BY TermsAre
  <2>2. 0 - 1 = -1
    OBVIOUS
  <2>3. \A k \in Places : g(0)[k] = c[k]
    BY <2>1, <2>2, Zenon DEF TermRow
  <2>4. g(0) = [k \in Places |-> g(0)[k]]
    BY DEF TermRow
  <2> HIDE DEF g
  <2> QED BY <2>3, <2>4 DEF Rows
<1>4. \A n \in 0..11 : g(n) \in Rows => g(n + 1) = AddedSome(g(n), b, n, a[n], 12)
  BY TermRowStep, Zenon
<1>5. g(12) = Convolution(a, b, c)
  <2>1. 12 - 1 = 11
    OBVIOUS
  <2> QED BY <2>1, ConvolutionIs, Zenon DEF TermRow
<1> HIDE DEF g, y, u
<1>6. 0 \in S
  <2>1. Worth(c) = Worth(c) + u[0] * y /\ 0 \in 0..12
    BY <1>1, <1>2
  <2> QED BY <1>3, <2>1, Zenon
<1>7. \A n \in 0..(12 - 1) : n \in S => n + 1 \in S
  <2> TAKE n \in 0..(12 - 1)
  <2> HAVE n \in S
  <2>1. n \in 0..11 /\ n \in Places /\ n \in 0..24 /\ n + 1 \in 0..12
    BY DEF Places
  <2>2. g(n) \in Rows /\ Worth(g(n)) = Worth(c) + u[n] * y
    OBVIOUS
  <2> DEFINE z == a[n] * Scale[n]
             v == u[n]
             x == a[n]
             s == g(n)
  <2>3. x \in Int /\ z \in Int /\ v \in Int /\ u[n + 1] = v + z
    <3>1. a[n] \in Int /\ Scale[n] \in Int
      BY <2>1, RowType, Zenon
    <3>2. z \in Int
      BY <3>1
    <3> HIDE DEF z
    <3> QED BY <1>1, <2>1, <3>1, <3>2, Zenon DEF z
  <2>4. g(n + 1) = AddedSome(s, b, n, x, 12) /\ s \in Rows /\ z = x * Scale[n]
    BY <1>4, <2>1, <2>2, Zenon
  <2> HIDE DEF z, v, x, s
  <2>5. g(n + 1) \in Rows /\ Worth(g(n + 1)) = Worth(s) + (x * Scale[n]) * Lowest(b)[12]
    <3>1. s \in Rows /\ x \in Int /\ n \in 0..11
      BY <2>1, <2>3, <2>4
    <3>2. /\ AddedSome(s, b, n, x, 12) \in Rows
          /\ Worth(AddedSome(s, b, n, x, 12)) = Worth(s) + (x * Scale[n]) * Lowest(b)[12]
      BY <3>1, AddedWorth, Zenon
    <3> QED BY <2>4, <3>2, Zenon
  <2>6. (v + z) * y = v * y + z * y /\ v * y \in Int /\ z * y \in Int
    BY <1>2, <2>3
  <2> DEFINE vy == v * y
             zy == z * y
             vz == (v + z) * y
  <2>7. /\ Worth(s) = Worth(c) + vy /\ Worth(g(n + 1)) = Worth(s) + zy
        /\ vz = vy + zy /\ vy \in Int /\ zy \in Int
    BY <2>2, <2>4, <2>5, <2>6, Zenon DEF v, s, y
  <2> HIDE DEF vy, zy, vz
  <2>8. Worth(g(n + 1)) = Worth(c) + vz
    BY <1>2, <2>7
  <2>9. Worth(g(n + 1)) = Worth(c) + u[n + 1] * y
    BY <2>3, <2>8, Zenon DEF vz
  <2> QED BY <2>1, <2>5, <2>9, Zenon
<1>8. \A n \in 0..12 : n \in S
  <2>1. 12 \in Nat
    OBVIOUS
  <2> HIDE DEF S
  <2> QED BY <1>6, <1>7, <2>1, Upwards
<1>9. 12 \in 0..12
  OBVIOUS
<1>10. g(12) \in Rows /\ Worth(g(12)) = Worth(c) + u[12] * y
  BY <1>8, <1>9, Zenon
<1> QED BY <1>5, <1>10, Zenon DEF y, u

(* And its digits are no more than twelve products and a digit. *)
LEMMA ConvolutionBounded ==
  ASSUME NEW a \in Rows, NEW b \in Rows, NEW c \in Rows, NEW q \in Nat,
         \A p \in Places : NotBeyond(a[p], q) /\ NotBeyond(b[p], q) /\ NotBeyond(c[p], q),
         NEW k \in Places
  PROVE  NotBeyond(Convolution(a, b, c)[k], q + 12 * (q * q))
         /\ (k = 23 => Convolution(a, b, c)[k] = c[k])
<1> DEFINE u == TermsOf(a, b, c, k)
           z == q * q
           S == {i \in 0..12 : NotBeyond(u[i - 1], q + i * z)}
           T == {i \in 0..12 : u[i - 1] = c[k]}
<1>1. /\ u[-1] = c[k]
      /\ \A i \in 0..11 : u[i] = u[i - 1] + PartOf(a, b, i, k)
      /\ \A i \in -1..11 : u[i] \in Int
  <2>1. /\ TermsOf(a, b, c, k)[-1] = c[k]
        /\ \A i \in 0..11 :
             TermsOf(a, b, c, k)[i] = TermsOf(a, b, c, k)[i - 1] + PartOf(a, b, i, k)
        /\ \A i \in -1..11 : TermsOf(a, b, c, k)[i] \in Int
    BY TermsAre
  <2> QED BY <2>1, Zenon
<1>2. Convolution(a, b, c)[k] = u[11]
  BY ConvolutionIs, Zenon
<1>3. z \in Nat
  OBVIOUS
<1>4. \A i \in 0..11 : PartOf(a, b, i, k) \in Int /\ NotBeyond(PartOf(a, b, i, k), z)
  <2> TAKE i \in 0..11
  <2>1. i \in Places
    BY DEF Places
  <2>2. CASE k - i \in 0..11
    <3>1. k - i \in Places
      BY <2>2 DEF Places
    <3> DEFINE j == k - i
               x == a[i]
               y == b[j]
    <3>2. x \in Int /\ y \in Int /\ NotBeyond(x, q) /\ NotBeyond(y, q)
      BY <2>1, <3>1, RowType, Zenon
    <3>3. PartOf(a, b, i, k) = x * y
      BY <2>2, Zenon DEF PartOf
    <3> HIDE DEF x, y
    <3>4. x * y \in Int /\ NotBeyond(x * y, z)
      BY <3>2, ProductBounded, Zenon
    <3> QED BY <3>3, <3>4, Zenon
  <2>3. CASE k - i \notin 0..11
    <3>1. 0 \in Int /\ NotBeyond(0, z)
      BY <1>3 DEF NotBeyond
    <3> HIDE DEF z
    <3> QED BY <2>3, <3>1, Zenon DEF PartOf
  <2> QED BY <2>2, <2>3
<1> HIDE DEF u, z
<1>5. 0 \in S
  <2>1. 0 - 1 = -1 /\ 0 \in 0..12 /\ q + 0 * z = q
    BY <1>3
  <2> QED BY <1>1, <2>1, Zenon
<1>6. \A i \in 0..(12 - 1) : i \in S => i + 1 \in S
  <2> TAKE i \in 0..(12 - 1)
  <2> HAVE i \in S
  <2> DEFINE y == PartOf(a, b, i, k)
             v == u[i - 1]
             w == i * z
  <2>1. i \in 0..11 /\ (i + 1) - 1 = i /\ i + 1 \in 0..12 /\ i - 1 \in -1..11
        /\ (i + 1) * z = w + z /\ w \in Nat
    BY <1>3
  <2>2. u[i] = v + y /\ v \in Int /\ y \in Int /\ NotBeyond(y, z) /\ NotBeyond(v, q + w)
    BY <1>1, <1>4, <2>1, Zenon
  <2> HIDE DEF y, v, w
  <2>3. NotBeyond(u[i], q + (w + z))
    BY <1>3, <2>1, <2>2 DEF NotBeyond
  <2> QED BY <2>1, <2>3, Zenon
<1>7. \A i \in 0..12 : i \in S
  <2>1. 12 \in Nat
    OBVIOUS
  <2> HIDE DEF S
  <2> QED BY <1>5, <1>6, <2>1, Upwards
<1>8. 12 \in 0..12 /\ 12 - 1 = 11
  OBVIOUS
<1>9. NotBeyond(u[11], q + 12 * z)
  BY <1>7, <1>8, Zenon
<1>10. ASSUME k = 23
       PROVE  u[11] = c[k]
  <2>1. 0 \in T
    <3>1. 0 - 1 = -1 /\ 0 \in 0..12
      OBVIOUS
    <3> QED BY <1>1, <3>1, Zenon
  <2>2. \A i \in 0..(12 - 1) : i \in T => i + 1 \in T
    <3> TAKE i \in 0..(12 - 1)
    <3> HAVE i \in T
    <3>1. i \in 0..11 /\ (i + 1) - 1 = i /\ i + 1 \in 0..12 /\ k - i \notin 0..11
          /\ i - 1 \in -1..11
      BY <1>10
    <3>2. u[i] = u[i - 1] + 0
      BY <1>1, <3>1, Zenon DEF PartOf
    <3>3. u[i - 1] \in Int
      BY <1>1, <3>1, Zenon
    <3>4. u[i] = u[i - 1]
      BY <3>2, <3>3
    <3> QED BY <3>1, <3>4, Zenon
  <2>3. \A i \in 0..12 : i \in T
    <3>1. 12 \in Nat
      OBVIOUS
    <3> HIDE DEF T
    <3> QED BY <2>1, <2>2, <3>1, Upwards
  <2> QED BY <1>8, <2>3, Zenon
<1> QED BY <1>2, <1>9, <1>10, Zenon DEF z

(* The carries after a convolution: digits of a few radixes, and the same
   number. *)
LEMMA CarriedOnceRight ==
  ASSUME RoomForFolds, NEW s \in Rows, NEW K \in Nat, ScalarRadix <= K,
         \A p \in Places : NotBeyond(s[p], K * ScalarRadix), s[23] = 0
  PROVE  /\ CarriedOnce(s) \in Rows /\ Worth(CarriedOnce(s)) = Worth(s)
         /\ \A p \in Places : NotBeyond(CarriedOnce(s)[p], 2 * K + ScalarRadix)
<1> DEFINE P == <<0, 2, 4, 6, 8, 10, 12, 14, 16, 18, 20, 22,
                  1, 3, 5, 7, 9, 11, 13, 15, 17, 19, 21>>
           r == ScalarRadix
           x == FoldLeft(Rounded, s, P)
<1>1. x = CarriedOnce(s)
  BY Zenon DEF CarriedOnce
<1>2. DOMAIN P = 1..23
  OBVIOUS
<1>3. \A j \in 0..11 : P[j + 1] = 2 * j
  OBVIOUS
<1>4. \A j \in 0..10 : P[12 + (j + 1)] = 1 + 2 * j
  OBVIOUS
<1> HIDE DEF P
<1>5. \A k \in 1..23 : P[k] \in 0..22
  <2> TAKE k \in 1..23
  <2>1. CASE k <= 12
    <3> DEFINE j == k - 1
    <3>1. j \in 0..11 /\ j + 1 = k /\ 2 * j \in 0..22
      BY <2>1
    <3> HIDE DEF j
    <3> QED BY <1>3, <3>1, Zenon
  <2>2. CASE k > 12
    <3> DEFINE j == k - 13
    <3>1. j \in 0..10 /\ 12 + (j + 1) = k /\ 1 + 2 * j \in 0..22
      BY <2>2
    <3> HIDE DEF j
    <3> QED BY <1>4, <3>1, Zenon
  <2> QED BY <2>1, <2>2
<1> DEFINE N == 23
<1>6. PICK h : RoundedTo(h, s, N, P)
  <2>1. N \in Nat /\ DOMAIN P = 1..N /\ \A k \in 1..N : P[k] \in 0..22
    BY <1>2, <1>5
  <2> HIDE DEF N
  <2> QED BY <2>1, RoundedGo, Zenon
<1>7. /\ h[0] = s /\ h[N] = x /\ x \in Rows /\ Worth(x) = Worth(s)
      /\ \A k \in 1..N : h[k] = Rounded(h[k - 1], P[k])
  <2> HIDE DEF N, x
  <2> QED BY <1>6, Zenon DEF RoundedTo, x
<1> HIDE DEF x
<1>8. Every2nd(h, 0, 12, 0)
  <2>1. ASSUME NEW j \in 0..(12 - 1)
        PROVE  h[0 + (j + 1)] = Rounded(h[0 + j], 0 + 2 * j)
    <3>1. j \in 0..11 /\ j + 1 \in 1..N /\ (j + 1) - 1 = j /\ 0 + (j + 1) = j + 1 /\ 0 + j = j
          /\ 0 + 2 * j = 2 * j
      OBVIOUS
    <3> HIDE DEF N
    <3>2. h[j + 1] = Rounded(h[(j + 1) - 1], P[j + 1])
      BY <1>7, <3>1, Zenon
    <3> QED BY <1>3, <3>1, <3>2, Zenon
  <2> HIDE DEF N
  <2> QED BY <2>1 DEF Every2nd
<1>9. Every2nd(h, 12, 11, 1)
  <2>1. ASSUME NEW j \in 0..(11 - 1)
        PROVE  h[12 + (j + 1)] = Rounded(h[12 + j], 1 + 2 * j)
    <3>1. j \in 0..10 /\ 12 + (j + 1) \in 1..N /\ (12 + (j + 1)) - 1 = 12 + j
      OBVIOUS
    <3> HIDE DEF N
    <3>2. h[12 + (j + 1)] = Rounded(h[(12 + (j + 1)) - 1], P[12 + (j + 1)])
      BY <1>7, <3>1
    <3> QED BY <1>4, <3>1, <3>2
  <2> HIDE DEF N
  <2> QED BY <2>1 DEF Every2nd
<1> DEFINE w == h[12]
           B == 2 * K
           k1 == Everywhere(K)
           k2 == Everywhere(B)
<1>10. \A p \in Places : k1[p] = K /\ k2[p] = B
  BY Zenon DEF Everywhere
<1>11. B \in Nat /\ r \in Nat /\ K * r \in Nat /\ B * r = 2 * (K * r)
  BY ScalarConstants
<1>12. Passed(s, w, 0, 12, k1)
  <2>1. Holds(s, k1)
    <3> HIDE DEF k1, k2, B
    <3> QED BY <1>10, Zenon DEF Holds
  <2> DEFINE m == 12
  <2>2. 0 \in Nat /\ m \in Nat /\ 0 + 2 * m <= 24 /\ 0 + m = 12
    OBVIOUS
  <2>3. Every2nd(h, 0, m, 0) /\ h[0] = s
    BY <1>7, <1>8
  <2> HIDE DEF m, k1
  <2>4. Passed(s, h[0 + m], 0, m, k1)
    BY <2>1, <2>2, <2>3, RoundedPass, Zenon
  <2>5. Passed(s, h[12], 0, m, k1)
    BY <2>2, <2>4, Zenon
  <2> QED BY <2>5 DEF m
<1> HIDE DEF w, B, k1, k2
<1>13. ASSUME NEW p \in Places
       PROVE  w[p] \in Int /\ (p % 2 = 0 => NotBeyond(2 * w[p], r))
              /\ (p % 2 # 0 => p - 1 \in Places /\ NotBeyond(w[p] - s[p], K))
  <2>1. w \in Rows /\ IF p < 0 \/ p >= 0 + 2 * 12 THEN w[p] = s[p]
        ELSE IF p % 2 = 0 % 2 THEN NotBeyond(2 * w[p], ScalarRadix)
        ELSE NotBeyond(w[p] - s[p], k1[p - 1])
    BY <1>12 DEF Passed
  <2>2. ~(p < 0 \/ p >= 0 + 2 * 12) /\ 0 % 2 = 0 /\ (p % 2 # 0 => p - 1 \in Places)
    BY DEF Places
  <2>3. w[p] \in Int
    BY <2>1, RowType, Zenon
  <2>4. p % 2 = 0 => NotBeyond(2 * w[p], r)
    <3>1. p % 2 = 0 => p % 2 = 0 % 2
      BY <2>2
    <3> QED BY <2>1, <2>2, <3>1, Zenon
  <2>5. p % 2 # 0 => NotBeyond(w[p] - s[p], k1[p - 1])
    <3>1. p % 2 # 0 => p % 2 # 0 % 2
      BY <2>2
    <3> QED BY <2>1, <2>2, <3>1, Zenon
  <2> QED BY <1>10, <2>2, <2>3, <2>4, <2>5, Zenon
<1>14. Holds(w, k2)
  <2>1. ASSUME NEW p \in Places
        PROVE  NotBeyond(w[p], 2 * (K * r))
    <3> DEFINE z == K * r
               y == w[p]
               v == s[p]
    <3>1. NotBeyond(v, z) /\ v \in Int /\ z \in Nat /\ y \in Int
      BY <1>11, <1>13, RowType
    <3>2. r <= z /\ K <= z
      <4>1. r \in Nat /\ r >= 2
        BY ScalarConstants
      <4> HIDE DEF r
      <4>2. r <= K
        BY DEF r
      <4> QED BY <4>1, <4>2
    <3>3. NotBeyond(2 * y, r) \/ NotBeyond(y - v, K)
      BY <1>13, Zenon
    <3>4. r \in Nat
      BY <1>11
    <3> HIDE DEF z, y, v, r
    <3>5. NotBeyond(y, 2 * z)
      BY <3>1, <3>2, <3>3, <3>4 DEF NotBeyond
    <3> QED BY <3>5, Zenon DEF z, y
  <2>2. \A p \in Places : k2[p] \in Nat /\ NotBeyond(w[p], k2[p] * ScalarRadix)
    BY <1>10, <1>11, <2>1, Zenon
  <2> QED BY <2>2, Zenon DEF Holds
<1>15. Passed(w, x, 1, 11, k2)
  <2> DEFINE m == 11
             n == 12
             a == 1
  <2>1. a \in Nat /\ m \in Nat /\ n \in Nat /\ a + 2 * m <= 24 /\ n + m = N /\ n = 12
    OBVIOUS
  <2>2. Every2nd(h, n, m, a) /\ h[n] = w /\ h[N] = x
    BY <1>7, <1>9 DEF w
  <2>3. w \in Rows
    BY <1>12, Zenon DEF Passed
  <2> HIDE DEF m, n, a, N
  <2>4. Passed(w, h[n + m], a, m, k2)
    BY <1>14, <2>1, <2>2, <2>3, RoundedPass, Zenon
  <2>5. Passed(w, x, a, m, k2)
    BY <2>1, <2>2, <2>4, Zenon
  <2> QED BY <2>5 DEF m, a
<1>16. ASSUME NEW p \in Places
       PROVE  NotBeyond(x[p], B + r)
  <2>1. IF p < 1 \/ p >= 1 + 2 * 11 THEN x[p] = w[p]
        ELSE IF p % 2 = 1 % 2 THEN NotBeyond(2 * x[p], ScalarRadix)
        ELSE NotBeyond(x[p] - w[p], k2[p - 1])
    BY <1>15 DEF Passed
  <2>2. p \in 0..23
    BY DEF Places
  <2>3. x[p] \in Int /\ w[p] \in Int /\ s[p] \in Int
    BY <1>7, <1>13, RowType
  <2>4. CASE p = 0
    <3>1. x[p] = w[p] /\ NotBeyond(2 * w[p], r)
      BY <1>13, <2>1, <2>4
    <3> HIDE DEF r
    <3> QED BY <1>11, <2>3, <3>1 DEF NotBeyond
  <2>5. CASE p = 23
    <3>1. x[p] = w[p] /\ NotBeyond(w[p] - s[p], K) /\ s[p] = 0
      BY <1>13, <2>1, <2>5
    <3> HIDE DEF r
    <3> QED BY <1>11, <2>3, <3>1 DEF NotBeyond, B
  <2>6. CASE p # 0 /\ p # 23 /\ p % 2 = 1
    <3>1. NotBeyond(2 * x[p], r)
      BY <2>1, <2>2, <2>6
    <3> HIDE DEF r
    <3> QED BY <1>11, <2>3, <3>1 DEF NotBeyond
  <2>7. CASE p # 0 /\ p # 23 /\ p % 2 = 0
    <3>1. NotBeyond(x[p] - w[p], k2[p - 1]) /\ p - 1 \in Places
      BY <2>1, <2>2, <2>7 DEF Places
    <3>2. NotBeyond(x[p] - w[p], B) /\ NotBeyond(2 * w[p], r)
      BY <1>10, <1>13, <2>7, <3>1
    <3> HIDE DEF r
    <3> QED BY <1>11, <2>3, <3>2 DEF NotBeyond
  <2>8. p % 2 = 0 \/ p % 2 = 1
    BY <2>2
  <2> QED BY <2>4, <2>5, <2>6, <2>7, <2>8
<1> QED BY <1>1, <1>7, <1>16, Zenon DEF B, r

-----------------------------------------------------------------------------
\* The numbers that are meant, and the digits that inputs are taken apart into.

(* TimesModOrder multiplies. *)
LEMMA TimesModOrderIs ==
  ASSUME RoomForFolds, NEW a \in Int, NEW b \in Nat
  PROVE  TimesModOrder(a, b) = (a * b) % Order
<1> DEFINE p == Order
           U(u) == u = [n \in Nat |-> IF n = 0 THEN 0
                          ELSE (32 * u[n \div 32] + a * (n % 32)) % p]
           w == [n \in Nat |-> (a * n) % p]
<1>1. p \in Nat \ {0}
  BY OrderSize
<1>2. \A n \in Nat : n \div 32 \in Nat /\ n % 32 \in Nat /\ n = 32 * (n \div 32) + (n % 32)
                     /\ (n # 0 => n \div 32 < n)
  OBVIOUS
<1>3. \A n \in Nat : a * n \in Int /\ (a * n) % p \in Int
  <2> HIDE DEF p
  <2> TAKE n \in Nat
  <2>1. a * n \in Int
    OBVIOUS
  <2> QED BY <1>1, <2>1
<1>4. ASSUME NEW n \in Nat
      PROVE  (32 * ((a * (n \div 32)) % p) + a * (n % 32)) % p = (a * n) % p
  <2> DEFINE q == n \div 32
             m == n % 32
             x == (a * q) % p
  <2>1. q \in Nat /\ m \in Nat /\ n = 32 * q + m /\ x \in Int
    BY <1>2, <1>3
  <2>2. SameModOrder(x, a * q) /\ a * q \in Int
    BY <1>2, <1>3, OrderItself
  <2> HIDE DEF q, m, x
  <2>3. 32 * (a * q) + a * m = a * n /\ a * m \in Int /\ 32 * x \in Int
        /\ 32 * (a * q) \in Int /\ 32 \in Int
    <3>1. a * (32 * q + m) = 32 * (a * q) + a * m
      BY <2>1
    <3> QED BY <2>1, <2>2, <3>1
  <2>4. SameModOrder(32 * x, 32 * (a * q))
    <3>1. SameModOrder(32, 32)
      BY DEF SameModOrder
    <3> QED BY <2>1, <2>2, <2>3, <3>1, OrderSums, Zenon
  <2>5. SameModOrder(32 * x + a * m, 32 * (a * q) + a * m)
    <3>1. SameModOrder(a * m, a * m)
      BY DEF SameModOrder
    <3> QED BY <2>3, <2>4, <3>1, OrderSums, Zenon
  <2> QED BY <2>3, <2>5, Zenon DEF SameModOrder, q, m, x
<1> HIDE DEF p
<1>5. U(w)
  <2>1. \A n \in Nat : (a * n) % p = IF n = 0 THEN 0
                          ELSE (32 * w[n \div 32] + a * (n % 32)) % p
    <3> TAKE n \in Nat
    <3>1. w[n \div 32] = (a * (n \div 32)) % p
      BY <1>2, Zenon
    <3>2. CASE n = 0
      <4>1. a * 0 = 0 /\ 0 % p = 0
        BY <1>1
      <4> QED BY <3>2, <4>1
    <3>3. CASE n # 0
      <4> HIDE DEF w
      <4> QED BY <1>4, <3>1, <3>3, Zenon
    <3> QED BY <3>2, <3>3
  <2> QED BY <2>1, Zenon
<1> DEFINE u == CHOOSE u : U(u)
<1>6. U(u)
  BY <1>5, Zenon
<1>7. TimesModOrder(a, b) = u[b]
  BY Zenon DEF TimesModOrder, p
<1> HIDE DEF u, w
<1>8. \A n \in Nat : u[n] = IF n = 0 THEN 0
                          ELSE (32 * u[n \div 32] + a * (n % 32)) % p
  BY <1>6, Zenon
<1> HIDE DEF U
<1> DEFINE T == {n \in Nat : u[n] # (a * n) % p}
<1> SUFFICES ASSUME T # {} PROVE FALSE
  <2>1. u[b] = (a * b) % p
    OBVIOUS
  <2> QED BY <1>7, <2>1 DEF p
<1>9. PICK n \in T : \A k \in T : n <= k
  <2>1. T \subseteq Nat
    OBVIOUS
  <2> HIDE DEF T
  <2> QED BY <2>1, LeastOf
<1>10. n \in Nat /\ u[n] # (a * n) % p
  BY <1>9
<1>11. n # 0
  <2>1. a * 0 = 0 /\ 0 % p = 0
    BY <1>1
  <2>2. n = 0 => u[n] = 0
    BY <1>8, <1>10, Zenon
  <2> QED BY <1>10, <2>1, <2>2, Zenon
<1> DEFINE q == n \div 32
<1>12. q \in Nat /\ q < n
  BY <1>2, <1>10, <1>11
<1>13. q \notin T
  <2>1. q \in T => n <= q
    BY <1>9, Zenon
  <2> HIDE DEF T, q
  <2>2. ~(n <= q)
    BY <1>10, <1>12
  <2> QED BY <2>1, <2>2
<1>14. u[q] = (a * q) % p
  BY <1>12, <1>13
<1>15. u[n] = (32 * u[q] + a * (n % 32)) % p
  BY <1>8, <1>10, <1>11, Zenon
<1>16. u[n] = (a * n) % p
  BY <1>4, <1>10, <1>14, <1>15, Zenon
<1> QED BY <1>10, <1>16

\* f has what ModOrder goes through, from the last place to the first.
FromAbove(s, f) ==
  f = [i \in 0..24 |-> IF i = 24 THEN 0 ELSE (ScalarRadix * f[i + 1] + s[i]) % Order]

(* ModOrder has its intermediate numbers. *)
LEMMA FromAboveExists ==
  ASSUME RoomForFolds, NEW s \in Rows
  PROVE  \E f : FromAbove(s, f)
<1> DEFINE n == 24
           v(i, x) == (ScalarRadix * x + s[n - i]) % Order
           G == [i \in 1..n |-> [x \in Int |-> v(i, x)]]
<1>1. \A i \in 1..n, x \in Int : v(i, x) \in Int
  <2> TAKE i \in 1..n, x \in Int
  <2> DEFINE y == s[n - i]
             r == ScalarRadix
             p == Order
  <2>1. n - i \in Places
    BY DEF Places
  <2>2. y \in Int /\ r \in Int /\ p \in Nat \ {0}
    BY <2>1, RowType, ScalarConstants, OrderSize, Zenon
  <2> HIDE DEF y, r, p, n
  <2>3. (r * x + y) % p \in Int
    <3>1. r * x + y \in Int
      BY <2>2
    <3> DEFINE z == r * x + y
    <3> HIDE DEF z
    <3>2. z % p \in Int
      BY <2>2, <3>1 DEF z
    <3> QED BY <3>2 DEF z
  <2> QED BY <2>3, Zenon DEF y, r, p
<1>2. /\ n \in Nat /\ n = 24
      /\ \A i \in 0..n : /\ n - i \in 0..n /\ n - (n - i) = i
                         /\ i # n => i + 1 \in 0..n /\ n - i \in 1..n /\ (n - i) - 1 = n - (i + 1)
      /\ \A i \in 1..n : i - 1 \in 0..n
      /\ n - n = 0 /\ 0 \in Int
  OBVIOUS
<1> HIDE DEF v, n
<1>3. G \in [1..n -> [Int -> Int]]
  BY <1>1
<1>4. PICK c \in [0..n -> Int] : c[0] = 0 /\ \A i \in 1..n : c[i] = G[i][c[i - 1]]
  <2> HIDE DEF G
  <2>1. n \in Nat /\ 0 \in Int
    BY <1>2, Zenon
  <2> QED BY <1>3, <2>1, StairsExist
<1>5. \A i \in 1..n : c[i] = v(i, c[i - 1])
  <2> TAKE i \in 1..n
  <2>1. c[i - 1] \in Int
    BY <1>2
  <2>2. c[i] = G[i][c[i - 1]]
    BY <1>4
  <2> QED BY <2>1, <2>2, Zenon
<1> HIDE DEF G
<1> DEFINE f == [i \in 0..n |-> c[n - i]]
<1>6. \A i \in 0..n : c[n - i] = IF i = n THEN 0 ELSE (ScalarRadix * f[i + 1] + s[i]) % Order
  <2> TAKE i \in 0..n
  <2>1. CASE i = n
    <3>1. c[n - i] = 0
      BY <1>2, <1>4, <2>1, Zenon
    <3> QED BY <2>1, <3>1, Zenon
  <2>2. CASE i # n
    <3>1. /\ f[i + 1] = c[n - (i + 1)] /\ (n - i) - 1 = n - (i + 1)
          /\ n - (n - i) = i /\ n - i \in 1..n
      BY <1>2, <2>2, Zenon
    <3>2. c[n - i] = v(n - i, c[n - (i + 1)])
      BY <1>5, <3>1, Zenon
    <3>3. v(n - i, c[n - (i + 1)]) = (ScalarRadix * c[n - (i + 1)] + s[i]) % Order
      BY <3>1, Zenon DEF v
    <3> HIDE DEF f
    <3> QED BY <2>2, <3>1, <3>2, <3>3, Zenon
  <2> QED BY <2>1, <2>2
<1>7. FromAbove(s, f)
  BY <1>2, <1>6, Zenon DEF FromAbove
<1> QED BY <1>7

(* What ModOrder gives is the number of the row modulo the order. *)
LEMMA ModOrderIs ==
  ASSUME RoomForFolds, NEW s \in Rows
  PROVE  ModOrder(s) = Worth(s) % Order
<1> DEFINE f == CHOOSE f : FromAbove(s, f)
           n == 24
           u == Lowest(s)
           W == Worth(s)
           r == ScalarRadix
           Up(i) == f[i] \in Int /\ SameModOrder(f[i] * Scale[i], W - u[i])
           S == {j \in 0..n : Up(n - j)}
<1>1. FromAbove(s, f)
  BY FromAboveExists, Zenon
<1>2. ModOrder(s) = f[0]
  BY Zenon DEF ModOrder, FromAbove
<1> HIDE DEF f
<1>3. \A i \in 0..n : f[i] = IF i = n THEN 0 ELSE (r * f[i + 1] + s[i]) % Order
  BY <1>1, Zenon DEF FromAbove
<1>4. /\ u[0] = 0 /\ \A i \in 0..24 : u[i] \in Int /\ Scale[i] \in Nat \ {0}
      /\ \A i \in Places : u[i + 1] = u[i] + s[i] * Scale[i]
  BY LowestSteps, Zenon
<1>5. W = u[n] /\ W \in Int
  BY RowsAdd, Zenon DEF Worth
<1>6. r \in Int /\ Order \in Nat \ {0}
  BY ScalarConstants, OrderSize, Zenon
<1>7. n \in Nat /\ n \in 0..n /\ 0 \in 0..n /\ n - 0 = n /\ n - n = 0
  OBVIOUS
<1> HIDE DEF u, W, r
<1>8. 0 \in S
  <2>1. f[n] = 0
    BY <1>3, <1>7, Zenon
  <2>2. f[n] * Scale[n] = 0 /\ W - u[n] = 0
    BY <1>4, <1>5, <2>1
  <2>3. 0 \in Int
    OBVIOUS
  <2>4. Up(n)
    BY <2>1, <2>2, <2>3, Zenon DEF SameModOrder
  <2> HIDE DEF Up, n
  <2> QED BY <1>7, <2>4, Zenon
<1>9. \A j \in 0..(n - 1) : j \in S => j + 1 \in S
  <2> TAKE j \in 0..(n - 1)
  <2> HAVE j \in S
  <2> DEFINE i == n - (j + 1)
  <2>1. /\ i \in Places /\ i \in 0..n /\ i # n /\ n - j = i + 1 /\ j + 1 \in 0..n
        /\ i + 1 \in 0..24 /\ i \in 0..24
    BY DEF Places
  <2>2. Up(i + 1)
    BY <2>1, Zenon
  <2> HIDE DEF i
  <2> DEFINE x == f[i + 1]
             y == s[i]
             w == Scale[i]
             v == Scale[i + 1]
             a == u[i]
             b == u[i + 1]
             z == r * x + y
             m == W - b
  <2>3. /\ x \in Int /\ y \in Int /\ w \in Int /\ a \in Int /\ b \in Int /\ v \in Int
        /\ f[i] = z % Order /\ v = r * w /\ b = a + y * w
        /\ SameModOrder(x * v, W - b)
    <3>1. x \in Int /\ SameModOrder(x * v, W - b)
      BY <2>2, Zenon
    <3>2. y \in Int /\ w \in Int /\ a \in Int /\ b \in Int /\ v \in Int
      BY <1>4, <2>1, RowType
    <3>3. v = r * w
      BY <2>1, Scales, Zenon DEF r
    <3>4. f[i] = z % Order /\ b = a + y * w
      BY <1>3, <1>4, <2>1, Zenon
    <3> QED BY <3>1, <3>2, <3>3, <3>4, Zenon
  <2> HIDE DEF x, y, w, v, a, b
  <2>4. /\ z \in Int /\ z * w = x * v + y * w /\ x * v \in Int /\ y * w \in Int /\ m \in Int
        /\ W - a = m + y * w
    <3>1. z \in Int /\ y * w \in Int /\ x * v \in Int
      BY <1>6, <2>3
    <3>2. (r * x + y) * w = (r * x) * w + y * w /\ (r * x) * w = x * (r * w)
      BY <1>6, <2>3
    <3>3. z * w = x * v + y * w
      BY <2>3, <3>2, Zenon
    <3> DEFINE d == y * w
    <3>4. b = a + d /\ d \in Int
      BY <2>3, <3>1, Zenon
    <3> HIDE DEF d
    <3>5. m \in Int /\ W - a = m + d
      BY <1>5, <2>3, <3>4
    <3> QED BY <3>1, <3>3, <3>5, Zenon DEF d
  <2> DEFINE zm == z % Order
             yw == y * w
             xv == x * v
  <2> HIDE DEF z, m
  <2>5. SameModOrder(zm, z) /\ zm \in Int
    <3>1. SameModOrder(z % Order, z) /\ z % Order \in 0..(Order - 1)
      BY <2>4, OrderItself
    <3> QED BY <1>6, <3>1
  <2> HIDE DEF zm
  <2>6. SameModOrder(zm * w, z * w)
    <3>1. SameModOrder(w, w)
      BY Zenon DEF SameModOrder
    <3> QED BY <2>3, <2>4, <2>5, <3>1, OrderSums, Zenon
  <2>7. SameModOrder(xv + yw, m + yw)
    <3>1. SameModOrder(yw, yw) /\ SameModOrder(xv, m)
      BY <2>3, Zenon DEF SameModOrder, m
    <3>2. xv \in Int /\ yw \in Int /\ m \in Int
      BY <2>4, Zenon
    <3> HIDE DEF xv, yw
    <3> QED BY <3>1, <3>2, OrderSums, Zenon
  <2>8. SameModOrder(f[i] * w, W - a) /\ f[i] \in Int
    <3>1. f[i] = zm
      BY <2>3, Zenon DEF zm
    <3>2. z * w = xv + yw /\ W - a = m + yw
      BY <2>4, Zenon
    <3> QED BY <2>5, <2>6, <2>7, <3>1, <3>2, Zenon DEF SameModOrder
  <2>9. Up(i)
    BY <2>8, Zenon DEF w, a
  <2> HIDE DEF Up
  <2> QED BY <2>1, <2>9, Zenon DEF i
<1>10. \A j \in 0..n : j \in S
  <2> HIDE DEF S, n
  <2> QED BY <1>7, <1>8, <1>9, Upwards, Zenon
<1>11. Up(0)
  <2> HIDE DEF Up, n
  <2> QED BY <1>7, <1>10, Zenon
<1>12. f[0] \in 0..(Order - 1)
  <2>1. f[0] = (r * f[1] + s[0]) % Order
    <3>1. 0 \in 0..n /\ 0 # n /\ 0 + 1 = 1
      OBVIOUS
    <3> HIDE DEF n
    <3> QED BY <1>3, <3>1, Zenon
  <2>2. f[1] \in Int
    <3> DEFINE j == n - 1
    <3>1. j \in 0..n /\ n - j = 1
      OBVIOUS
    <3> HIDE DEF j, n, Up
    <3>2. Up(1)
      BY <1>10, <3>1, Zenon
    <3> QED BY <3>2, Zenon DEF Up
  <2>3. s[0] \in Int
    <3>1. 0 \in Places
      BY DEF Places
    <3> QED BY <3>1, RowType, Zenon
  <2> DEFINE z == r * f[1] + s[0]
  <2>4. z \in Int
    BY <1>6, <2>2, <2>3
  <2> HIDE DEF z
  <2>5. z % Order \in 0..(Order - 1)
    BY <2>4, OrderItself, Zenon
  <2> QED BY <2>1, <2>5, Zenon DEF z
<1>13. f[0] * Scale[0] = f[0] /\ W - u[0] = W
  BY <1>4, <1>5, <1>11, Scales
<1>14. f[0] % Order = W % Order
  BY <1>11, <1>13, Zenon DEF SameModOrder
<1>15. f[0] % Order = f[0]
  <2> DEFINE p == Order
  <2>1. p \in Nat \ {0} /\ f[0] \in 0..(p - 1)
    BY <1>6, <1>12
  <2> HIDE DEF p
  <2>2. f[0] % p = f[0]
    BY <2>1
  <2> QED BY <2>2 DEF p
<1> QED BY <1>2, <1>14, <1>15, Zenon DEF W

\* The digits of a number that may be multiplied: at most 32 bytes.
Factor(s) ==
  /\ s \in Rows /\ \A p \in Places : NotBeyond(s[p], 16 * ScalarRadix)
  /\ \A p \in Places : p >= 12 => s[p] = 0

(* How large a sum of twelve products gets, in radixes. *)
LEMMA RoomForProducts ==
  ASSUME NEW r \in Nat, r >= 1048576
  PROVE  /\ (16 * r) + 12 * ((16 * r) * (16 * r)) <= (3073 * r) * r
         /\ r <= 3073 * r /\ 2 * (3073 * r) + r = 6147 * r
         /\ 128 * 6147 + 128 <= r
<1> DEFINE z == r * r
<1>1. z \in Nat /\ 16 * r <= z
  <2>1. (r - 16) * r >= 0
    BY SMT
  <2>2. (r - 16) * r = z - 16 * r
    BY SMT
  <2>3. z \in Nat
    BY SMT
  <2> HIDE DEF z
  <2> QED BY <2>1, <2>2, <2>3, SMT
<1>2. (16 * r) * (16 * r) = 256 * z /\ (3073 * r) * r = 3073 * z
  BY SMT
<1> HIDE DEF z
<1>3. (16 * r) + 12 * (256 * z) <= 3073 * z
  BY <1>1, SMT
<1>4. (16 * r) + 12 * ((16 * r) * (16 * r)) <= (3073 * r) * r
  BY <1>2, <1>3, SMT
<1> QED BY <1>4, SMT

(* A product and a sum of such numbers, reduced. *)
LEMMA MuladdRight ==
  ASSUME RoomForFolds, NEW a, NEW b, NEW c, Factor(a), Factor(b), Factor(c)
  PROVE  /\ RightRow(sc_muladd(a, b, c))
         /\ Worth(sc_muladd(a, b, c)) = (Worth(a) * Worth(b) + Worth(c)) % Order
<1> DEFINE r == ScalarRadix
           q == 16 * r
           B == q + 12 * (q * q)
           K == 3073 * r
           m == 6147
           v == Convolution(a, b, c)
           t == CarriedOnce(v)
<1>1. r \in Nat /\ r >= 1048576
  BY ScalarConstants, SMT DEF RoomForFolds
<1>2. q \in Nat /\ K \in Nat /\ m \in Nat /\ B \in Nat
  <2> HIDE DEF r
  <2>1. q \in Nat /\ K \in Nat /\ m \in Nat
    BY <1>1, SMT
  <2> HIDE DEF q, K, m
  <2>2. q * q \in Nat
    BY <2>1, SMT
  <2> DEFINE y == q * q
  <2> HIDE DEF y
  <2>3. q + 12 * y \in Nat
    BY <2>1, <2>2, SMT DEF y
  <2> QED BY <2>1, <2>3, Zenon DEF y
<1>3. B <= K * r /\ r <= K /\ 2 * K + r = m * r /\ 128 * m + 128 <= r
  <2> HIDE DEF r
  <2> QED BY <1>1, RoomForProducts, SMT
<1>4. /\ a \in Rows /\ b \in Rows /\ c \in Rows
      /\ \A p \in Places : NotBeyond(a[p], q) /\ NotBeyond(b[p], q) /\ NotBeyond(c[p], q)
  BY Zenon DEF Factor
<1>5. /\ \A p \in Places : p >= 12 => a[p] = 0
      /\ \A p \in Places : p >= 12 => b[p] = 0
      /\ \A p \in Places : p >= 12 => c[p] = 0
  BY Zenon DEF Factor
<1> HIDE DEF r, q, K, m
<1>6. v \in Rows /\ Worth(v) = Worth(c) + Lowest(a)[12] * Lowest(b)[12]
  BY <1>4, ConvolutionWorth, Zenon
<1>7. 12 \in 0..24 /\ 23 \in Places /\ 23 >= 12
  BY SMT DEF Places
<1>8. Worth(a) = Lowest(a)[12] /\ Worth(b) = Lowest(b)[12]
  <2>1. Worth(a) = Lowest(a)[12]
    BY <1>4, <1>5, <1>7, ZerosAbove, SMT
  <2>2. Worth(b) = Lowest(b)[12]
    BY <1>4, <1>5, <1>7, ZerosAbove, SMT
  <2> QED BY <2>1, <2>2
<1>9. \A p \in Places : NotBeyond(v[p], B) /\ (p = 23 => v[p] = c[p])
  <2> TAKE p \in Places
  <2> QED BY <1>2, <1>4, ConvolutionBounded, SMT
<1>10. v[23] = 0
  BY <1>5, <1>7, <1>9, SMT
<1>11. \A p \in Places : NotBeyond(v[p], K * r)
  <2> TAKE p \in Places
  <2>1. v[p] \in Int
    BY <1>6, RowType
  <2>2. NotBeyond(v[p], B)
    BY <1>9
  <2>3. K * r \in Int
    BY <1>1, <1>2
  <2> DEFINE x == v[p]
             y == K * r
             z == B
  <2>4. z \in Nat /\ z <= y /\ NotBeyond(x, z) /\ x \in Int /\ y \in Int
    BY <1>2, <1>3, <2>1, <2>2, <2>3, Zenon
  <2> HIDE DEF x, y, z
  <2>5. NotBeyond(x, y)
    BY <2>4 DEF NotBeyond
  <2> QED BY <2>5, Zenon DEF x, y
<1> HIDE DEF v
<1>12. /\ t \in Rows /\ Worth(t) = Worth(v)
       /\ \A p \in Places : NotBeyond(t[p], 2 * K + r)
  <2>1. ScalarRadix <= K /\ \A p \in Places : NotBeyond(v[p], K * ScalarRadix)
    BY <1>3, <1>11, Zenon DEF r
  <2>2. /\ t \in Rows /\ Worth(t) = Worth(v)
        /\ \A p \in Places : NotBeyond(t[p], 2 * K + ScalarRadix)
    BY <1>2, <1>6, <1>10, <2>1, CarriedOnceRight
  <2> QED BY <2>2, Zenon DEF r
<1>13. Reducible(t, m)
  BY <1>2, <1>3, <1>12, Zenon DEF Reducible, r
<1> HIDE DEF t
<1>14. RightRow(sc_reduce(t)) /\ Worth(sc_reduce(t)) = Worth(t) % Order
  BY <1>13, ReducedRight
<1>15. sc_muladd(a, b, c) = sc_reduce(t)
  BY Zenon DEF sc_muladd, t, v
<1>16. Worth(c) + Worth(a) * Worth(b) = Worth(a) * Worth(b) + Worth(c)
  <2>1. Worth(a) \in Int /\ Worth(b) \in Int /\ Worth(c) \in Int
    BY <1>4, RowsAdd
  <2> DEFINE y == Worth(a) * Worth(b)
             z == Worth(c)
  <2>2. y \in Int /\ z \in Int
    BY <2>1
  <2> HIDE DEF y, z
  <2>3. z + y = y + z
    BY <2>2
  <2> QED BY <2>3, Zenon DEF y, z
<1>17. Worth(t) = Worth(a) * Worth(b) + Worth(c)
  BY <1>6, <1>8, <1>12, <1>16, Zenon
<1> QED BY <1>14, <1>15, <1>17, Zenon

(* The digits of a digest may be reduced. *)
LEMMA DigestsReduce ==
  ASSUME RoomForFolds, NEW d \in DigestInputs
  PROVE  Reducible(d, 256)
<1> DEFINE r == ScalarRadix
<1>1. r \in Nat /\ r >= 1048576
  BY ScalarConstants, SMT DEF RoomForFolds
<1>2. /\ d \in [Places -> Nat] /\ d[23] < 256 * r
      /\ \A i \in 0..22 : d[i] < r
  BY ScalarAssumption, Zenon
<1>3. d \in Rows
  BY <1>2 DEF Rows
<1> HIDE DEF r
<1>4. 256 \in Nat /\ 128 * 256 + 128 <= r
  BY <1>1, SMT
<1>5. \A p \in Places : NotBeyond(d[p], 256 * r)
  <2> TAKE p \in Places
  <2> DEFINE x == d[p]
  <2>1. x \in Nat
    BY <1>2
  <2>2. x < r \/ x < 256 * r
    <3>1. p \in 0..22 \/ p = 23
      BY DEF Places
    <3> QED BY <1>2, <3>1, Zenon
  <2> HIDE DEF x
  <2>3. -(256 * r) <= x /\ x <= 256 * r
    BY <1>1, <2>1, <2>2
  <2> QED BY <2>3, Zenon DEF NotBeyond, x
<1> QED BY <1>3, <1>4, <1>5, Zenon DEF Reducible, r

(* A result may be multiplied again. *)
LEMMA ResultsMultiply ==
  ASSUME RoomForFolds, NEW v, RightRow(v)
  PROVE  Factor(v)
<1> DEFINE r == ScalarRadix
<1>1. r \in Nat /\ r >= 2
  BY ScalarConstants, SMT
<1>2. /\ v \in Rows /\ v[11] \in 0..r
      /\ \A p \in Places : /\ p < 11 => v[p] \in 0..(r - 1)
                           /\ p >= 12 => v[p] = 0
  BY Zenon DEF RightRow
<1> HIDE DEF r
<1>3. \A p \in Places : NotBeyond(v[p], 16 * r)
  <2> TAKE p \in Places
  <2>1. v[p] \in 0..r
    <3>1. p < 11 \/ p = 11 \/ p >= 12
      BY DEF Places
    <3>2. 0 \in 0..r /\ \A x \in 0..(r - 1) : x \in 0..r
      BY <1>1
    <3> QED BY <1>2, <3>1, <3>2, Zenon
  <2> DEFINE x == v[p]
  <2> HIDE DEF x
  <2>2. -(16 * r) <= x /\ x <= 16 * r
    BY <1>1, <2>1 DEF x
  <2> QED BY <2>2, Zenon DEF NotBeyond, x
<1> QED BY <1>2, <1>3, Zenon DEF Factor, r

(* One more digit of a number. *)
LEMMA DigitOfNumber ==
  ASSUME NEW w \in Nat \ {0}, NEW r \in Nat \ {0}, NEW n \in Int
  PROVE  n % (r * w) = (n % w) + ((n \div w) % r) * w
<1> DEFINE q == n \div w
           a == n % w
           k == q \div r
           b == q % r
           z == b * w
           y == r * w
<1>1. n = w * q + a /\ a \in 0..(w - 1) /\ q \in Int
  BY Division
<1> HIDE DEF q, a
<1>2. q = r * k + b /\ b \in 0..(r - 1) /\ k \in Int
  BY <1>1, Division
<1> HIDE DEF k, b
<1>3. z \in Nat /\ y \in Nat \ {0} /\ z + w <= y
  <2>1. \A x1, x2 \in Nat : x1 * x2 \in Nat
    OBVIOUS
  <2>2. z \in Nat /\ y \in Nat
    BY <1>2, <2>1
  <2>3. y # 0
    OBVIOUS
  <2>4. ((r - 1) - b) * w >= 0
    <3>1. (r - 1) - b \in Nat
      BY <1>2
    <3> DEFINE x == (r - 1) - b
    <3> HIDE DEF x
    <3>2. x * w \in Nat
      BY <2>1, <3>1 DEF x
    <3> QED BY <3>2 DEF x
  <2>5. ((r - 1) - b) * w = (y - w) - z
    BY <1>2
  <2> HIDE DEF z, y
  <2> QED BY <2>2, <2>3, <2>4, <2>5
<1>4. w * (r * k + b) = y * k + z
  BY <1>2
<1>5. n = y * k + (z + a)
  <2> DEFINE x == y * k
  <2>1. x \in Int
    BY <1>2
  <2>2. w * q = x + z
    BY <1>2, <1>4, Zenon
  <2> HIDE DEF x, z
  <2>3. n = x + (z + a)
    BY <1>1, <1>3, <2>1, <2>2
  <2> QED BY <2>3, Zenon DEF x
<1> HIDE DEF z, y
<1>6. z + a \in 0..(y - 1)
  BY <1>1, <1>3
<1>7. (y * k + (z + a)) % y = z + a
  BY <1>2, <1>3, <1>6, RemainderIs
<1>8. z + a = a + z
  BY <1>1, <1>3
<1> QED BY <1>5, <1>7, <1>8, Zenon DEF y, z, a, b, q

(* The digits that the code takes a number of 32 bytes apart into. *)
LEMMA DigitsAreRight ==
  ASSUME RoomForFolds, NEW n \in ScalarInputs
  PROVE  n \in Nat /\ Factor(DigitsOf(n)) /\ Worth(DigitsOf(n)) = n
<1> DEFINE s == DigitsOf(n)
           r == ScalarRadix
           u == Lowest(s)
           w == Scale[11]
           q == n \div w
           m == 16 * r
<1>1. n \in Nat /\ n < 16 * Power[12]
  BY ScalarAssumption, Zenon
<1>2. r \in Nat \ {0} /\ r >= 2
  BY ScalarConstants
<1>3. /\ 0 \in 0..24 /\ 11 \in 0..24 /\ 12 \in 0..24 /\ 12 \in 0..12 /\ 11 \in 0..12
      /\ 11 \in Places /\ 11 + 1 = 12 /\ 11 \in Nat /\ n \in Int
      /\ \A i \in 0..(11 - 1) : /\ i \in 0..24 /\ i + 1 \in 0..24 /\ i \in Places
                                /\ i \in 0..11 /\ i + 1 \in 0..11
                                /\ i \in 0..12 /\ ~(i > 11) /\ i # 11
  BY <1>1 DEF Places
<1>4. w \in Nat \ {0} /\ Scale[12] = r * w /\ Power[12] = r * w /\ Power[11] = w
  BY <1>3, Scales, PowersAreScales, Zenon
<1>5. n = w * q + (n % w) /\ n % w \in 0..(w - 1) /\ q \in Int
  BY <1>3, <1>4, Division, Zenon
<1>6. q \in Nat /\ q < m
  <2>1. w * q > -w
    <3> DEFINE x == w * q
               a == n % w
    <3>1. x \in Int /\ n = x + a /\ a \in 0..(w - 1)
      <4>1. \A x1, x2 \in Int : x1 * x2 \in Int
        OBVIOUS
      <4>2. w \in Int
        BY <1>4
      <4> QED BY <1>5, <4>1, <4>2, Zenon
    <3> HIDE DEF x, a
    <3>2. x > -w
      BY <1>1, <1>4, <3>1
    <3> QED BY <3>2, Zenon DEF x
  <2>2. w * q < w * m
    <3> DEFINE x == w * q
               a == n % w
               y == w * m
    <3>1. x \in Int /\ n = x + a /\ a \in 0..(w - 1)
      <4>1. \A x1, x2 \in Int : x1 * x2 \in Int
        OBVIOUS
      <4>2. w \in Int
        BY <1>4
      <4> QED BY <1>5, <4>1, <4>2, Zenon
    <3>2. n < y /\ y \in Int
      <4>1. 16 * (r * w) = w * (16 * r) /\ w * (16 * r) \in Int
        <5> HIDE DEF r, w
        <5> QED BY <1>2, <1>4, SMT
      <4>2. 16 * Power[12] = y /\ y \in Int
        BY <1>4, <4>1, SMT
      <4> QED BY <1>1, <4>2, Zenon
    <3> HIDE DEF x, a, y
    <3>3. x < y
      BY <1>1, <1>4, <3>1, <3>2
    <3> QED BY <3>3, Zenon DEF x, y
  <2>3. m \in Int
    BY <1>2
  <2> HIDE DEF q, m, w
  <2>4. q >= 0 /\ q < m
    BY <1>4, <1>5, <2>1, <2>2, <2>3, BetweenMultiples
  <2> QED BY <1>5, <2>4
<1>7. \A p \in Places : s[p] = IF p > 11 THEN 0
                               ELSE IF p = 11 THEN q ELSE (n \div Power[p]) % r
  BY <1>4, Zenon DEF DigitsOf
<1>8. \A i \in 0..(11 - 1) : /\ s[i] = (n \div Scale[i]) % r
                             /\ s[i] \in 0..(r - 1)
  <2> TAKE i \in 0..(11 - 1)
  <2>1. s[i] = (n \div Power[i]) % r /\ Power[i] = Scale[i] /\ Scale[i] \in Nat \ {0}
    BY <1>3, <1>7, PowersAreScales, Scales, Zenon
  <2>2. n \div Scale[i] \in Int
    BY <1>3, <2>1, Division, Zenon
  <2>3. (n \div Scale[i]) % r \in 0..(r - 1)
    <3> DEFINE x == n \div Scale[i]
    <3> HIDE DEF x, r
    <3>1. x % r \in 0..(r - 1)
      BY <1>2, <2>2, Division DEF x
    <3> QED BY <3>1, Zenon DEF x
  <2> QED BY <2>1, <2>3, Zenon
<1>9. /\ \A p \in Places : p > 11 => s[p] = 0
      /\ s[11] = q
  <2>1. ~(11 > 11)
    OBVIOUS
  <2> QED BY <1>3, <1>7, <2>1, Zenon
<1>10. \A p \in Places : s[p] \in Nat /\ s[p] < m
  <2> TAKE p \in Places
  <2>1. p > 11 \/ p = 11 \/ p \in 0..(11 - 1)
    BY DEF Places
  <2>2. p > 11 => s[p] \in Nat /\ s[p] < m
    <3>1. 0 \in Nat /\ 0 < m
      BY <1>2
    <3> QED BY <1>9, <3>1, Zenon
  <2>3. p = 11 => s[p] \in Nat /\ s[p] < m
    BY <1>6, <1>9, Zenon
  <2>4. p \in 0..(11 - 1) => s[p] \in Nat /\ s[p] < m
    <3>1. \A x \in 0..(r - 1) : x \in Nat /\ x < m
      BY <1>2
    <3> QED BY <1>8, <3>1, Zenon
  <2> QED BY <2>1, <2>2, <2>3, <2>4, Zenon
<1>11. s \in Rows
  <2>1. s = [p \in Places |-> s[p]]
    BY Zenon DEF DigitsOf
  <2>2. \A p \in Places : s[p] \in Int
    BY <1>10
  <2> HIDE DEF s
  <2>3. [p \in Places |-> s[p]] \in Rows
    BY <2>2, Zenon DEF Rows
  <2> QED BY <2>1, <2>3, Zenon
<1>12. \A p \in Places : p >= 12 => s[p] = 0
  <2>1. \A p \in Places : p >= 12 => p > 11
    BY DEF Places
  <2> QED BY <1>9, <2>1, Zenon
<1> HIDE DEF q, s
<1>13. Factor(s)
  <2>1. \A p \in Places : NotBeyond(s[p], m)
    <3> TAKE p \in Places
    <3> DEFINE x == s[p]
    <3>1. x \in Nat /\ x < m /\ m \in Int
      BY <1>2, <1>10
    <3> HIDE DEF x, m
    <3>2. NotBeyond(x, m)
      BY <3>1 DEF NotBeyond
    <3> QED BY <3>2, Zenon DEF x
  <2> QED BY <1>11, <1>12, <2>1, Zenon DEF Factor
<1>14. /\ u[0] = 0 /\ \A i \in 0..24 : u[i] \in Int /\ Scale[i] \in Nat \ {0}
       /\ \A i \in Places : u[i + 1] = u[i] + s[i] * Scale[i]
  BY <1>11, LowestSteps, Zenon
<1>15. Worth(s) = u[12]
  BY <1>3, <1>11, <1>12, ZerosAbove, SMT
<1> HIDE DEF u
<1> DEFINE S == {i \in 0..11 : u[i] = n % Scale[i]}
<1>16. 0 \in S
  <2>1. n % 1 = 0
    BY <1>1
  <2>2. u[0] = n % Scale[0]
    BY <1>14, <2>1, Scales, Zenon
  <2> QED BY <2>2
<1>17. \A i \in 0..(11 - 1) : i \in S => i + 1 \in S
  <2> TAKE i \in 0..(11 - 1)
  <2> HAVE i \in S
  <2>1. u[i] = n % Scale[i]
    OBVIOUS
  <2>2. Scale[i + 1] = r * Scale[i] /\ Scale[i] \in Nat \ {0}
    BY <1>3, Scales, Zenon
  <2>3. n % (r * Scale[i]) = (n % Scale[i]) + ((n \div Scale[i]) % r) * Scale[i]
    BY <1>2, <1>3, <2>2, DigitOfNumber, Zenon
  <2>4. u[i + 1] = n % Scale[i + 1]
    BY <1>3, <1>8, <1>14, <2>1, <2>2, <2>3, Zenon
  <2> QED BY <1>3, <2>4, Zenon
<1> HIDE DEF S
<1>18. \A i \in 0..11 : i \in S
  BY <1>3, <1>16, <1>17, Upwards, Zenon
<1>19. u[11] = n % w
  BY <1>18 DEF S
<1>20. u[12] = (n % w) + q * w
  BY <1>3, <1>9, <1>14, <1>19, Zenon
<1>21. (n % w) + q * w = w * q + (n % w)
  <2> DEFINE a == n % w
  <2> HIDE DEF a, w
  <2>1. a + q * w = w * q + a
    BY <1>4, <1>5 DEF a
  <2> QED BY <2>1, Zenon DEF a
<1> QED BY <1>1, <1>5, <1>13, <1>15, <1>20, <1>21, Zenon DEF s

-----------------------------------------------------------------------------
\* Scalars are right, through any calls.

\* u adds up the twelve digits of a scalar.
UptoOf(s, u) ==
  u = [i \in -1..11 |-> IF i = -1 THEN 0 ELSE u[i - 1] + s[i] * Power[i]]

(* The number of a scalar's digits is the one of its row. *)
LEMMA UptoIsLowest ==
  ASSUME NEW s \in Rows
  PROVE  (CHOOSE u : UptoOf(s, u))[11] = Lowest(s)[12]
<1> DEFINE u == Lowest(s)
           n == 11
           g == [i \in -1..n |-> u[i + 1]]
           f == CHOOSE f : UptoOf(s, f)
<1>1. /\ n = 11 /\ -1 \in -1..n /\ 0 - 1 = -1 /\ -1 + 1 = 0 /\ 11 + 1 = 12
      /\ \A i \in -1..n : i # -1 => /\ i - 1 \in -1..n /\ (i - 1) + 1 = i
                                    /\ i \in Places /\ i \in 0..12
  BY DEF Places
<1>2. /\ u[0] = 0 /\ \A i \in Places : u[i + 1] = u[i] + s[i] * Scale[i]
  BY LowestSteps, Zenon
<1> HIDE DEF u
<1>3. \A i \in -1..n : u[i + 1] = IF i = -1 THEN 0 ELSE g[i - 1] + s[i] * Power[i]
  <2> TAKE i \in -1..n
  <2>1. CASE i = -1
    <3>1. u[i + 1] = 0
      BY <1>1, <1>2, <2>1, Zenon
    <3> QED BY <2>1, <3>1, Zenon
  <2>2. CASE i # -1
    <3>1. /\ i - 1 \in -1..n /\ (i - 1) + 1 = i /\ i \in Places
          /\ Power[i] = Scale[i] /\ u[i + 1] = u[i] + s[i] * Scale[i]
      BY <1>1, <1>2, <2>2, PowersAreScales, Zenon
    <3>2. g[i - 1] = u[i]
      BY <3>1, Zenon
    <3> QED BY <2>2, <3>1, <3>2, Zenon
  <2> QED BY <2>1, <2>2, Zenon
<1>4. UptoOf(s, g)
  <2>1. g = [i \in -1..n |-> IF i = -1 THEN 0 ELSE g[i - 1] + s[i] * Power[i]]
    BY <1>3, Zenon
  <2> QED BY <1>1, <2>1, Zenon DEF UptoOf
<1>5. UptoOf(s, f)
  BY <1>4, Zenon
<1> HIDE DEF f, g
<1>6. \A i \in -1..n : f[i] = IF i = -1 THEN 0 ELSE f[i - 1] + s[i] * Power[i]
  BY <1>1, <1>5, Zenon DEF UptoOf
<1> DEFINE h(i) == f[i - 1]
           S == {i \in 0..12 : h(i) = u[i]}
<1>7. 0 \in S
  <2>1. f[0 - 1] = u[0]
    BY <1>1, <1>2, <1>6, Zenon
  <2> QED BY <2>1
<1>8. \A i \in 0..(12 - 1) : i \in S => i + 1 \in S
  <2> TAKE i \in 0..(12 - 1)
  <2> HAVE i \in S
  <2>1. i \in -1..n /\ i # -1 /\ (i + 1) - 1 = i /\ i + 1 \in 0..12
    BY <1>1
  <2>2. f[i - 1] = u[i]
    BY Zenon
  <2>3. f[i] = f[i - 1] + s[i] * Power[i] /\ Power[i] = Scale[i] /\ i \in Places
    BY <1>1, <1>6, <2>1, PowersAreScales, Zenon
  <2>4. f[i] = u[i + 1]
    BY <1>2, <2>2, <2>3, Zenon
  <2>5. h(i + 1) = u[i + 1]
    BY <2>1, <2>4, Zenon
  <2> QED BY <2>1, <2>5, Zenon
<1> HIDE DEF S
<1>9. \A i \in 0..12 : i \in S
  <2>1. 12 \in Nat
    OBVIOUS
  <2> QED BY <1>7, <1>8, <2>1, Upwards, Zenon
<1>10. 12 \in 0..12 /\ 12 - 1 = 11
  OBVIOUS
<1>11. f[12 - 1] = u[12]
  BY <1>9, <1>10, Zenon DEF S
<1> QED BY <1>10, <1>11, Zenon DEF f, u

\* Scalars are rows of digits that are the numbers they are to be.
ScalarIInv == RightRow(scalar) /\ Worth(scalar) = scalarIs

\* Any run of scalar operations.
ScalarSpec == ScalarInit /\ [][ScalarNext]_scalarVars

(* A digest is reduced to the number that it is. *)
LEMMA ScalarInitRight ==
  ASSUME RoomForFolds, ScalarInit
  PROVE  ScalarIInv
<1>1. PICK d \in DigestInputs : scalar = sc_reduce(d) /\ scalarIs = ModOrder(d)
  BY DEF ScalarInit
<1>2. Reducible(d, 256)
  BY DigestsReduce
<1>3. d \in Rows
  BY <1>2, Zenon DEF Reducible
<1>4. RightRow(sc_reduce(d)) /\ Worth(sc_reduce(d)) = Worth(d) % Order
  BY <1>2, ReducedRight
<1>5. ModOrder(d) = Worth(d) % Order
  BY <1>3, ModOrderIs
<1> QED BY <1>1, <1>4, <1>5, Zenon DEF ScalarIInv

(* Products and sums are the numbers that they are to be. *)
LEMMA ScalarStepRight ==
  ASSUME RoomForFolds, ScalarIInv, [ScalarNext]_scalarVars
  PROVE  ScalarIInv'
<1> DEFINE p == Order
           x == scalarIs
<1>1. p \in Nat \ {0}
  BY OrderSize
<1>2. RightRow(scalar) /\ Worth(scalar) = x /\ x \in 0..(p - 1) /\ Factor(scalar)
  <2>1. RightRow(scalar) /\ Worth(scalar) = x
    BY Zenon DEF ScalarIInv
  <2> QED BY <2>1, ResultsMultiply, Zenon DEF RightRow
<1>3. x \in Nat /\ x \in Int
  BY <1>1, <1>2
<1>4. ASSUME NEW n \in ScalarInputs, NEW m \in ScalarInputs
      PROVE  /\ n \in Nat /\ m \in Nat
             /\ Factor(DigitsOf(n)) /\ Worth(DigitsOf(n)) = n
             /\ Factor(DigitsOf(m)) /\ Worth(DigitsOf(m)) = m
  BY DigitsAreRight
<1> HIDE DEF p, x
<1>5. ASSUME NEW n \in ScalarInputs, NEW m \in ScalarInputs,
             scalar' = sc_muladd(scalar, DigitsOf(n), DigitsOf(m)),
             scalarIs' = (TimesModOrder(scalarIs, n) + m) % Order
      PROVE  ScalarIInv'
  <2>1. n \in Nat /\ m \in Nat /\ n \in Int /\ m \in Int
    <3>1. \A y \in Nat : y \in Int
      OBVIOUS
    <3> QED BY <1>4, <3>1
  <2>2. RightRow(scalar') /\ Worth(scalar') = (x * n + m) % p
    <3>1. /\ RightRow(scalar')
          /\ Worth(scalar') = (Worth(scalar) * Worth(DigitsOf(n)) + Worth(DigitsOf(m))) % Order
      BY <1>2, <1>4, <1>5, MuladdRight
    <3> QED BY <1>2, <1>4, <3>1, Zenon DEF p
  <2>3. scalarIs' = (((x * n) % p) + m) % p
    <3>1. TimesModOrder(x, n) = (x * n) % Order
      BY <1>3, <2>1, TimesModOrderIs
    <3> QED BY <1>5, <3>1, Zenon DEF p, x
  <2>4. (((x * n) % p) + m) % p = (x * n + m) % p
    <3> DEFINE y == x * n
    <3>1. y \in Int
      BY <1>3, <2>1
    <3> HIDE DEF y
    <3>2. ((y % p) + m) % p = (y + m) % p
      BY <1>1, <2>1, <3>1, ReducedFirst
    <3> QED BY <3>2, Zenon DEF y
  <2> QED BY <2>2, <2>3, <2>4, Zenon DEF ScalarIInv
<1>6. ASSUME NEW n \in ScalarInputs, NEW m \in ScalarInputs,
             scalar' = sc_muladd(DigitsOf(n), DigitsOf(m), scalar),
             scalarIs' = (TimesModOrder(n % Order, m) + scalarIs) % Order
      PROVE  ScalarIInv'
  <2>1. n \in Nat /\ m \in Nat /\ n \in Int /\ m \in Int
    <3>1. \A y \in Nat : y \in Int
      OBVIOUS
    <3> QED BY <1>4, <3>1
  <2>2. RightRow(scalar') /\ Worth(scalar') = (n * m + x) % p
    <3>1. /\ RightRow(scalar')
          /\ Worth(scalar') = (Worth(DigitsOf(n)) * Worth(DigitsOf(m)) + Worth(scalar)) % Order
      BY <1>2, <1>4, <1>6, MuladdRight
    <3> QED BY <1>2, <1>4, <3>1, Zenon DEF p
  <2>3. n % p \in Int /\ ((n % p) * m) % p = (n * m) % p
    BY <1>1, <2>1, ReducedFirst
  <2>4. scalarIs' = (((n * m) % p) + x) % p
    <3>1. TimesModOrder(n % p, m) = ((n % p) * m) % p
      <4> DEFINE y == n % p
      <4>1. y \in Int
        BY <2>3, Zenon
      <4> HIDE DEF y
      <4>2. TimesModOrder(y, m) = (y * m) % Order
        BY <2>1, <4>1, TimesModOrderIs
      <4> QED BY <4>2, Zenon DEF y, p
    <3> QED BY <1>6, <2>3, <3>1, Zenon DEF p, x
  <2>5. (((n * m) % p) + x) % p = (n * m + x) % p
    <3> DEFINE y == n * m
    <3>1. y \in Int
      BY <2>1
    <3> HIDE DEF y
    <3>2. ((y % p) + x) % p = (y + x) % p
      BY <1>1, <1>3, <3>1, ReducedFirst
    <3> QED BY <3>2, Zenon DEF y
  <2> QED BY <2>2, <2>4, <2>5, Zenon DEF ScalarIInv
<1>7. CASE UNCHANGED scalarVars
  <2>1. scalar' = scalar /\ scalarIs' = scalarIs
    BY <1>7 DEF scalarVars
  <2> QED BY <2>1, Zenon DEF ScalarIInv
<1>8. CASE ScalarNext
  <2>1. PICK n \in ScalarInputs, m \in ScalarInputs :
           \/ /\ scalar' = sc_muladd(scalar, DigitsOf(n), DigitsOf(m))
              /\ scalarIs' = (TimesModOrder(scalarIs, n) + m) % Order
           \/ /\ scalar' = sc_muladd(DigitsOf(n), DigitsOf(m), scalar)
              /\ scalarIs' = (TimesModOrder(n % Order, m) + scalarIs) % Order
    BY <1>8, Zenon DEF ScalarNext
  <2> QED BY <1>5, <1>6, <2>1, Zenon
<1> QED BY <1>7, <1>8

(* Such scalars are what ScalarsRight asks for. *)
LEMMA ScalarInvRight ==
  ASSUME RoomForFolds, ScalarIInv
  PROVE  ScalarsRight
<1>1. /\ scalar \in Rows /\ scalar[11] \in 0..ScalarRadix
      /\ \A p \in Places : /\ p < 11 => scalar[p] \in 0..(ScalarRadix - 1)
                           /\ p >= 12 => scalar[p] = 0
      /\ Worth(scalar) = scalarIs
  BY Zenon DEF ScalarIInv, RightRow
<1>2. /\ \A i \in 0..10 : i \in Places /\ i < 11
      /\ \A i \in 12..23 : i \in Places /\ i >= 12
      /\ 12 \in 0..24
  BY DEF Places
<1>3. Worth(scalar) = Lowest(scalar)[12]
  <2>1. \A p \in Places : p >= 12 => scalar[p] = 0
    BY <1>1, Zenon
  <2> QED BY <1>1, <1>2, <2>1, ZerosAbove, SMT
<1>4. (CHOOSE u : UptoOf(scalar, u))[11] = scalarIs
  BY <1>1, <1>3, UptoIsLowest, Zenon
<1>5. /\ \A i \in 0..10 : scalar[i] \in 0..(ScalarRadix - 1)
      /\ \A i \in 12..23 : scalar[i] = 0
  BY <1>1, <1>2, Zenon
<1> QED BY <1>1, <1>4, <1>5, Zenon DEF ScalarsRight, UptoOf

(* A scalar is the number that it is meant to be, below the order, and its
   digits are the only ones that it can be written in (sc_reduce and sc_muladd
   of sc.c), for every radix wide enough for the six digits of the order. *)
THEOREM ScalarsAreRight ==
  RoomForFolds => (ScalarSpec => []ScalarsRight)
<1> SUFFICES ASSUME RoomForFolds PROVE ScalarSpec => []ScalarsRight
  OBVIOUS
<1>1. ScalarInit => ScalarIInv
  BY ScalarInitRight
<1>2. ScalarIInv /\ [ScalarNext]_scalarVars => ScalarIInv'
  BY ScalarStepRight
<1>3. ScalarIInv => ScalarsRight
  BY ScalarInvRight
<1> QED BY <1>1, <1>2, <1>3, PTL DEF ScalarSpec

(* The arithmetic of scalars among the foundations behaves as by itself. *)
THEOREM ScalarsRunAsByThemselves == Spec => ScalarSpec
<1>1. Init => ScalarInit
  BY DEF Init
<1>2. [Next]_foundationVars => [ScalarNext]_scalarVars
  BY DEF Next, foundationVars, scalarVars
<1> QED BY <1>1, <1>2, PTL DEF Spec, ScalarSpec

\* The literals of sc.c.
ScalarLiterals ==
  /\ ScalarRadix = 2097152
  /\ Excess = <<666643, 470296, 654183, -997805, 136657, -683901>>

(* The literals of fe.c and of sc.c leave the room that the theorems ask for. *)
LEMMA CodeHasRoom ==
  (CodeLiterals => RoomForCarries) /\ (ScalarLiterals => RoomForFolds)
<1>1. CodeLiterals => RoomForCarries
  BY FieldHasRoom
<1>2. ASSUME ScalarLiterals
      PROVE  RoomForFolds
  <2>1. ScalarRadix % 2 = 0 /\ ScalarRadix >= 1048576
    BY <1>2, SMT DEF ScalarLiterals
  <2>2. /\ Excess[1] = 666643 /\ Excess[2] = 470296 /\ Excess[3] = 654183
        /\ Excess[4] = -997805 /\ Excess[5] = 136657 /\ Excess[6] = -683901
    BY <1>2, SMT DEF ScalarLiterals
  <2>3. \A k \in 1..6 : k = 1 \/ k = 2 \/ k = 3 \/ k = 4 \/ k = 5 \/ k = 6
    OBVIOUS
  <2>4. ScalarRadix = 2097152
    BY <1>2, SMT DEF ScalarLiterals
  <2>5. \A k \in 1..6 : NotBeyond(2 * Excess[k], ScalarRadix)
    BY <2>2, <2>3, <2>4, SMT DEF NotBeyond
  <2>6. Excess[6] < 0
    BY <2>2, SMT
  <2> QED BY <2>1, <2>5, <2>6, SMT DEF RoomForFolds
<1> QED BY <1>1, <1>2, SMT

(* After any calls that fe.c and sc.c allow, elements of the field are written
   in their one way, scalars are the numbers that they are meant to be, and
   the chains of powers reach their exponents. *)
THEOREM NumbersAreRight ==
  RoomForCarries /\ RoomForFolds => (Spec => []NumbersRight)
<1> SUFFICES ASSUME RoomForCarries, RoomForFolds PROVE Spec => []NumbersRight
  OBVIOUS
<1>1. Spec => []ElementsRight
  BY FieldRunsAsByItself, ElementsAreWrittenRight
<1>2. Spec => []ScalarsRight
  BY ScalarsRunAsByThemselves, ScalarsAreRight
<1>3. PowersRight /\ ElementsRight /\ ScalarsRight => NumbersRight
  BY Zenon DEF NumbersRight
<1>4. PowersRight
  BY ChainsReachTheirExponents
<1>5. ElementsRight /\ ScalarsRight => NumbersRight
  BY <1>3, <1>4
<1> QED BY <1>1, <1>2, <1>5, PTL

(* The same with the literals of the code. *)
COROLLARY NumbersOfTheCode ==
  CodeLiterals /\ ScalarLiterals => (Spec => []NumbersRight)
<1>1. CodeLiterals /\ ScalarLiterals => RoomForCarries /\ RoomForFolds
  BY CodeHasRoom
<1> QED BY <1>1, NumbersAreRight

=============================================================================
