------------------------- MODULE ContactStoreProofs -------------------------
(***************************************************************************)
(* Proofs about ContactStore, for every set of keys, size of the table,    *)
(* period of the counter and number of changes and failing saves: no       *)
(* handler changes a contact without a save to come, and CMD_REBOOT keeps  *)
(* every contact that is to be kept.                                       *)
(*                                                                         *)
(* What a save writes is defined by recursion over the table.  A statement *)
(* about every table is proved by way of the least length at which it      *)
(* would fail: LeastOf.                                                    *)
(***************************************************************************)
EXTENDS ContactStore, SequenceTheorems, WellFoundedInduction, TLAPS

-----------------------------------------------------------------------------
\* What a save writes.

(* One turn of the loop of saveContacts. *)
Turn(s, f, n) ==
  IF n = 0 THEN <<>>
  ELSE IF s[n].transient THEN f[n - 1]
  ELSE Append(f[n - 1], s[n])

(* f is the records written after each of the first m turns. *)
Turns(s, m, f) == f = [n \in 0..m |-> Turn(s, f, n)]

Written(s) == CHOOSE f : Turns(s, Len(s), f)

(* A set of numbers that is not empty has a least one. *)
LEMMA LeastOf ==
  ASSUME NEW T, T \subseteq Nat, T # {}
  PROVE  \E x \in T : \A y \in T : x <= y
<1>1. \E x \in T : \A y \in T : ~(<<y, x>> \in OpToRel(<, Nat))
  BY NatLessThanWellFounded, WFMin
<1>2. PICK x \in T : \A y \in T : ~(<<y, x>> \in OpToRel(<, Nat))
  BY <1>1
<1>3. \A y \in T : ~(y < x)
  BY <1>2 DEF OpToRel
<1> QED BY <1>3

(* The loop has a run of any number of turns. *)
LEMMA TurnsExist ==
  ASSUME NEW s, NEW m \in Nat
  PROVE  \E f : Turns(s, m, f)
<1> DEFINE T == {n \in Nat : ~ \E f : Turns(s, n, f)}
<1> SUFFICES ASSUME T # {} PROVE FALSE
  OBVIOUS
<1>1. PICK n \in T : \A k \in T : n <= k
  <2> HIDE DEF T
  <2> QED BY LeastOf DEF T
<1>2. CASE n = 0
  <2>1. Turns(s, 0, [i \in 0..0 |-> <<>>])
    BY DEF Turns, Turn
  <2> QED BY <2>1, <1>2
<1>3. CASE n # 0
  <2>1. n - 1 \in Nat /\ n - 1 \notin T
    BY <1>3, <1>1
  <2>2. PICK f : Turns(s, n - 1, f)
    BY <2>1
  <2> DEFINE g == [i \in 0..n |-> Turn(s, f, i)]
  <2>3. \A i \in 0..(n - 1) : f[i] = g[i]
    <3>1. f = [i \in 0..(n - 1) |-> Turn(s, f, i)]
      BY <2>2 DEF Turns
    <3>2. \A i \in 0..(n - 1) : f[i] = Turn(s, f, i)
      BY <3>1, Zenon
    <3> QED BY <3>2, <2>1
  <2>4. \A i \in 0..n : Turn(s, f, i) = Turn(s, g, i)
    <3>1. \A i \in 0..n : i # 0 => i - 1 \in 0..(n - 1)
      BY <2>1
    <3> HIDE DEF g
    <3> QED BY <3>1, <2>3 DEF Turn
  <2>5. Turns(s, n, g)
    BY <2>4, Zenon DEF Turns
  <2> QED BY <2>5
<1> QED BY <1>2, <1>3

(* What a save writes is what its last turn leaves. *)
LEMMA SavedIsLastTurn ==
  ASSUME NEW s, Len(s) \in Nat
  PROVE  /\ Saved(s) = Written(s)[Len(s)]
         /\ \A n \in 0..Len(s) : Written(s)[n] = Turn(s, Written(s), n)
<1>1. Saved(s) = Written(s)[Len(s)]
  BY DEF Saved, Written, Turns, Turn
<1>2. Turns(s, Len(s), Written(s))
  BY TurnsExist, Zenon DEF Written
<1>3. Written(s) = [n \in 0..Len(s) |-> Turn(s, Written(s), n)]
  BY <1>2, Zenon DEF Turns
<1>4. \A n \in 0..Len(s) : Written(s)[n] = Turn(s, Written(s), n)
  BY <1>3, Zenon
<1> QED BY <1>1, <1>4

(* Of an empty table nothing is written. *)
LEMMA SavedEmpty == Saved(<<>>) = <<>>
<1>1. Len(<<>>) = 0
  OBVIOUS
<1> QED BY <1>1, SavedIsLastTurn DEF Turn

(* A contact added at the end is written last, unless it is transient. *)
LEMMA SavedAppend ==
  ASSUME NEW s \in Seq(Contact), NEW c \in Contact
  PROVE  Saved(Append(s, c)) = IF c.transient THEN Saved(s)
                               ELSE Append(Saved(s), c)
<1> DEFINE t == Append(s, c)
           m == Len(s)
<1>1. /\ m \in Nat /\ Len(t) = m + 1
      /\ \A i \in 1..m : t[i] = s[i]
      /\ t[m + 1] = c
  BY AppendProperties, LenProperties
<1> DEFINE F == Written(s)
           G == Written(t)
<1>2. /\ Saved(s) = F[m]
      /\ \A n \in 0..m : F[n] = Turn(s, F, n)
      /\ Saved(t) = G[m + 1]
      /\ \A n \in 0..(m + 1) : G[n] = Turn(t, G, n)
  <2>1. Len(s) \in Nat /\ Len(t) \in Nat
    BY <1>1
  <2>2. Saved(s) = F[m] /\ \A n \in 0..m : F[n] = Turn(s, F, n)
    BY <2>1, SavedIsLastTurn, Zenon
  <2>3. Saved(t) = G[Len(t)] /\ \A n \in 0..Len(t) : G[n] = Turn(t, G, n)
    BY <2>1, SavedIsLastTurn, Zenon
  <2> HIDE DEF t, F, G, m
  <2> QED BY <1>1, <2>2, <2>3
<1> HIDE DEF t, m, F, G
<1>3. \A n \in 0..m : F[n] = G[n]
  <2> DEFINE T == {n \in 0..m : F[n] # G[n]}
  <2> SUFFICES ASSUME T # {} PROVE FALSE
    OBVIOUS
  <2>1. T \subseteq Nat
    BY <1>1
  <2>2. PICK n \in T : \A k \in T : n <= k
    <3> HIDE DEF T
    <3> QED BY <2>1, LeastOf
  <2>3. n \in 0..m /\ F[n] # G[n]
    BY <2>2
  <2>4. F[n] = Turn(s, F, n) /\ G[n] = Turn(t, G, n)
    BY <1>1, <1>2, <2>3
  <2>5. n # 0
    BY <2>3, <2>4 DEF Turn
  <2>6. n - 1 \in 0..m /\ n - 1 \notin T
    BY <1>1, <2>2, <2>3, <2>5
  <2>7. F[n - 1] = G[n - 1] /\ s[n] = t[n]
    BY <1>1, <2>3, <2>5, <2>6
  <2> QED BY <2>3, <2>4, <2>7 DEF Turn
<1>4. G[m + 1] = Turn(t, G, m + 1)
  BY <1>1, <1>2
<1>5. m + 1 # 0 /\ (m + 1) - 1 = m /\ m \in 0..m
  BY <1>1
<1>6. G[m + 1] = IF c.transient THEN F[m] ELSE Append(F[m], c)
  BY <1>1, <1>3, <1>4, <1>5 DEF Turn
<1> QED BY <1>2, <1>6 DEF t

(* Induction over sequences of contacts. *)
LEMMA ContactsByAppending ==
  ASSUME NEW T, T \subseteq Seq(Contact), <<>> \in T,
         \A s \in T, c \in Contact : Append(s, c) \in T
  PROVE  Seq(Contact) \subseteq T
<1> DEFINE lengths == {n \in Nat : \E s \in Seq(Contact) \ T : Len(s) = n}
<1> SUFFICES ASSUME ~(Seq(Contact) \subseteq T) PROVE FALSE
  OBVIOUS
<1>1. lengths # {}
  <2>1. PICK s : s \in Seq(Contact) \ T
    OBVIOUS
  <2>2. Len(s) \in Nat
    BY <2>1, LenProperties
  <2> QED BY <2>1, <2>2
<1>2. PICK n \in lengths : \A k \in lengths : n <= k
  <2> HIDE DEF lengths
  <2> QED BY <1>1, LeastOf DEF lengths
<1>3. PICK s \in Seq(Contact) \ T : Len(s) = n
  BY <1>2
<1>4. PICK r \in Seq(Contact), c \in Contact : s = Append(r, c)
  BY <1>3, SequenceEmptyOrAppend
<1>5. Len(r) \in Nat /\ Len(r) = n - 1
  BY <1>3, <1>4, AppendProperties, LenProperties
<1>6. Len(r) \notin lengths
  BY <1>2, <1>5
<1>7. r \in T
  BY <1>4, <1>5, <1>6
<1> QED BY <1>3, <1>4, <1>7

NoTransient(s) == \A i \in DOMAIN s : ~s[i].transient

(* What is written of a table: contacts of it, none that is transient, none
   twice; and of a table without transient contacts, that table. *)
WellSaved(s) ==
  /\ Saved(s) \in Seq(Contact)
  /\ Len(Saved(s)) <= Len(s)
  /\ KeysOf(Saved(s)) \subseteq KeysOf(s)
  /\ NoTransient(Saved(s))
  /\ OneEntryPerKey(s) => OneEntryPerKey(Saved(s))
  /\ NoTransient(s) => Saved(s) = s

(* A contact added at the end leaves what is written well. *)
LEMMA WellSavedAppend ==
  ASSUME NEW s \in Seq(Contact), NEW c \in Contact, WellSaved(s)
  PROVE  WellSaved(Append(s, c))
<1> DEFINE t == Append(s, c)
           S == Saved(s)
<1>1. /\ t \in Seq(Contact) /\ DOMAIN t = 1..(Len(s) + 1)
      /\ Len(t) = Len(s) + 1 /\ Len(s) \in Nat
      /\ \A i \in 1..Len(s) : t[i] = s[i]
      /\ t[Len(s) + 1] = c
      /\ DOMAIN s = 1..Len(s)
  BY AppendProperties, LenProperties
<1>2. /\ S \in Seq(Contact) /\ Len(S) \in Nat /\ Len(S) <= Len(s)
      /\ DOMAIN S = 1..Len(S)
      /\ \A i \in DOMAIN S : \E j \in DOMAIN s : S[i].key = s[j].key
  BY LenProperties DEF WellSaved, KeysOf
<1>3. Saved(t) = IF c.transient THEN S ELSE Append(S, c)
  BY SavedAppend
<1>4. OneEntryPerKey(t) => OneEntryPerKey(s)
  BY <1>1 DEF OneEntryPerKey
<1>5. NoTransient(t) => NoTransient(s) /\ ~c.transient
  BY <1>1 DEF NoTransient
<1> SUFFICES WellSaved(t)
  OBVIOUS
<1> HIDE DEF t
<1>6. CASE c.transient
  <2>1. Saved(t) = S
    BY <1>3, <1>6
  <2>2. KeysOf(s) \subseteq KeysOf(t)
    BY <1>1 DEF KeysOf
  <2>3. KeysOf(S) \subseteq KeysOf(s) /\ NoTransient(S)
    BY DEF WellSaved
  <2>4. OneEntryPerKey(t) => OneEntryPerKey(S)
    BY <1>4 DEF WellSaved
  <2>5. Len(S) <= Len(t)
    BY <1>1, <1>2
  <2> HIDE DEF S
  <2> QED BY <1>2, <1>5, <1>6, <2>1, <2>2, <2>3, <2>4, <2>5 DEF WellSaved
<1>7. CASE ~c.transient
  <2> DEFINE U == Append(S, c)
  <2>1. /\ U \in Seq(Contact) /\ DOMAIN U = 1..(Len(S) + 1)
        /\ Len(U) = Len(S) + 1
        /\ \A i \in 1..Len(S) : U[i] = S[i]
        /\ U[Len(S) + 1] = c
    BY <1>2, AppendProperties, LenProperties
  <2>2. Saved(t) = U
    BY <1>3, <1>7
  <2> HIDE DEF U, S
  <2>3. KeysOf(U) \subseteq KeysOf(t)
    <3> SUFFICES ASSUME NEW i \in DOMAIN U
                 PROVE  \E j \in DOMAIN t : U[i].key = t[j].key
      BY DEF KeysOf
    <3>1. CASE i \in 1..Len(S)
      <4>1. PICK j \in DOMAIN s : S[i].key = s[j].key
        BY <1>2, <3>1
      <4> QED BY <1>1, <2>1, <3>1, <4>1
    <3>2. CASE i = Len(S) + 1
      BY <1>1, <2>1, <3>2
    <3> QED BY <1>2, <2>1, <3>1, <3>2
  <2>4. NoTransient(U)
    <3>1. NoTransient(S)
      BY DEF WellSaved, S
    <3> QED BY <1>2, <1>7, <2>1, <3>1 DEF NoTransient
  <2>5. ASSUME OneEntryPerKey(t) PROVE OneEntryPerKey(U)
    <3>1. OneEntryPerKey(S)
      BY <1>4, <2>5 DEF WellSaved, S
    <3>2. \A i \in 1..Len(S) : U[i].key # c.key
      <4> SUFFICES ASSUME NEW i \in 1..Len(S), S[i].key = c.key PROVE FALSE
        BY <2>1
      <4>1. PICK j \in DOMAIN s : S[i].key = s[j].key
        BY <1>2
      <4>2. /\ j \in DOMAIN t /\ Len(s) + 1 \in DOMAIN t /\ j # Len(s) + 1
            /\ t[j].key = t[Len(s) + 1].key
        BY <1>1, <4>1
      <4> QED BY <2>5, <4>2 DEF OneEntryPerKey
    <3> SUFFICES ASSUME NEW i \in DOMAIN U, NEW j \in DOMAIN U,
                        U[i].key = U[j].key
                 PROVE  i = j
      BY DEF OneEntryPerKey
    <3>3. CASE i \in 1..Len(S) /\ j \in 1..Len(S)
      BY <1>2, <2>1, <3>1, <3>3 DEF OneEntryPerKey
    <3>4. CASE i = Len(S) + 1 \/ j = Len(S) + 1
      BY <1>2, <2>1, <3>2, <3>4
    <3> QED BY <1>2, <2>1, <3>3, <3>4
  <2>6. NoTransient(t) => U = t
    BY <1>5 DEF WellSaved, U, S, t
  <2>7. Len(U) <= Len(t)
    BY <1>1, <1>2, <2>1
  <2> QED BY <2>1, <2>2, <2>3, <2>4, <2>5, <2>6, <2>7 DEF WellSaved
<1> QED BY <1>6, <1>7

(* So it is of every table. *)
LEMMA SavedWell ==
  ASSUME NEW s \in Seq(Contact)
  PROVE  WellSaved(s)
<1> DEFINE T == {r \in Seq(Contact) : WellSaved(r)}
<1>1. <<>> \in T
  <2>1. <<>> \in Seq(Contact) /\ Len(<<>>) = 0 /\ DOMAIN <<>> = {}
    BY EmptySeq
  <2>2. NoTransient(<<>>) /\ OneEntryPerKey(<<>>)
    BY <2>1 DEF NoTransient, OneEntryPerKey
  <2>3. Len(<<>>) <= Len(<<>>)
    BY <2>1
  <2>4. WellSaved(<<>>)
    BY <2>1, <2>2, <2>3, SavedEmpty, Zenon DEF WellSaved
  <2> QED BY <2>1, <2>4
<1>2. ASSUME NEW r \in T, NEW c \in Contact PROVE Append(r, c) \in T
  BY WellSavedAppend, AppendProperties
<1> HIDE DEF T
<1>3. Seq(Contact) \subseteq T
  <2>1. T \subseteq Seq(Contact)
    BY DEF T
  <2> QED BY <1>1, <1>2, <2>1, ContactsByAppending
<1> QED BY <1>3 DEF T

-----------------------------------------------------------------------------
\* Tables that the handlers make.

Table(s) == s \in Seq(Contact) /\ Len(s) <= MAX_CONTACTS /\ OneEntryPerKey(s)

(* The parts of the inductive invariant: types; no transient contact is on
   flash, where a restart would take it for a saved one; and no change is
   left without a save to come. *)
StoreIInv == TypeOK /\ NoTransient(file) /\ UnsavedIsArmed

(* A key that is in the table has an entry there. *)
LEMMA Found ==
  ASSUME TypeOK, NEW key \in KeysOf(contacts)
  PROVE  /\ IndexOf(key) \in DOMAIN contacts
         /\ contacts[IndexOf(key)].key = key
         /\ contacts[IndexOf(key)] \in Contact
         /\ key \in Keys
<1>1. \E i \in DOMAIN contacts : contacts[i].key = key
  BY DEF KeysOf
<1>2. /\ IndexOf(key) \in DOMAIN contacts
      /\ contacts[IndexOf(key)].key = key
  BY <1>1 DEF IndexOf
<1>3. contacts[IndexOf(key)] \in Contact
  BY <1>2, ElementOfSeq, LenProperties DEF TypeOK
<1> QED BY <1>2, <1>3 DEF Contact

(* The contact of a new change. *)
LEMMA NewContact ==
  ASSUME TypeOK, changes < MaxChanges, NEW key \in Keys, NEW b \in BOOLEAN
  PROVE  New(key, b) \in Contact /\ New(key, b).key = key
                                 /\ New(key, b).transient = b
  BY ContactStoreAssumption DEF New, Contact, TypeOK

(* An update leaves a table: its entry has the key it had. *)
LEMMA UpdatedTable ==
  ASSUME TypeOK, changes < MaxChanges,
         NEW key \in KeysOf(contacts), NEW b \in BOOLEAN
  PROVE  Table(Updated(key, b))
<1> DEFINE i == IndexOf(key)
           c == New(key, b)
           t == [contacts EXCEPT ![i] = c]
<1>1. i \in 1..Len(contacts) /\ contacts[i].key = key /\ key \in Keys
  BY Found, LenProperties DEF TypeOK
<1>2. c \in Contact /\ c.key = key
  BY <1>1, NewContact
<1> HIDE DEF c, i
<1>3. /\ t \in Seq(Contact) /\ Len(t) = Len(contacts)
      /\ \A j \in 1..Len(contacts) : t[j] = IF j = i THEN c ELSE contacts[j]
      /\ DOMAIN t = 1..Len(contacts) /\ DOMAIN contacts = 1..Len(contacts)
  BY <1>1, <1>2, ExceptSeq, LenProperties DEF TypeOK
<1>4. \A j \in DOMAIN t : t[j].key = contacts[j].key
  BY <1>1, <1>2, <1>3
<1>5. OneEntryPerKey(t)
  BY <1>3, <1>4 DEF OneEntryPerKey, TypeOK
<1>6. Len(t) <= MAX_CONTACTS
  BY <1>3 DEF TypeOK
<1> QED BY <1>3, <1>5, <1>6 DEF Table, Updated, i, c

(* A contact at the end makes a table if there was room and the key is new. *)
LEMMA AppendedTable ==
  ASSUME TypeOK, Len(contacts) < MAX_CONTACTS,
         NEW c \in Contact, c.key \notin KeysOf(contacts)
  PROVE  Table(Append(contacts, c))
<1> DEFINE t == Append(contacts, c)
           m == Len(contacts)
<1>1. /\ m \in Nat /\ t \in Seq(Contact) /\ Len(t) = m + 1
      /\ DOMAIN t = 1..(m + 1) /\ DOMAIN contacts = 1..m
      /\ \A i \in 1..m : t[i] = contacts[i]
      /\ t[m + 1] = c
  BY AppendProperties, LenProperties DEF TypeOK
<1>2. \A i \in 1..m : t[i].key # c.key
  BY <1>1 DEF KeysOf
<1>3. Len(t) <= MAX_CONTACTS
  BY <1>1, ContactStoreAssumption
<1> HIDE DEF t, m
<1>4. OneEntryPerKey(t)
  <2> SUFFICES ASSUME NEW i \in DOMAIN t, NEW j \in DOMAIN t,
                      t[i].key = t[j].key
               PROVE  i = j
    BY DEF OneEntryPerKey
  <2>1. CASE i \in 1..m /\ j \in 1..m
    BY <1>1, <2>1 DEF OneEntryPerKey, TypeOK
  <2>2. CASE i = m + 1 \/ j = m + 1
    BY <1>1, <1>2, <2>2
  <2> QED BY <1>1, <2>1, <2>2
<1> QED BY <1>1, <1>3, <1>4 DEF Table, t

(* So does one that takes another's place. *)
LEMMA OverwrittenTable ==
  ASSUME TypeOK, NEW i \in DOMAIN contacts,
         NEW c \in Contact, c.key \notin KeysOf(contacts)
  PROVE  Table([contacts EXCEPT ![i] = c])
<1> DEFINE t == [contacts EXCEPT ![i] = c]
           m == Len(contacts)
<1>1. i \in 1..m /\ DOMAIN contacts = 1..m
  BY LenProperties DEF TypeOK
<1>2. /\ t \in Seq(Contact) /\ Len(t) = m /\ DOMAIN t = 1..m
      /\ \A j \in 1..m : t[j] = IF j = i THEN c ELSE contacts[j]
  BY <1>1, ExceptSeq, LenProperties DEF TypeOK
<1>3. \A j \in 1..m : contacts[j].key # c.key
  BY <1>1 DEF KeysOf
<1>4. Len(t) <= MAX_CONTACTS
  BY <1>2 DEF TypeOK
<1> HIDE DEF t, m
<1>5. OneEntryPerKey(t)
  <2> SUFFICES ASSUME NEW j \in DOMAIN t, NEW k \in DOMAIN t,
                      t[j].key = t[k].key
               PROVE  j = k
    BY DEF OneEntryPerKey
  <2>1. CASE j = i \/ k = i
    BY <1>2, <1>3, <2>1
  <2>2. CASE j # i /\ k # i
    BY <1>1, <1>2, <2>2 DEF OneEntryPerKey, TypeOK
  <2> QED BY <2>1, <2>2
<1> QED BY <1>2, <1>4, <1>5 DEF Table, t

(* A contact that is added, at the end or over another one, leaves a table. *)
LEMMA AddedTable ==
  ASSUME TypeOK, NEW c \in Contact, c.key \notin KeysOf(contacts),
         NEW t \in WithAdded(c)
  PROVE  Table(t)
  BY AppendedTable, OverwrittenTable DEF WithAdded

(* The first entries of a table are a table. *)
LEMMA PartOfTable ==
  ASSUME NEW s, Table(s), NEW n \in 0..Len(s)
  PROVE  /\ Table(SubSeq(s, 1, n))
         /\ NoTransient(s) => NoTransient(SubSeq(s, 1, n))
<1> DEFINE t == SubSeq(s, 1, n)
<1>1. /\ s \in Seq(Contact) /\ Len(s) \in Nat /\ DOMAIN s = 1..Len(s)
      /\ Len(s) <= MAX_CONTACTS /\ MAX_CONTACTS \in Nat
  BY LenProperties, ContactStoreAssumption DEF Table
<1>2. n \in Nat /\ \A i \in 1..n : s[i] \in Contact
  BY <1>1, ElementOfSeq
<1>3. /\ t \in Seq(Contact)
      /\ Len(t) = IF 1 <= n THEN n - 1 + 1 ELSE 0
      /\ \A i \in 1..(n - 1 + 1) : t[i] = s[1 + i - 1]
  BY <1>2, SubSeqProperties
<1>4. DOMAIN t = 1..Len(t)
  BY <1>3, LenProperties
<1> HIDE DEF t
<1>5. Len(t) = n /\ DOMAIN t = 1..n /\ \A i \in 1..n : t[i] = s[i]
  BY <1>2, <1>3, <1>4
<1>6. OneEntryPerKey(t)
  BY <1>1, <1>5 DEF OneEntryPerKey, Table
<1>7. NoTransient(s) => NoTransient(t)
  BY <1>1, <1>5 DEF NoTransient
<1> QED BY <1>1, <1>3, <1>5, <1>6, <1>7 DEF Table, t

(* A table without one of its entries is a table: the entries before it stay
   and those after it move down. *)
LEMMA RemovedTable ==
  ASSUME TypeOK, NEW i \in DOMAIN contacts
  PROVE  Table(RemoveAt(contacts, i))
<1> DEFINE m == Len(contacts)
           a == SubSeq(contacts, 1, i - 1)
           b == SubSeq(contacts, i + 1, m)
           t == a \o b
<1>1. /\ contacts \in Seq(Contact) /\ m \in Nat /\ m <= MAX_CONTACTS
      /\ DOMAIN contacts = 1..m /\ i \in 1..m /\ MAX_CONTACTS \in Nat
  BY LenProperties, ContactStoreAssumption DEF TypeOK
<1>2. \A j \in 1..m : contacts[j] \in Contact
  BY <1>1, ElementOfSeq
<1>3. /\ a \in Seq(Contact) /\ Len(a) = i - 1
      /\ \A j \in 1..(i - 1) : a[j] = contacts[j]
  <2>1. /\ a \in Seq(Contact)
        /\ Len(a) = IF 1 <= i - 1 THEN (i - 1) - 1 + 1 ELSE 0
        /\ \A j \in 1..((i - 1) - 1 + 1) : a[j] = contacts[1 + j - 1]
    <3>1. i - 1 \in Int /\ \A j \in 1..(i - 1) : contacts[j] \in Contact
      BY <1>1, <1>2
    <3> HIDE DEF m
    <3> QED BY <3>1, SubSeqProperties
  <2> HIDE DEF a
  <2> QED BY <1>1, <2>1
<1>4. /\ b \in Seq(Contact) /\ Len(b) = m - i
      /\ \A j \in 1..(m - i) : b[j] = contacts[i + j]
  <2>1. /\ b \in Seq(Contact)
        /\ Len(b) = IF i + 1 <= m THEN m - (i + 1) + 1 ELSE 0
        /\ \A j \in 1..(m - (i + 1) + 1) : b[j] = contacts[(i + 1) + j - 1]
    <3>1. i + 1 \in Int /\ m \in Int
          /\ \A j \in (i + 1)..m : contacts[j] \in Contact
      BY <1>1, <1>2
    <3> HIDE DEF m
    <3> QED BY <3>1, SubSeqProperties
  <2> HIDE DEF b, m
  <2>2. Len(b) = m - i
    BY <1>1, <2>1
  <2>3. ASSUME NEW j \in 1..(m - i) PROVE b[j] = contacts[i + j]
    <3>1. j \in 1..(m - (i + 1) + 1) /\ (i + 1) + j - 1 = i + j
      BY <1>1
    <3>2. b[j] = contacts[(i + 1) + j - 1]
      BY <2>1, <3>1
    <3> QED BY <3>1, <3>2
  <2> QED BY <2>1, <2>2, <2>3
<1>5. /\ t \in Seq(Contact) /\ Len(t) = Len(a) + Len(b)
      /\ \A j \in 1..(Len(a) + Len(b)) :
           t[j] = IF j <= Len(a) THEN a[j] ELSE b[j - Len(a)]
      /\ DOMAIN t = 1..Len(t)
  BY <1>3, <1>4, ConcatProperties, LenProperties
<1> HIDE DEF a, b, t, m
<1>6. /\ Len(t) = m - 1 /\ DOMAIN t = 1..(m - 1)
      /\ \A j \in 1..(m - 1) : t[j] = contacts[IF j < i THEN j ELSE j + 1]
  <2>1. Len(t) = m - 1 /\ Len(a) + Len(b) = m - 1
    BY <1>1, <1>3, <1>4, <1>5
  <2>2. ASSUME NEW j \in 1..(m - 1)
        PROVE  t[j] = contacts[IF j < i THEN j ELSE j + 1]
    <3>1. t[j] = IF j <= Len(a) THEN a[j] ELSE b[j - Len(a)]
      BY <1>5, <2>1
    <3>2. CASE j < i
      BY <1>1, <1>3, <3>1, <3>2
    <3>3. CASE ~(j < i)
      <4>1. /\ j - Len(a) = j - (i - 1) /\ ~(j <= Len(a))
            /\ j - (i - 1) \in 1..(m - i)
            /\ i + (j - (i - 1)) = j + 1
        BY <1>1, <1>3, <3>3
      <4>2. b[j - (i - 1)] = contacts[i + (j - (i - 1))]
        BY <1>4, <4>1
      <4> QED BY <3>1, <3>3, <4>1, <4>2
    <3> QED BY <3>2, <3>3
  <2> QED BY <1>5, <2>1, <2>2
<1>7. OneEntryPerKey(t)
  <2> SUFFICES ASSUME NEW j \in 1..(m - 1), NEW k \in 1..(m - 1),
                      t[j].key = t[k].key
               PROVE  j = k
    BY <1>6 DEF OneEntryPerKey
  <2> DEFINE jj == IF j < i THEN j ELSE j + 1
             kk == IF k < i THEN k ELSE k + 1
  <2>1. t[j] = contacts[jj] /\ t[k] = contacts[kk]
    BY <1>6
  <2>2. jj \in 1..m /\ kk \in 1..m /\ (jj = kk => j = k)
    BY <1>1
  <2> HIDE DEF jj, kk
  <2>3. jj = kk
    BY <1>1, <2>1, <2>2 DEF OneEntryPerKey, TypeOK
  <2> QED BY <2>2, <2>3
<1>8. RemoveAt(contacts, i) = t
  BY DEF RemoveAt, t, a, b, m
<1>9. Len(t) <= MAX_CONTACTS
  BY <1>1, <1>6
<1> QED BY <1>5, <1>7, <1>8, <1>9 DEF Table

-----------------------------------------------------------------------------
\* The steps the handlers are built from.

(* What a change and the arming of a save come to. *)
LEMMA ChangeArmed ==
  ASSUME StoreIInv, NEW t, Table(t), Change(t), Arm
  PROVE  StoreIInv'
<1>1. futureMillis(LAZY_CONTACTS_WRITE_DELAY) \in 0..(ClockPeriod - 1)
  <2>1. millis + LAZY_CONTACTS_WRITE_DELAY \in Nat /\ ClockPeriod \in Nat \ {0}
    BY ContactStoreAssumption DEF StoreIInv, TypeOK
  <2> QED BY <2>1 DEF futureMillis
<1>2. TypeOK'
  BY <1>1, ContactStoreAssumption
  DEF StoreIInv, TypeOK, Table, Change, Arm
<1>3. NoTransient(file)' /\ UnsavedIsArmed'
  BY DEF StoreIInv, UnsavedIsArmed, Change, Arm, NoTransient
<1> QED BY <1>2, <1>3 DEF StoreIInv

(* A transient contact changes nothing that a save would write. *)
LEMMA StrangerAdded ==
  ASSUME StoreIInv, NEW key \in Keys, CmdSendAnonReq(key)
  PROVE  StoreIInv'
<1> DEFINE c == New(key, TRUE)
<1>1. /\ c \in Contact /\ c.key = key /\ c.transient
      /\ contacts' = Append(contacts, c)
      /\ contacts \in Seq(Contact)
  BY NewContact DEF StoreIInv, CmdSendAnonReq, Change, TypeOK
<1> HIDE DEF c
<1>2. Table(contacts')
  BY <1>1, AppendedTable DEF StoreIInv, CmdSendAnonReq
<1>3. Saved(contacts') = Saved(contacts)
  BY <1>1, SavedAppend
<1>4. TypeOK'
  <2>1. /\ UNCHANGED <<file, millis, faults, dirty_contacts_expiry, missed>>
        /\ changes < MaxChanges /\ changes' = changes + 1
    BY DEF CmdSendAnonReq, Change
  <2> QED BY <1>2, <2>1, ContactStoreAssumption DEF StoreIInv, TypeOK, Table
<1>5. NoTransient(file)' /\ UnsavedIsArmed'
  BY <1>3 DEF StoreIInv, UnsavedIsArmed, CmdSendAnonReq, Change, NoTransient
<1> QED BY <1>4, <1>5 DEF StoreIInv

(* The part of a file that power or a full flash leaves. *)
LEMMA PartOfSave ==
  ASSUME TypeOK, NEW f \in PartsOf(Saved(contacts))
  PROVE  Table(f) /\ NoTransient(f)
<1>1. Table(Saved(contacts)) /\ NoTransient(Saved(contacts))
  <2>1. WellSaved(contacts)
    BY SavedWell DEF TypeOK
  <2>2. Len(Saved(contacts)) \in Nat /\ Len(contacts) \in Nat
    BY <2>1, LenProperties DEF WellSaved, TypeOK
  <2> QED BY <2>1, <2>2, ContactStoreAssumption
          DEF WellSaved, Table, TypeOK
<1>2. PICK n \in 0..Len(Saved(contacts)) : f = SubSeq(Saved(contacts), 1, n)
  BY DEF PartsOf
<1> QED BY <1>1, <1>2, PartOfTable

(* A save writes the table without its transient contacts, or counts as
   missed; either way what the file then holds may be loaded. *)
LEMMA SaveStep ==
  ASSUME StoreIInv, saveContacts
  PROVE  /\ Table(file') /\ NoTransient(file')
         /\ missed' \in BOOLEAN /\ faults' \in 0..MaxFaults
         /\ missed' \/ file' = Saved(contacts)
<1>1. CASE file' = Saved(contacts) /\ missed' = FALSE /\ UNCHANGED faults
  <2>1. WellSaved(contacts)
    BY SavedWell DEF StoreIInv, TypeOK
  <2>2. Len(Saved(contacts)) \in Nat /\ Len(contacts) \in Nat
    BY <2>1, LenProperties DEF WellSaved, StoreIInv, TypeOK
  <2>3. Table(Saved(contacts)) /\ NoTransient(Saved(contacts))
    BY <2>1, <2>2, ContactStoreAssumption
    DEF WellSaved, Table, StoreIInv, TypeOK
  <2> QED BY <1>1, <2>3 DEF StoreIInv, TypeOK
<1>2. CASE /\ faults < MaxFaults /\ faults' = faults + 1
           /\ file' \in PartsOf(Saved(contacts)) \union {file}
           /\ missed' = TRUE
  <2>1. Table(file) /\ NoTransient(file)
    BY DEF StoreIInv, TypeOK, Table
  <2>2. Table(file') /\ NoTransient(file')
    BY <1>2, <2>1, PartOfSave DEF StoreIInv
  <2> QED BY <1>2, <2>2, ContactStoreAssumption DEF StoreIInv, TypeOK
<1> QED BY <1>1, <1>2 DEF saveContacts

(* A restart loads the file as it is: it never holds more than fits. *)
LEMMA BeginStep ==
  ASSUME Table(file'), begin
  PROVE  contacts' = file' /\ dirty_contacts_expiry' = 0 /\ millis' = 0
         /\ changes' = changes
<1>1. file' \in Seq(Contact) /\ Len(file') \in Nat /\ Len(file') <= MAX_CONTACTS
  BY LenProperties DEF Table
<1>2. (IF Len(file') < MAX_CONTACTS THEN Len(file') ELSE MAX_CONTACTS) = Len(file')
  BY <1>1, ContactStoreAssumption
<1>3. SubSeq(file', 1, Len(file')) = file'
  BY <1>1, SubSeqFull
<1> QED BY <1>2, <1>3 DEF begin

(* What was loaded is what a save would write, so nothing is unsaved. *)
LEMMA Restarted ==
  ASSUME StoreIInv, Table(file'), NoTransient(file'), begin,
         missed' \in BOOLEAN, faults' \in 0..MaxFaults
  PROVE  StoreIInv'
<1>1. /\ contacts' = file' /\ dirty_contacts_expiry' = 0 /\ millis' = 0
      /\ changes' = changes
  BY BeginStep
<1>2. Saved(contacts') = file'
  BY <1>1, SavedWell DEF WellSaved, Table
<1>3. TypeOK'
  BY <1>1, ContactStoreAssumption DEF StoreIInv, TypeOK, Table
<1> QED BY <1>2, <1>3 DEF StoreIInv, UnsavedIsArmed, NoTransient

-----------------------------------------------------------------------------
\* The invariant.

(* A node starts with no contacts and an empty file. *)
LEMMA StoreInit == Init => StoreIInv
<1> SUFFICES ASSUME Init PROVE StoreIInv
  OBVIOUS
<1>1. <<>> \in Seq(Contact) /\ Len(<<>>) = 0 /\ DOMAIN <<>> = {}
  BY EmptySeq
<1>2. NoTransient(<<>>) /\ OneEntryPerKey(<<>>)
  BY <1>1 DEF NoTransient, OneEntryPerKey
<1>3. TypeOK
  <2>1. 0 \in 0..(ClockPeriod - 1) /\ Len(<<>>) <= MAX_CONTACTS
    BY <1>1, ContactStoreAssumption
  <2>2. 0 \in 0..MaxChanges /\ 0 \in 0..MaxFaults
    BY ContactStoreAssumption
  <2>3. FALSE \in BOOLEAN
    OBVIOUS
  <2> QED BY <1>1, <1>2, <2>1, <2>2, <2>3, Zenon DEF Init, TypeOK
<1> QED BY <1>2, <1>3, SavedEmpty DEF Init, StoreIInv, UnsavedIsArmed

(* A handler that changes a contact the table has. *)
LEMMA TouchStep ==
  ASSUME StoreIInv, NEW key \in Keys, Touch(key)
  PROVE  StoreIInv'
<1>1. contacts[IndexOf(key)].transient \in BOOLEAN
  BY Found DEF Touch, Contact, StoreIInv
<1>2. Table(Updated(key, contacts[IndexOf(key)].transient))
  BY <1>1, UpdatedTable DEF Touch, Change, StoreIInv
<1> QED BY <1>2, ChangeArmed DEF Touch

(* A handler that changes a contact or adds it. *)
LEMMA AddOrUpdateStep ==
  ASSUME StoreIInv, NEW key \in Keys, NEW b \in BOOLEAN,
         IF key \in KeysOf(contacts)
         THEN Change(Updated(key, b))
         ELSE \E added \in WithAdded(New(key, b)) : Change(added),
         Arm
  PROVE  StoreIInv'
<1>1. CASE key \in KeysOf(contacts)
  <2>1. Table(Updated(key, b))
    BY <1>1, UpdatedTable DEF Change, StoreIInv
  <2> QED BY <1>1, <2>1, ChangeArmed
<1>2. CASE key \notin KeysOf(contacts)
  <2>1. PICK t \in WithAdded(New(key, b)) : Change(t)
    BY <1>2
  <2>2. New(key, b) \in Contact /\ New(key, b).key \notin KeysOf(contacts)
    BY <1>2, <2>1, NewContact DEF StoreIInv, Change
  <2>3. Table(t)
    BY <2>2, AddedTable DEF StoreIInv
  <2> QED BY <2>1, <2>3, ChangeArmed
<1> QED BY <1>1, <1>2

(* Every handler that changes the table arms the save or keeps it armed. *)
LEMMA ChangesStep ==
  ASSUME StoreIInv, Changes
  PROVE  StoreIInv'
<1> PICK key \in Keys :
      \/ \E is_new \in BOOLEAN : onDiscoveredContact(key, is_new)
      \/ onContactPathUpdated(key)
      \/ onSignedMessageRecv(key)
      \/ CmdResetPath(key)
      \/ \E transient \in BOOLEAN : CmdAddUpdateContact(key, transient)
      \/ CmdRemoveContact(key)
      \/ CmdSendAnonReq(key)
  BY DEF Changes
<1>1. CASE \E is_new \in BOOLEAN : onDiscoveredContact(key, is_new)
  <2>1. CASE UNCHANGED storeVars
    BY <2>1 DEF storeVars, StoreIInv, TypeOK, UnsavedIsArmed, NoTransient
  <2>2. CASE ~UNCHANGED storeVars
    BY <1>1, <2>2, AddOrUpdateStep DEF onDiscoveredContact
  <2> QED BY <2>1, <2>2
<1>2. CASE onContactPathUpdated(key) \/ onSignedMessageRecv(key)
             \/ CmdResetPath(key)
  BY <1>2, TouchStep DEF onContactPathUpdated, onSignedMessageRecv, CmdResetPath
<1>3. CASE \E transient \in BOOLEAN : CmdAddUpdateContact(key, transient)
  BY <1>3, AddOrUpdateStep DEF CmdAddUpdateContact
<1>4. CASE CmdRemoveContact(key)
  <2>1. Table(RemoveAt(contacts, IndexOf(key)))
    BY <1>4, Found, RemovedTable DEF CmdRemoveContact, StoreIInv
  <2> QED BY <1>4, <2>1, ChangeArmed DEF CmdRemoveContact
<1>5. CASE CmdSendAnonReq(key)
  BY <1>5, StrangerAdded
<1> QED BY <1>1, <1>2, <1>3, <1>4, <1>5

(* The clock changes nothing that the invariant is about but itself. *)
LEMMA TickStep ==
  ASSUME StoreIInv, Tick
  PROVE  StoreIInv'
<1>1. millis' \in 0..(ClockPeriod - 1)
  BY ContactStoreAssumption DEF StoreIInv, TypeOK, Tick
<1> QED BY <1>1 DEF StoreIInv, TypeOK, UnsavedIsArmed, NoTransient, Tick

(* The save of loop() brings the file up to the table. *)
LEMMA LoopSaveStep ==
  ASSUME StoreIInv, LoopSave
  PROVE  StoreIInv'
<1>1. /\ Table(file') /\ NoTransient(file')
      /\ missed' \in BOOLEAN /\ faults' \in 0..MaxFaults
      /\ missed' \/ file' = Saved(contacts)
  BY SaveStep DEF LoopSave
<1>2. TypeOK'
  BY <1>1, ContactStoreAssumption DEF StoreIInv, TypeOK, Table, LoopSave
<1> QED BY <1>1, <1>2 DEF StoreIInv, UnsavedIsArmed, NoTransient, LoopSave

(* A commanded reboot saves what is armed, and the table is read back. *)
LEMMA RebootStep ==
  ASSUME StoreIInv, CmdReboot
  PROVE  StoreIInv'
<1>1. CASE dirty_contacts_expiry # 0
  BY <1>1, SaveStep, Restarted DEF CmdReboot
<1>2. CASE dirty_contacts_expiry = 0
  <2>1. /\ Table(file') /\ NoTransient(file')
        /\ missed' \in BOOLEAN /\ faults' \in 0..MaxFaults
    BY <1>2 DEF CmdReboot, StoreIInv, TypeOK, Table, NoTransient
  <2> QED BY <2>1, Restarted DEF CmdReboot
<1> QED BY <1>1, <1>2

(* Power fails at any point, a save begun included. *)
LEMMA PowerLossStep ==
  ASSUME StoreIInv, PowerLoss
  PROVE  StoreIInv'
<1>1. missed' \in BOOLEAN /\ faults' \in 0..MaxFaults
  BY DEF PowerLoss, StoreIInv, TypeOK
<1>2. Table(file') /\ NoTransient(file')
  <2>1. CASE UNCHANGED file
    BY <2>1 DEF StoreIInv, TypeOK, Table, NoTransient
  <2>2. CASE file' \in PartsOf(Saved(contacts))
    BY <2>2, PartOfSave DEF StoreIInv
  <2> QED BY <2>1, <2>2 DEF PowerLoss
<1> QED BY <1>1, <1>2, Restarted DEF PowerLoss

(* Every step keeps the invariant. *)
LEMMA StoreStep ==
  ASSUME StoreIInv, [Next]_storeVars
  PROVE  StoreIInv'
<1>1. CASE UNCHANGED storeVars
  BY <1>1 DEF storeVars, StoreIInv, TypeOK, UnsavedIsArmed, NoTransient
<1> QED
  BY <1>1, ChangesStep, TickStep, LoopSaveStep, RebootStep, PowerLossStep
  DEF Next

-----------------------------------------------------------------------------
\* The theorems.

(* The inductive invariant. *)
THEOREM StoreInvariant == Spec => []StoreIInv
<1>1. StoreIInv /\ [Next]_storeVars => StoreIInv'
  BY StoreStep
<1> QED BY StoreInit, <1>1, PTL DEF Spec

(* The table and "/contacts3" hold contacts, each once and no more than fit,
   whichever saves fail and whenever power does (addContact, removeContact,
   saveContacts, loadContacts). *)
THEOREM StoreTypeCorrect == Spec => []TypeOK
<1>1. StoreIInv => TypeOK
  BY DEF StoreIInv
<1> QED BY StoreInvariant, <1>1, PTL

(* No handler changes what is to be saved and leaves no save to come. *)
THEOREM NoChangeLeftUnsaved == Spec => []UnsavedIsArmed
<1>1. StoreIInv => UnsavedIsArmed
  BY DEF StoreIInv
<1> QED BY StoreInvariant, <1>1, PTL

(* CMD_REBOOT brings back every contact that is to be kept: when a save is
   armed because it is made then, and when none is because the file agrees
   with the table. *)
THEOREM RebootLosesNothing == Spec => RebootKeepsContacts
<1>1. StoreIInv /\ [Next]_storeVars =>
        [CmdReboot /\ faults' = faults /\ ~missed =>
           contacts' = Saved(contacts)]_storeVars
  <2> SUFFICES ASSUME StoreIInv, CmdReboot, faults' = faults, ~missed
               PROVE  contacts' = Saved(contacts)
    OBVIOUS
  <2>1. CASE dirty_contacts_expiry # 0
    <3>1. saveContacts
      BY <2>1 DEF CmdReboot
    <3>2. file' = Saved(contacts)
      BY <3>1 DEF saveContacts, StoreIInv, TypeOK
    <3>3. Table(file')
      BY <3>1, SaveStep
    <3> QED BY <3>2, <3>3, BeginStep DEF CmdReboot
  <2>2. CASE dirty_contacts_expiry = 0
    <3>1. file' = file /\ file = Saved(contacts)
      BY <2>2 DEF CmdReboot, StoreIInv, UnsavedIsArmed
    <3>2. Table(file')
      BY <3>1 DEF StoreIInv, TypeOK, Table
    <3> QED BY <3>1, <3>2, BeginStep DEF CmdReboot
  <2> QED BY <2>1, <2>2
<1> QED BY StoreInvariant, <1>1, PTL DEF Spec, RebootKeepsContacts

=============================================================================
