------------------------- MODULE ExpectedAcksProofs -------------------------
(***************************************************************************)
(* Proofs about ExpectedAcks, for every size of the table, all contacts,   *)
(* hashes and clocks, and any number of sends.                             *)
(*                                                                         *)
(* The properties are about the past, the table is about the present.      *)
(* What links them: an armed entry stands for a message with its hash that *)
(* was sent and not yet confirmed (PaidFor), its time is the time of such  *)
(* a message (SentAt), and the newest messages have an entry each, found   *)
(* by counting back from next_ack_idx (Tracked).                           *)
(***************************************************************************)
EXTENDS ExpectedAcks, FiniteSetTheorems, SequenceTheorems, TLAPS

SentMessage == [ack : Acks, to : Contacts, at : Nat, confirmed : Nat]

AckTypes ==
  /\ expected_ack_table \in [Entries -> Entry]
  /\ next_ack_idx \in Entries
  /\ contacts \in Seq(Contacts) /\ Len(contacts) <= Cardinality(Contacts)
  /\ now \in Nat
  /\ sends \in Seq(SentMessage) /\ Len(sends) <= MaxSends
  /\ confirms \in [Acks -> Nat]

PaidFor ==
  \A a \in Acks :
    confirms[a] + Cardinality(Matching(a)) <= Cardinality(SendsOf(a))

SentAt ==
  /\ \A k \in DOMAIN sends : sends[k].at <= now
  /\ \A i \in Entries : expected_ack_table[i].ack # 0 =>
       \E k \in DOMAIN sends :
         /\ sends[k].ack = expected_ack_table[i].ack
         /\ expected_ack_table[i].msg_sent = sends[k].at % ClockPeriod

\* The entry of message k, counted back from next_ack_idx.
EntryOf(k) ==
  LET back == next_ack_idx + k - Len(sends) - 1
  IN  IF back >= 0 THEN back ELSE back + EXPECTED_ACK_TABLE_SIZE

Tracked ==
  /\ \A k \in DOMAIN sends : sends[k].confirmed <= confirms[sends[k].ack]
  /\ \A k \in Recent :
       \/ expected_ack_table[EntryOf(k)].ack = sends[k].ack
       \/ confirms[sends[k].ack] > sends[k].confirmed

AckIInv == AckTypes /\ PaidFor /\ SentAt /\ Tracked /\ TripTimeFromSend

-----------------------------------------------------------------------------
\* Numbers, sets and sequences.

(* The sizes are numbers, and what counts entries and messages is finite. *)
LEMMA Sizes ==
  /\ EXPECTED_ACK_TABLE_SIZE \in Nat /\ EXPECTED_ACK_TABLE_SIZE > 0
  /\ ClockPeriod \in Nat /\ ClockPeriod > 0 /\ MaxSends \in Nat
  /\ Cardinality(Contacts) \in Nat
  /\ Entries \subseteq Nat /\ IsFiniteSet(Entries)
<1>1. Cardinality(Contacts) \in Nat
  BY ExpectedAcksAssumption, FS_CardinalityType
<1>2. IsFiniteSet(0..(EXPECTED_ACK_TABLE_SIZE - 1))
  BY ExpectedAcksAssumption, FS_Interval
<1> QED BY <1>1, <1>2, ExpectedAcksAssumption DEF Entries

(* The entries of one hash can be counted. *)
LEMMA MatchingFinite ==
  ASSUME NEW a
  PROVE  IsFiniteSet(Matching(a)) /\ Cardinality(Matching(a)) \in Nat
<1>1. Matching(a) \subseteq Entries
  BY DEF Matching
<1> QED BY <1>1, Sizes, FS_Subset, FS_CardinalityType

(* The messages of one hash can be counted, and are no more than all. *)
LEMMA SendsFinite ==
  ASSUME AckTypes, NEW a
  PROVE  /\ IsFiniteSet(SendsOf(a))
         /\ Cardinality(SendsOf(a)) \in Nat
         /\ Cardinality(SendsOf(a)) <= Len(sends)
<1>1. DOMAIN sends = 1..Len(sends) /\ Len(sends) \in Nat
  BY DEF AckTypes
<1>2. IsFiniteSet(1..Len(sends)) /\ Cardinality(1..Len(sends)) = Len(sends)
  <2>1. \A n \in Nat : IsFiniteSet(1..n) /\ Cardinality(1..n) = n
    BY FS_Interval
  <2> QED BY <1>1, <2>1
<1>3. SendsOf(a) \subseteq 1..Len(sends)
  BY <1>1 DEF SendsOf
<1> QED BY <1>2, <1>3, FS_Subset, FS_CardinalityType

(* What is recorded of a message sent is of its kind. *)
LEMMA SentMessages ==
  ASSUME AckTypes
  PROVE  \A k \in DOMAIN sends :
           /\ sends[k].ack \in Acks
           /\ sends[k].at \in Nat /\ sends[k].confirmed \in Nat
<1>1. \A k \in DOMAIN sends : sends[k] \in SentMessage
  BY DEF AckTypes
<1> QED BY <1>1 DEF SentMessage

(* The counter reads a time within its period. *)
LEMMA ClockInPeriod ==
  ASSUME NEW t \in Nat
  PROVE  t % ClockPeriod \in 0..(ClockPeriod - 1)
  BY Sizes

(* The index steps to the next entry, from the last to the first. *)
LEMMA NextIndex ==
  ASSUME NEW i \in Entries
  PROVE  /\ (i + 1) % EXPECTED_ACK_TABLE_SIZE
              = IF i + 1 = EXPECTED_ACK_TABLE_SIZE THEN 0 ELSE i + 1
         /\ (i + 1) % EXPECTED_ACK_TABLE_SIZE \in Entries
  BY Sizes DEF Entries

(* Division with remainder, for any divisor. *)
LEMMA Division ==
  ASSUME NEW n \in Nat \ {0}, NEW x \in Int
  PROVE  /\ x \div n \in Int
         /\ x = n * (x \div n) + (x % n)
         /\ x % n \in 0..(n - 1)
  OBVIOUS

(* The remainder is the only number below the divisor that fits. *)
LEMMA Remainder ==
  ASSUME NEW n \in Nat \ {0}, NEW q \in Int, NEW r \in 0..(n - 1)
  PROVE  (n * q + r) % n = r
<1> DEFINE x == n * q + r
           d == q - (x \div n)
<1>1. x \in Int
  OBVIOUS
<1>2. /\ x \div n \in Int /\ x = n * (x \div n) + (x % n)
      /\ x % n \in 0..(n - 1)
  BY <1>1, Division
<1>3. d \in Int /\ n * d = (x % n) - r
  BY <1>2
<1> HIDE DEF x, d
<1>4. -n < n * d /\ n * d < n
  <2>1. \A m \in 0..(n - 1) : -n < m - r /\ m - r < n
    OBVIOUS
  <2> QED BY <1>2, <1>3, <2>1
<1>5. d = 0
  <2>1. d >= 1 => n * d >= n
    BY <1>3
  <2>2. d <= -1 => n * d <= -n
    BY <1>3
  <2> QED BY <1>3, <1>4, <2>1, <2>2
<1>6. x % n = r
  BY <1>2, <1>3, <1>5
<1> QED BY <1>6 DEF x

(* A whole number of periods does not change the remainder. *)
LEMMA Period ==
  ASSUME NEW n \in Nat \ {0}, NEW x \in Int, NEW y \in Int, NEW c \in Int,
         x = y + n * c
  PROVE  x % n = y % n
<1>1. /\ y \div n \in Int /\ y = n * (y \div n) + (y % n)
      /\ y % n \in 0..(n - 1)
  BY Division
<1>2. (y \div n) + c \in Int /\ x = n * ((y \div n) + c) + (y % n)
  BY <1>1
<1>3. (n * ((y \div n) + c) + (y % n)) % n = y % n
  BY <1>1, <1>2, Remainder
<1> QED BY <1>2, <1>3

(* The difference of two readings of the counter is the time between them,
   up to one period. *)
LEMMA TripTime ==
  ASSUME NEW s \in Nat, NEW t \in Nat, s <= t
  PROVE  ((t % ClockPeriod) + ClockPeriod - (s % ClockPeriod)) % ClockPeriod
           = (t - s) % ClockPeriod
<1> DEFINE P == ClockPeriod
           x == (t % P) + P - (s % P)
           y == t - s
<1>1. P \in Nat \ {0}
  BY Sizes
<1>2. /\ t = P * (t \div P) + (t % P) /\ t \div P \in Int
      /\ s = P * (s \div P) + (s % P) /\ s \div P \in Int
      /\ t % P \in Nat /\ s % P \in 0..(P - 1)
  BY <1>1, Division
<1> DEFINE c == 1 + (s \div P) - (t \div P)
<1>3. c \in Int /\ x \in Int /\ y \in Int
  BY <1>1, <1>2
<1>4. x = y + P * c
  BY <1>1, <1>2
<1> HIDE DEF c, x, y, P
<1>5. x % P = y % P
  BY <1>1, <1>3, <1>4, Period
<1> QED BY <1>5 DEF x, y, P

(* A contact that is looked up is in a slot of the array. *)
LEMMA LookUp ==
  ASSUME AckTypes, NEW key \in Contacts
  PROVE  /\ lookupContactByPubKey(key) \in 0..Cardinality(Contacts)
         /\ lookupContactByPubKey(key) # 0 =>
              lookupContactByPubKey(key) \in DOMAIN contacts
<1>1. DOMAIN contacts = 1..Len(contacts) /\ Len(contacts) \in Nat
  BY DEF AckTypes
<1>2. CASE Contains(contacts, key)
  <2>1. \E i \in DOMAIN contacts : contacts[i] = key
    BY <1>1, <1>2 DEF Contains
  <2>2. lookupContactByPubKey(key) \in DOMAIN contacts
    BY <1>2, <2>1 DEF lookupContactByPubKey
  <2> QED BY <1>1, <2>2, Sizes DEF AckTypes
<1>3. CASE ~Contains(contacts, key)
  BY <1>3, Sizes DEF lookupContactByPubKey, NULL
<1> QED BY <1>2, <1>3

(* Removing a contact makes the array shorter. *)
LEMMA Removed ==
  ASSUME AckTypes, NEW i \in DOMAIN contacts
  PROVE  /\ RemoveAt(contacts, i) \in Seq(Contacts)
         /\ Len(RemoveAt(contacts, i)) = Len(contacts) - 1
<1>1. DOMAIN contacts = 1..Len(contacts) /\ Len(contacts) \in Nat
      /\ \A j \in 1..Len(contacts) : contacts[j] \in Contacts
  BY DEF AckTypes
<1>2. /\ SubSeq(contacts, 1, i - 1) \in Seq(Contacts)
      /\ Len(SubSeq(contacts, 1, i - 1)) = i - 1
  <2>1. i - 1 \in Int /\ \A j \in 1..(i - 1) : contacts[j] \in Contacts
    BY <1>1
  <2>2. /\ SubSeq(contacts, 1, i - 1) \in Seq(Contacts)
        /\ Len(SubSeq(contacts, 1, i - 1))
             = IF 1 <= i - 1 THEN (i - 1) - 1 + 1 ELSE 0
    BY <2>1, SubSeqProperties
  <2> QED BY <1>1, <2>2
<1>3. /\ SubSeq(contacts, i + 1, Len(contacts)) \in Seq(Contacts)
      /\ Len(SubSeq(contacts, i + 1, Len(contacts))) = Len(contacts) - i
  <2>1. /\ i + 1 \in Int /\ Len(contacts) \in Int
        /\ \A j \in (i + 1)..Len(contacts) : contacts[j] \in Contacts
    BY <1>1
  <2>2. /\ SubSeq(contacts, i + 1, Len(contacts)) \in Seq(Contacts)
        /\ Len(SubSeq(contacts, i + 1, Len(contacts)))
             = IF i + 1 <= Len(contacts) THEN Len(contacts) - (i + 1) + 1 ELSE 0
    BY <2>1, SubSeqProperties
  <2> QED BY <1>1, <2>2
<1> QED BY <1>1, <1>2, <1>3, ConcatProperties DEF RemoveAt

-----------------------------------------------------------------------------
\* The inductive invariant.

(* It holds after boot: nothing was sent and every entry is clear. *)
LEMMA AckInit == Init => AckIInv
<1> SUFFICES ASSUME Init PROVE AckIInv
  OBVIOUS
<1>1. /\ sends = <<>> /\ DOMAIN sends = {} /\ Len(sends) = 0
      /\ \A i \in Entries : expected_ack_table[i].ack = 0
      /\ \A a \in Acks : confirms[a] = 0
      /\ now = 0
  BY DEF Init
<1>2. AckTypes
  <2>1. expected_ack_table \in [Entries -> Entry]
    BY Sizes DEF Init, Entry, NULL
  <2>2. next_ack_idx \in Entries
    BY Sizes DEF Init, Entries
  <2>3. contacts \in Seq(Contacts) /\ Len(contacts) <= Cardinality(Contacts)
    <3>1. contacts \in [1..Cardinality(Contacts) -> Contacts]
      BY DEF Init
    <3>2. contacts \in Seq(Contacts)
      BY <3>1, Sizes, SeqDef
    <3>3. Len(contacts) = Cardinality(Contacts)
      BY <3>1, <3>2, Sizes, LenProperties
    <3> QED BY <3>2, <3>3, Sizes
  <2>4. confirms \in [Acks -> Nat]
    BY DEF Init
  <2> QED BY <1>1, <2>1, <2>2, <2>3, <2>4, Sizes DEF AckTypes
<1>3. PaidFor
  <2> SUFFICES ASSUME NEW a \in Acks
               PROVE  confirms[a] + Cardinality(Matching(a))
                        <= Cardinality(SendsOf(a))
    BY DEF PaidFor
  <2>1. a # 0
    BY ExpectedAcksAssumption
  <2>2. Matching(a) = {} /\ SendsOf(a) = {}
    BY <1>1, <2>1 DEF Matching, SendsOf
  <2> QED BY <1>1, <2>2, FS_EmptySet
<1>4. SentAt /\ Tracked
  BY <1>1 DEF SentAt, Tracked, Recent
<1>5. TripTimeFromSend
  BY DEF Init, TripTimeFromSend
<1> QED BY <1>2, <1>3, <1>4, <1>5 DEF AckIInv

(* A message that is sent takes the next entry, whatever that held. *)
LEMMA SendAckIInv ==
  ASSUME AckIInv, NEW key \in Contacts, NEW a \in Acks, CmdSendTxtMsg(key, a)
  PROVE  AckIInv'
<1> DEFINE idx == next_ack_idx
           entry == [msg_sent |-> getMillis, ack |-> a,
                     contact |-> lookupContactByPubKey(key)]
           msg == [ack |-> a, to |-> key, at |-> now, confirmed |-> confirms[a]]
           last == Len(sends) + 1
<1> USE DEF AckIInv
<1>1. /\ expected_ack_table' = [expected_ack_table EXCEPT ![idx] = entry]
      /\ next_ack_idx' = (idx + 1) % EXPECTED_ACK_TABLE_SIZE
      /\ sends' = Append(sends, msg)
      /\ Len(sends) < MaxSends
      /\ UNCHANGED <<contacts, now, confirms, lastPush>>
  BY DEF CmdSendTxtMsg, RecordSend
<1>2. /\ entry \in Entry /\ entry.ack = a
      /\ entry.msg_sent = now % ClockPeriod
  BY ClockInPeriod, LookUp DEF AckTypes, Entry, getMillis
<1>3. msg \in SentMessage /\ msg.ack = a /\ msg.at = now
      /\ msg.confirmed = confirms[a]
  BY DEF SentMessage, AckTypes
<1> HIDE DEF entry, msg
<1>4. /\ idx \in Entries
      /\ expected_ack_table' \in [Entries -> Entry]
      /\ expected_ack_table'[idx] = entry
      /\ \A i \in Entries : i # idx =>
           expected_ack_table'[i] = expected_ack_table[i]
  BY <1>1, <1>2 DEF AckTypes
<1>5. /\ sends' \in Seq(SentMessage) /\ Len(sends') = last
      /\ DOMAIN sends = 1..Len(sends) /\ Len(sends) \in Nat
      /\ DOMAIN sends' = DOMAIN sends \union {last} /\ last \notin DOMAIN sends
      /\ sends'[last] = msg
      /\ \A k \in DOMAIN sends : sends'[k] = sends[k]
  BY <1>1, <1>3 DEF AckTypes
<1>6. AckTypes'
  BY <1>1, <1>4, <1>5, NextIndex, Sizes DEF AckTypes
<1>7. \A b \in Acks : SendsOf(b)' = IF b = a THEN SendsOf(b) \union {last}
                                  ELSE SendsOf(b)
  BY <1>3, <1>5 DEF SendsOf
<1>8. PaidFor'
  <2> SUFFICES ASSUME NEW b \in Acks
               PROVE  confirms[b] + Cardinality(Matching(b)')
                        <= Cardinality(SendsOf(b)')
    BY <1>1 DEF PaidFor
  <2>1. /\ confirms[b] \in Nat
        /\ confirms[b] + Cardinality(Matching(b)) <= Cardinality(SendsOf(b))
    BY DEF AckTypes, PaidFor
  <2>2. /\ IsFiniteSet(Matching(b)) /\ Cardinality(Matching(b)) \in Nat
        /\ IsFiniteSet(SendsOf(b)) /\ Cardinality(SendsOf(b)) \in Nat
    BY MatchingFinite, SendsFinite
  <2>3. CASE b = a
    <3>1. Matching(b)' = Matching(b) \union {idx}
      BY <1>2, <1>4, <2>3 DEF Matching
    <3>2. /\ Cardinality(Matching(b)') \in Nat
          /\ Cardinality(Matching(b)') <= Cardinality(Matching(b)) + 1
      <4>1. Cardinality(Matching(b) \union {idx})
              = IF idx \in Matching(b) THEN Cardinality(Matching(b))
                ELSE Cardinality(Matching(b)) + 1
        BY <2>2, FS_AddElement
      <4> HIDE DEF idx
      <4> QED BY <2>2, <3>1, <4>1
    <3>3. last \notin SendsOf(b)
      BY <1>5 DEF SendsOf
    <3>4. Cardinality(SendsOf(b)') = Cardinality(SendsOf(b)) + 1
      BY <1>7, <2>2, <2>3, <3>3, FS_AddElement
    <3> QED BY <2>1, <2>2, <3>2, <3>4
  <2>4. CASE b # a
    <3>1. Matching(b)' \subseteq Matching(b)
      BY <1>2, <1>4, <2>4 DEF Matching
    <3>2. /\ Cardinality(Matching(b)') \in Nat
          /\ Cardinality(Matching(b)') <= Cardinality(Matching(b))
      BY <2>2, <3>1, FS_Subset, FS_CardinalityType
    <3> QED BY <1>7, <2>1, <2>2, <2>4, <3>2
  <2> QED BY <2>3, <2>4
<1>9. SentAt'
  <2>1. \A k \in DOMAIN sends' : sends'[k].at <= now'
    BY <1>1, <1>3, <1>5 DEF SentAt, AckTypes
  <2>2. ASSUME NEW i \in Entries, expected_ack_table'[i].ack # 0
        PROVE  \E k \in DOMAIN sends' :
                 /\ sends'[k].ack = expected_ack_table'[i].ack
                 /\ expected_ack_table'[i].msg_sent = sends'[k].at % ClockPeriod
    <3>1. CASE i = idx
      BY <1>2, <1>3, <1>4, <1>5, <3>1
    <3>2. CASE i # idx
      <4>1. PICK k \in DOMAIN sends :
              /\ sends[k].ack = expected_ack_table[i].ack
              /\ expected_ack_table[i].msg_sent = sends[k].at % ClockPeriod
        BY <1>4, <2>2, <3>2 DEF SentAt
      <4> QED BY <1>4, <1>5, <3>2, <4>1
    <3> QED BY <3>1, <3>2
  <2> QED BY <2>1, <2>2 DEF SentAt
<1>10. Tracked'
  <2>1. \A k \in DOMAIN sends' :
          sends'[k].confirmed <= confirms'[sends'[k].ack]
    BY <1>1, <1>3, <1>5 DEF Tracked, AckTypes
  <2>2. ASSUME NEW k \in Recent'
        PROVE  \/ expected_ack_table'[EntryOf(k)'].ack = sends'[k].ack
               \/ confirms'[sends'[k].ack] > sends'[k].confirmed
    <3>1. k \in 1..last /\ k + EXPECTED_ACK_TABLE_SIZE > last
      BY <1>5 DEF Recent
    <3>2. next_ack_idx' = IF idx + 1 = EXPECTED_ACK_TABLE_SIZE THEN 0 ELSE idx + 1
      BY <1>1, <1>4, NextIndex
    <3>3. CASE k = last
      <4>1. EntryOf(k)' = idx
        BY <1>4, <1>5, <3>2, <3>3, Sizes DEF EntryOf, Entries
      <4> QED BY <1>2, <1>3, <1>4, <1>5, <3>3, <4>1
    <3>4. CASE k # last
      <4>1. k \in DOMAIN sends /\ k + EXPECTED_ACK_TABLE_SIZE > Len(sends)
        BY <1>5, <3>1, <3>4, Sizes
      <4>2. EntryOf(k)' = EntryOf(k) /\ EntryOf(k) \in Entries \ {idx}
        BY <1>4, <1>5, <3>1, <3>2, <3>4, Sizes DEF EntryOf, Entries
      <4>3. \/ expected_ack_table[EntryOf(k)].ack = sends[k].ack
            \/ confirms[sends[k].ack] > sends[k].confirmed
        BY <4>1 DEF Tracked, Recent
      <4> QED BY <1>1, <1>4, <1>5, <4>1, <4>2, <4>3
    <3> QED BY <3>3, <3>4
  <2> QED BY <2>1, <2>2 DEF Tracked
<1>11. TripTimeFromSend'
  <2>1. \A b : \A k \in SendsOf(b) : k \in SendsOf(b)' /\ sends'[k] = sends[k]
    BY <1>5 DEF SendsOf
  <2> QED BY <1>1, <2>1 DEF TripTimeFromSend
<1> QED BY <1>6, <1>8, <1>9, <1>10, <1>11

(* An acknowledgement disarms one entry for one more confirmation. *)
LEMMA ProcessAckIInv ==
  ASSUME AckIInv, NEW a \in Acks, processAck(a)
  PROVE  AckIInv'
<1> USE DEF AckIInv
<1>0. PICK i \in Matching(a) :
        /\ lastPush' =
             [ack |-> a,
              trip |-> (getMillis + ClockPeriod
                          - expected_ack_table[i].msg_sent) % ClockPeriod,
              returned |-> Pointee(i), at |-> now]
        /\ expected_ack_table' = [expected_ack_table EXCEPT ![i].ack = 0]
  BY DEF processAck, ClearEntry
<1>1. /\ confirms' = [confirms EXCEPT ![a] = @ + 1]
      /\ UNCHANGED <<next_ack_idx, contacts, now, sends>>
  BY DEF processAck
<1>2. /\ i \in Entries /\ expected_ack_table[i].ack = a /\ a # 0
      /\ expected_ack_table[i] \in Entry
  BY ExpectedAcksAssumption DEF Matching, AckTypes
<1>3. /\ expected_ack_table' \in [Entries -> Entry]
      /\ expected_ack_table'[i].ack = 0
      /\ \A j \in Entries : j # i =>
           expected_ack_table'[j] = expected_ack_table[j]
  BY <1>0, <1>2 DEF AckTypes, Entry
<1>4. /\ confirms' \in [Acks -> Nat]
      /\ confirms'[a] = confirms[a] + 1
      /\ \A b \in Acks : b # a => confirms'[b] = confirms[b]
      /\ \A b \in Acks : confirms[b] \in Nat /\ confirms[b] <= confirms'[b]
  BY <1>1 DEF AckTypes
<1>5. AckTypes'
  BY <1>1, <1>3, <1>4 DEF AckTypes
<1>6. \A b \in Acks : SendsOf(b)' = SendsOf(b)
  BY <1>1 DEF SendsOf
<1>7. PaidFor'
  <2> SUFFICES ASSUME NEW b \in Acks
               PROVE  confirms'[b] + Cardinality(Matching(b)')
                        <= Cardinality(SendsOf(b)')
    BY DEF PaidFor
  <2>1. /\ confirms[b] \in Nat
        /\ confirms[b] + Cardinality(Matching(b)) <= Cardinality(SendsOf(b))
    BY DEF AckTypes, PaidFor
  <2>2. /\ IsFiniteSet(Matching(b)) /\ Cardinality(Matching(b)) \in Nat
        /\ IsFiniteSet(SendsOf(b)) /\ Cardinality(SendsOf(b)) \in Nat
    BY MatchingFinite, SendsFinite
  <2>3. b # 0
    BY ExpectedAcksAssumption
  <2>4. CASE b = a
    <3>1. Matching(b)' = Matching(b) \ {i} /\ i \in Matching(b)
      BY <1>2, <1>3, <2>3, <2>4 DEF Matching
    <3>2. Cardinality(Matching(b) \ {i})
            = IF i \in Matching(b) THEN Cardinality(Matching(b)) - 1
              ELSE Cardinality(Matching(b))
      BY <2>2, FS_RemoveElement
    <3>3. Cardinality(Matching(b)') = Cardinality(Matching(b)) - 1
      BY <3>1, <3>2
    <3> QED BY <1>4, <1>6, <2>1, <2>2, <2>4, <3>3
  <2>5. CASE b # a
    <3>1. Matching(b)' = Matching(b)
      BY <1>2, <1>3, <2>3, <2>5 DEF Matching
    <3> QED BY <1>4, <1>6, <2>1, <2>5, <3>1
  <2> QED BY <2>4, <2>5
<1>8. SentAt'
  BY <1>1, <1>3 DEF SentAt
<1>9. Tracked'
  <2>1. \A k \in DOMAIN sends :
          sends[k].ack \in Acks /\ sends[k].confirmed \in Nat
    BY SentMessages
  <2>2. \A k \in DOMAIN sends : sends[k].confirmed <= confirms'[sends[k].ack]
    BY <1>4, <2>1 DEF Tracked
  <2>3. ASSUME NEW k \in Recent
        PROVE  \/ expected_ack_table'[EntryOf(k)].ack = sends[k].ack
               \/ confirms'[sends[k].ack] > sends[k].confirmed
    <3>1. k \in DOMAIN sends /\ EntryOf(k) \in Entries
      <4>1. /\ k \in DOMAIN sends /\ DOMAIN sends = 1..Len(sends)
            /\ k + EXPECTED_ACK_TABLE_SIZE > Len(sends)
        BY DEF Recent, AckTypes
      <4> QED BY <4>1, Sizes DEF EntryOf, Entries, AckTypes
    <3>2. CASE confirms[sends[k].ack] > sends[k].confirmed
      BY <1>4, <2>1, <3>1, <3>2
    <3>3. CASE expected_ack_table[EntryOf(k)].ack = sends[k].ack
      <4>1. CASE EntryOf(k) # i
        BY <1>3, <3>1, <3>3, <4>1
      <4>2. CASE EntryOf(k) = i
        <5>1. sends[k].ack = a
          BY <1>2, <3>3, <4>2
        <5>2. sends[k].confirmed <= confirms[a]
          BY <3>1, <5>1 DEF Tracked
        <5> QED BY <1>4, <2>1, <3>1, <5>1, <5>2
      <4> QED BY <4>1, <4>2
    <3> QED BY <3>2, <3>3 DEF Tracked
  <2>4. Recent' = Recent /\ \A k \in Recent : EntryOf(k)' = EntryOf(k)
    BY <1>1 DEF Recent, EntryOf
  <2> QED BY <1>1, <2>2, <2>3, <2>4 DEF Tracked
<1>10. TripTimeFromSend'
  <2>1. PICK k \in DOMAIN sends :
          /\ sends[k].ack = a
          /\ expected_ack_table[i].msg_sent = sends[k].at % ClockPeriod
    BY <1>2 DEF SentAt
  <2>2. sends[k].at \in Nat /\ now \in Nat /\ sends[k].at <= now
    BY SentMessages DEF AckTypes, SentAt
  <2>3. lastPush'.trip = ((now % ClockPeriod) + ClockPeriod
                            - (sends[k].at % ClockPeriod)) % ClockPeriod
    BY <1>0, <2>1 DEF getMillis
  <2>4. lastPush'.trip = (now - sends[k].at) % ClockPeriod
    BY <2>2, <2>3, TripTime
  <2>5. lastPush'.at = now /\ lastPush'.ack = a
    BY <1>0
  <2>6. k \in SendsOf(a)' /\ sends' = sends
    BY <1>1, <2>1 DEF SendsOf
  <2> QED BY <2>4, <2>5, <2>6 DEF TripTimeFromSend
<1> QED BY <1>5, <1>7, <1>8, <1>9, <1>10

(* Steps that leave table, messages and confirmations alone. *)
LEMMA OtherIInv ==
  ASSUME AckIInv,
         UNCHANGED <<expected_ack_table, next_ack_idx, sends, confirms, lastPush>>,
         contacts' \in Seq(Contacts), Len(contacts') <= Cardinality(Contacts),
         now' \in Nat, now <= now'
  PROVE  AckIInv'
<1>1. AckTypes'
  BY DEF AckIInv, AckTypes
<1>2. PaidFor'
  BY DEF AckIInv, PaidFor, Matching, SendsOf
<1>3. SentAt'
  <2>1. /\ now \in Nat /\ SentAt
        /\ \A k \in DOMAIN sends : sends[k].at \in Nat
    BY SentMessages DEF AckIInv, AckTypes
  <2>2. \A k \in DOMAIN sends : sends[k].at <= now'
    BY <2>1 DEF SentAt
  <2> QED BY <2>1, <2>2 DEF SentAt
<1>4. Tracked'
  BY DEF AckIInv, Tracked, Recent, EntryOf
<1>5. TripTimeFromSend'
  BY DEF AckIInv, TripTimeFromSend, SendsOf
<1> QED BY <1>1, <1>2, <1>3, <1>4, <1>5 DEF AckIInv

(* No step of commands, acknowledgements, contacts or clock breaks the
   invariant. *)
LEMMA AckNext == AckIInv /\ [Next]_ackVars => AckIInv'
<1> SUFFICES ASSUME AckIInv, [Next]_ackVars PROVE AckIInv'
  OBVIOUS
<1>1. ASSUME NEW key \in Contacts, NEW a \in Acks, CmdSendTxtMsg(key, a)
      PROVE  AckIInv'
  BY <1>1, SendAckIInv
<1>2. ASSUME NEW a \in Acks, processAck(a)
      PROVE  AckIInv'
  BY <1>2, ProcessAckIInv
<1>3. ASSUME NEW key \in Contacts, removeContact(key)
      PROVE  AckIInv'
  <2> DEFINE slot == lookupContactByPubKey(key)
  <2>1. AckTypes
    BY DEF AckIInv
  <2>2. slot \in DOMAIN contacts /\ contacts' = RemoveAt(contacts, slot)
    BY <1>3, <2>1, LookUp DEF removeContact, NULL
  <2>3. /\ contacts' \in Seq(Contacts)
        /\ Len(contacts') = Len(contacts) - 1
    <3> HIDE DEF slot
    <3> QED BY <2>1, <2>2, Removed
  <2>4. Len(contacts') <= Cardinality(Contacts)
    <3>1. Len(contacts) \in Nat /\ Len(contacts) <= Cardinality(Contacts)
      BY <2>1 DEF AckTypes
    <3> QED BY <2>3, <3>1, Sizes
  <2>5. now' \in Nat /\ now <= now'
    BY <1>3, <2>1 DEF removeContact, AckTypes
  <2> QED BY <1>3, <2>3, <2>4, <2>5, OtherIInv DEF removeContact
<1>4. CASE Tick
  <2>1. AckTypes
    BY DEF AckIInv
  <2> QED BY <1>4, <2>1, OtherIInv DEF Tick, AckTypes
<1>5. CASE UNCHANGED ackVars
  <2>1. AckTypes
    BY DEF AckIInv
  <2> QED BY <1>5, <2>1, OtherIInv DEF ackVars, AckTypes
<1> QED BY <1>1, <1>2, <1>3, <1>4, <1>5 DEF Next

-----------------------------------------------------------------------------

(* The link between the table and the past holds throughout. *)
THEOREM AckInvariant == Spec => []AckIInv
  BY AckInit, AckNext, PTL DEF Spec

(* For every size of the table, however often an acknowledgement is repeated,
   the app sees at most one SEND_CONFIRMED for each message (processAck). *)
THEOREM ConfirmedAtMostOnce == Spec => []ConfirmedOncePerSend
<1>1. AckIInv => ConfirmedOncePerSend
  <2> SUFFICES ASSUME AckIInv, NEW a \in Acks
               PROVE  confirms[a] <= Cardinality(SendsOf(a))
    BY DEF ConfirmedOncePerSend
  <2>1. /\ confirms[a] \in Nat
        /\ confirms[a] + Cardinality(Matching(a)) <= Cardinality(SendsOf(a))
        /\ AckTypes
    BY DEF AckIInv, AckTypes, PaidFor
  <2> QED BY <2>1, MatchingFinite, SendsFinite
<1> QED BY <1>1, AckInvariant, PTL

(* The index stays inside the table and its entries are well formed. *)
THEOREM AckTypeCorrect == Spec => []TypeOK
<1>1. AckIInv /\ ConfirmedOncePerSend => TypeOK
  <2> SUFFICES ASSUME AckIInv, ConfirmedOncePerSend PROVE TypeOK
    OBVIOUS
  <2>1. AckTypes
    BY DEF AckIInv
  <2>2. ToSet(contacts) \subseteq Contacts
    BY <2>1 DEF AckTypes, ToSet
  <2>3. \A a \in Acks : confirms[a] \in 0..MaxSends
    <3> SUFFICES ASSUME NEW a \in Acks PROVE confirms[a] \in 0..MaxSends
      OBVIOUS
    <3>1. confirms[a] \in Nat /\ confirms[a] <= Cardinality(SendsOf(a))
      BY <2>1 DEF AckTypes, ConfirmedOncePerSend
    <3>2. /\ Cardinality(SendsOf(a)) \in Nat
          /\ Cardinality(SendsOf(a)) <= Len(sends)
      BY <2>1, SendsFinite
    <3>3. Len(sends) \in Nat /\ Len(sends) <= MaxSends
      BY <2>1 DEF AckTypes
    <3> QED BY <3>1, <3>2, <3>3, Sizes
  <2>4. confirms \in [Acks -> 0..MaxSends]
    BY <2>1, <2>3 DEF AckTypes
  <2> QED BY <2>1, <2>2, <2>4 DEF AckTypes, TypeOK
<1> QED BY <1>1, AckInvariant, ConfirmedAtMostOnce, PTL

(* The newest EXPECTED_ACK_TABLE_SIZE messages can still be confirmed, or have
   been: the wrap of next_ack_idx never overwrites a younger entry. *)
THEOREM RecentSendsStayTracked == Spec => []RecentSendsTracked
<1>1. AckIInv => RecentSendsTracked
  <2> SUFFICES ASSUME AckIInv, NEW k \in Recent
               PROVE  \/ sends[k].ack \in
                             {expected_ack_table[i].ack : i \in Entries}
                      \/ confirms[sends[k].ack] > sends[k].confirmed
    BY DEF RecentSendsTracked
  <2>1. /\ k \in DOMAIN sends /\ DOMAIN sends = 1..Len(sends)
        /\ k + EXPECTED_ACK_TABLE_SIZE > Len(sends)
        /\ next_ack_idx \in Entries /\ Len(sends) \in Nat
    BY DEF AckIInv, Recent, AckTypes
  <2>2. EntryOf(k) \in Entries
    BY <2>1, Sizes DEF EntryOf, Entries
  <2> QED BY <2>2 DEF AckIInv, Tracked
<1> QED BY <1>1, AckInvariant, PTL

(* The trip time reported is the time since a message with that hash was
   sent, for every period of the counter and also when it has wrapped. *)
THEOREM TripTimeCorrect == Spec => []TripTimeFromSend
<1>1. AckIInv => TripTimeFromSend
  BY DEF AckIInv
<1> QED BY <1>1, AckInvariant, PTL

=============================================================================
