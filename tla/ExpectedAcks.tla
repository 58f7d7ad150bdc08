---------------------------- MODULE ExpectedAcks ----------------------------
(***************************************************************************)
(* The circular table of acknowledgements MyMesh waits for                 *)
(* (src/MyMesh.cpp: the CMD_SEND_TXT_MSG branch of handleCmdFrame and      *)
(* processAck; expected_ack_table and next_ack_idx of src/MyMesh.h).  An   *)
(* entry holds the time of sending, the hash the acknowledgement will      *)
(* carry, and a pointer into the contact array.                            *)
(*                                                                         *)
(* The hash is a function of the text, its time and the attempt, so a      *)
(* repeated send may expect the same hash again: the inputs choose it.     *)
(* The mesh may deliver any acknowledgement, early, late or repeatedly.    *)
(* The contact array belongs to BaseChatMesh, outside the repository; it   *)
(* is dense (src/DataStore.cpp:425 stops saving at the first free index),  *)
(* so removing a contact moves the later ones down.                        *)
(***************************************************************************)
EXTENDS Naturals, FiniteSets, Sequences, SequencesExt

CONSTANTS
  EXPECTED_ACK_TABLE_SIZE,  \* entries of the table
  Acks,                     \* the hashes messages expect; never 0
  Contacts,                 \* public keys of the contacts
  ClockPeriod,              \* the millisecond counter wraps here (2^32)
  MaxSends,                 \* bound: messages sent in one behaviour
  MaxTime                   \* bound: clock ticks in one behaviour

ASSUME ExpectedAcksAssumption ==
  /\ EXPECTED_ACK_TABLE_SIZE \in Nat \ {0}
  /\ Acks \subseteq Nat \ {0} /\ IsFiniteSet(Contacts)
  /\ ClockPeriod \in Nat \ {0}
  /\ MaxSends \in Nat /\ MaxTime \in Nat

VARIABLES
  expected_ack_table,  \* [Entries -> Entry]
  next_ack_idx,        \* where the next entry goes
  contacts,            \* the contact array; slot 1 is its first element
  now,                 \* time since start; the counter reads now % ClockPeriod
  sends,               \* history: the messages sent that expect an ack
  confirms,            \* history: how often each hash was confirmed
  lastPush             \* history: the last SEND_CONFIRMED and what it meant

ackVars == <<expected_ack_table, next_ack_idx, contacts, now, sends, confirms,
             lastPush>>

Entries == 0..(EXPECTED_ACK_TABLE_SIZE - 1)
NULL    == 0

\* A cleared entry keeps its time and its pointer.
Entry == [msg_sent : 0..(ClockPeriod - 1), ack : Acks \union {0},
          contact : 0..Cardinality(Contacts)]

NoPush == [ack |-> 0, trip |-> 0, returned |-> "none", at |-> 0]

getMillis == now % ClockPeriod

\* lookupContactByPubKey: the slot of the contact, NULL if there is none.
lookupContactByPubKey(key) ==
  IF Contains(contacts, key)
  THEN CHOOSE i \in DOMAIN contacts : contacts[i] = key
  ELSE NULL

-----------------------------------------------------------------------------

Init ==
  /\ expected_ack_table =
       [i \in Entries |-> [msg_sent |-> 0, ack |-> 0, contact |-> NULL]]
  /\ next_ack_idx = 0
  /\ contacts \in {s \in [1..Cardinality(Contacts) -> Contacts] :
                     ToSet(s) = Contacts}
  /\ now = 0
  /\ sends = <<>>
  /\ confirms = [a \in Acks |-> 0]
  /\ lastPush = NoPush

\* Variant: the index is stepped first, and the entry it leaves is reused.
RecordSendTwice(recipient, expected_ack) ==
  /\ expected_ack_table' = [expected_ack_table EXCEPT
       ![next_ack_idx] = [msg_sent |-> getMillis, ack |-> expected_ack,
                          contact |-> recipient],
       ![(next_ack_idx + 1) % EXPECTED_ACK_TABLE_SIZE].ack = 0]
  /\ next_ack_idx' = (next_ack_idx + 1) % EXPECTED_ACK_TABLE_SIZE

\* Variant: the time of sending is not recorded.
RecordSendUntimed(recipient, expected_ack) ==
  /\ expected_ack_table' = [expected_ack_table EXCEPT
       ![next_ack_idx] = [@ EXCEPT !.ack = expected_ack,
                                   !.contact = recipient]]
  /\ next_ack_idx' = (next_ack_idx + 1) % EXPECTED_ACK_TABLE_SIZE

\* Variant: the index runs past the last entry.
RecordSendUnwrapped(recipient, expected_ack) ==
  /\ expected_ack_table' = [expected_ack_table EXCEPT
       ![next_ack_idx] = [msg_sent |-> getMillis, ack |-> expected_ack,
                          contact |-> recipient]]
  /\ next_ack_idx' = next_ack_idx + 1

RecordSend(recipient, expected_ack) ==
  /\ expected_ack_table' = [expected_ack_table EXCEPT
       ![next_ack_idx] = [msg_sent |-> getMillis, ack |-> expected_ack,
                          contact |-> recipient]]
  /\ next_ack_idx' = (next_ack_idx + 1) % EXPECTED_ACK_TABLE_SIZE

\* CMD_SEND_TXT_MSG to a known contact.  A send that fails (the packet pool
\* is empty) and a CLI message (no ack expected) leave the table alone; they
\* change nothing here.
CmdSendTxtMsg(key, expected_ack) ==
  /\ Len(sends) < MaxSends
  /\ lookupContactByPubKey(key) # NULL
  /\ RecordSend(lookupContactByPubKey(key), expected_ack)
  /\ sends' = Append(sends, [ack |-> expected_ack, to |-> key, at |-> now,
                             confirmed |-> confirms[expected_ack]])
  /\ UNCHANGED <<contacts, now, confirms, lastPush>>

\* What the caller of processAck finds behind the pointer of an entry: the
\* array element, which may have moved, or been vacated, since.
Pointee(i) ==
  IF expected_ack_table[i].contact \in DOMAIN contacts
  THEN contacts[expected_ack_table[i].contact]
  ELSE "none"

\* Variant: the entry stays armed.
ClearEntryNever(i) == UNCHANGED expected_ack_table

ClearEntry(i) ==
  expected_ack_table' = [expected_ack_table EXCEPT ![i].ack = 0]

Matching(data) == {i \in Entries : expected_ack_table[i].ack = data}

\* An acknowledgement in the table: the first entry that matches is confirmed
\* to the app.  One that is not goes on to checkConnectionsAck (external).
processAck(data) ==
  /\ \E i \in Matching(data) :
       /\ \A j \in Matching(data) : i <= j
       /\ lastPush' =
            [ack |-> data,
             trip |-> (getMillis + ClockPeriod
                         - expected_ack_table[i].msg_sent) % ClockPeriod,
             returned |-> Pointee(i), at |-> now]
       /\ ClearEntry(i)
  /\ confirms' = [confirms EXCEPT ![data] = @ + 1]
  /\ UNCHANGED <<next_ack_idx, contacts, now, sends>>

\* CMD_REMOVE_CONTACT as far as the array is concerned.
removeContact(key) ==
  /\ lookupContactByPubKey(key) # NULL
  /\ contacts' = RemoveAt(contacts, lookupContactByPubKey(key))
  /\ UNCHANGED <<expected_ack_table, next_ack_idx, now, sends, confirms,
                 lastPush>>

Tick ==
  /\ now < MaxTime
  /\ now' = now + 1
  /\ UNCHANGED <<expected_ack_table, next_ack_idx, contacts, sends, confirms,
                 lastPush>>

Next ==
  \/ \E key \in Contacts, a \in Acks : CmdSendTxtMsg(key, a)
  \/ \E a \in Acks : processAck(a)
  \/ \E key \in Contacts : removeContact(key)
  \/ Tick

Spec == Init /\ [][Next]_ackVars

-----------------------------------------------------------------------------
\* Properties.

(* The index stays inside the table, and an entry holds a time the counter
   can read, a hash some message expects and a slot of the contact array; no
   hash is confirmed more often than messages are sent. *)
TypeOK ==
  /\ expected_ack_table \in [Entries -> Entry]
  /\ next_ack_idx \in Entries
  /\ ToSet(contacts) \subseteq Contacts
  /\ confirms \in [Acks -> 0..MaxSends]

SendsOf(a) == {k \in DOMAIN sends : sends[k].ack = a}

\* The messages the table has room for.
Recent == {k \in DOMAIN sends : k + EXPECTED_ACK_TABLE_SIZE > Len(sends)}

(* However often the mesh repeats an acknowledgement (the code notes that it
   does), the app sees at most one SEND_CONFIRMED for each message sent. *)
ConfirmedOncePerSend ==
  \A a \in Acks : confirms[a] <= Cardinality(SendsOf(a))

(* The newest EXPECTED_ACK_TABLE_SIZE messages can always still be confirmed,
   or have been: neither the wrap of the index nor an acknowledgement for an
   equal hash makes the node forget one of them. *)
RecentSendsTracked ==
  \A k \in Recent :
    \/ sends[k].ack \in {expected_ack_table[i].ack : i \in Entries}
    \/ confirms[sends[k].ack] > sends[k].confirmed

(* The trip time reported is the time since a message with that hash was
   sent, also when the millisecond counter wrapped in between; it is exact up
   to one period of the counter. *)
TripTimeFromSend ==
  lastPush # NoPush =>
    \E k \in SendsOf(lastPush.ack) :
      (lastPush.at - sends[k].at) % ClockPeriod = lastPush.trip

(* "@return Matching contact, or nullptr when unmatched" (src/MyMesh.cpp:586):
   the contact processAck returns is one that message was sent to. *)
ReturnsMatchingContact ==
  lastPush # NoPush =>
    \E k \in SendsOf(lastPush.ack) : lastPush.returned = sends[k].to

=============================================================================
