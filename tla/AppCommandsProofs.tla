-------------------------- MODULE AppCommandsProofs --------------------------
(***************************************************************************)
(* Proofs about the parts behind the app's commands, each by itself and    *)
(* for every value of its constants: the contact listing, the table of     *)
(* adverts heard, the signing session, and what is sent; and that in       *)
(* MCAppCommands, whose behaviours exercise one of them, every part runs   *)
(* as by itself, so that what is proved of a part holds there.             *)
(***************************************************************************)
EXTENDS MCAppCommands, FiniteSetTheorems, SequenceTheorems,
        WellFoundedInduction, TLAPS

-----------------------------------------------------------------------------
(***************************************************************************)
(* The contact listing, for every size of the contact array and any number *)
(* of changes, sessions and seconds: an app learns of every change but     *)
(* those that came too late for the listing, and no listing outlives its   *)
(* session.  What carries the proof is what a listing under way has done   *)
(* so far: the app holds all the contacts before the iterator that it was  *)
(* promised, unless they moved there.                                      *)
(***************************************************************************)

ContactSyncSpec == SyncInit /\ [][SyncNextStep]_syncVars

SyncContact == [key : SyncKeys, lastmod : 0..SyncMaxTime,
                rev : 1..SyncMaxEdits]

TableTypes ==
  /\ table \in Seq(SyncContact)
  /\ Len(table) <= SYNC_MAX_CONTACTS
  /\ late \subseteq SyncKeys
  /\ edits \in 0..SyncMaxEdits
  /\ ahead \in BOOLEAN

ClockTypes == rtc \in 1..SyncMaxTime

IterTypes ==
  /\ iter \in 1..(SYNC_MAX_CONTACTS + 1)
  /\ iter_started \in BOOLEAN
  /\ iter_filter_since \in 0..SyncMaxTime
  /\ most_recent_lastmod \in 0..SyncMaxTime

AppTypes ==
  /\ app \in [copy : [SyncKeys -> 0..SyncMaxEdits], since : 0..SyncMaxTime]
  /\ link \in [connected : BOOLEAN, greeted : BOOLEAN, asked : BOOLEAN,
               session : 0..SyncMaxSessions]

(* No key is twice in the array. *)
DistinctKeys ==
  \A i, j \in DOMAIN table : table[i].key = table[j].key => i = j

(* Nothing bears a time to come, unless the app dated a contact so. *)
NothingAhead ==
  ~ahead => /\ app.since <= rtc /\ most_recent_lastmod <= rtc
            /\ \A i \in DOMAIN table : table[i].lastmod <= rtc

(* A listing the app waits for runs, and was asked for in this session. *)
AskedRuns ==
  /\ link.greeted => link.connected
  /\ link.asked => link.greeted /\ iter_started
  /\ link.greeted /\ iter_started => iterSession = link.session /\ link.asked

(* A listing leaves out only what the app was told already. *)
FilterTold == iter_started => iter_filter_since <= app.since

(* The app holds the contact at index i, or it changed too late. *)
Held(i) ==
  table[i].key \in late \/ app.copy[table[i].key] = table[i].rev

(* The contacts before the iterator have been listed. *)
ListedHeld ==
  ~ahead /\ link.asked => \A i \in DOMAIN table : i < iter => Held(i)

ContactSyncTypes == TableTypes /\ ClockTypes /\ IterTypes /\ AppTypes

ContactSyncIInv ==
  /\ ContactSyncTypes
  /\ DistinctKeys
  /\ NothingAhead
  /\ AskedRuns
  /\ FilterTold
  /\ ListedHeld
  /\ MissedOnlyLate

-----------------------------------------------------------------------------
\* The array.

(* What the array holds at an index is a contact, and its key is known. *)
LEMMA AtIndex ==
  ASSUME TableTypes
  PROVE  /\ DOMAIN table = 1..Len(table) /\ Len(table) \in Nat
         /\ \A i \in DOMAIN table : table[i] \in SyncContact
BY DEF TableTypes

(* A known key is found. *)
LEMMA PositionOfKey ==
  ASSUME NEW key \in SyncKnown
  PROVE  /\ SyncPosition(key) \in DOMAIN table
         /\ table[SyncPosition(key)].key = key
<1>1. \E i \in DOMAIN table : table[i].key = key
  BY DEF SyncKnown
<1> QED BY <1>1 DEF SyncPosition

(* A new contact has no namesake elsewhere in the array, which keeps its
   bound. *)
LEMMA PlaceForKey ==
  ASSUME TableTypes, DistinctKeys, NEW key \in SyncKeys, NEW i \in PlacesFor(key)
  PROVE  /\ i \in 1..(Len(table) + 1) /\ i <= SYNC_MAX_CONTACTS
         /\ \A j \in DOMAIN table : j # i => table[j].key # key
<1>1. DOMAIN table = 1..Len(table) /\ Len(table) \in Nat
  BY AtIndex
<1>2. CASE key \in SyncKnown
  BY <1>1, <1>2, PositionOfKey, ContactSyncAssumption
  DEF PlacesFor, DistinctKeys, TableTypes
<1>3. CASE key \notin SyncKnown
  <2>1. \A j \in DOMAIN table : table[j].key # key
    BY <1>3 DEF SyncKnown
  <2> QED BY <1>1, <1>3, <2>1, ContactSyncAssumption DEF PlacesFor, TableTypes
<1> QED BY <1>2, <1>3

(* A contact that is put somewhere is there, and the others where they were. *)
LEMMA PutAt ==
  ASSUME TableTypes, NEW i \in 1..(Len(table) + 1), i <= SYNC_MAX_CONTACTS,
         NEW entry \in SyncContact, Put(i, entry)
  PROVE  /\ table' \in Seq(SyncContact)
         /\ Len(table') <= SYNC_MAX_CONTACTS
         /\ DOMAIN table' = DOMAIN table \union {i}
         /\ table'[i] = entry
         /\ \A j \in DOMAIN table' : j # i => j \in DOMAIN table
                                              /\ table'[j] = table[j]
<1>1. DOMAIN table = 1..Len(table) /\ Len(table) \in Nat
  BY AtIndex
<1>2. CASE i \in DOMAIN table
  <2>1. table' = [table EXCEPT ![i] = entry]
    BY <1>2 DEF Put
  <2>2. table' \in Seq(SyncContact) /\ Len(table') = Len(table)
    BY <1>1, <1>2, <2>1, ExceptSeq DEF TableTypes
  <2> QED BY <1>1, <1>2, <2>1, <2>2 DEF TableTypes
<1>3. CASE i \notin DOMAIN table
  <2>0. i = Len(table) + 1
    BY <1>1, <1>3
  <2>1. table' = Append(table, entry) /\ i = Len(table) + 1
    BY <1>3, <2>0, Zenon DEF Put
  <2>2. /\ table' \in Seq(SyncContact) /\ Len(table') = Len(table) + 1
        /\ table'[i] = entry
        /\ \A j \in 1..Len(table) : table'[j] = table[j]
    BY <2>1, AppendProperties DEF TableTypes
  <2> QED BY <1>1, <2>1, <2>2, LenProperties
<1> QED BY <1>2, <1>3

(* When a contact is removed the later ones move up by one. *)
LEMMA RemovedAt ==
  ASSUME TableTypes, NEW i \in DOMAIN table, table' = RemoveAt(table, i)
  PROVE  /\ table' \in Seq(SyncContact)
         /\ Len(table') = Len(table) - 1
         /\ DOMAIN table' = 1..(Len(table) - 1)
         /\ \A j \in DOMAIN table' :
              table'[j] = IF j < i THEN table[j] ELSE table[j + 1]
<1> DEFINE front == SubSeq(table, 1, i - 1)
           back == SubSeq(table, i + 1, Len(table))
<1>1. DOMAIN table = 1..Len(table) /\ Len(table) \in Nat
      /\ \A j \in 1..Len(table) : table[j] \in SyncContact
  BY AtIndex
<1>2. /\ front \in Seq(SyncContact) /\ Len(front) = i - 1
      /\ \A j \in 1..(i - 1) : front[j] = table[j]
  <2>1. i - 1 \in Int /\ \A j \in 1..(i - 1) : table[j] \in SyncContact
    BY <1>1
  <2>2. /\ front \in Seq(SyncContact)
        /\ Len(front) = IF 1 <= i - 1 THEN (i - 1) - 1 + 1 ELSE 0
        /\ \A j \in 1..((i - 1) - 1 + 1) : front[j] = table[1 + j - 1]
    BY <2>1, SubSeqProperties
  <2>3. (i - 1) - 1 + 1 = i - 1 /\ \A j \in 1..(i - 1) : 1 + j - 1 = j
    BY <1>1
  <2> QED BY <1>1, <2>2, <2>3
<1>3. /\ back \in Seq(SyncContact) /\ Len(back) = Len(table) - i
      /\ \A j \in 1..(Len(table) - i) : back[j] = table[i + j]
  <2>1. /\ i + 1 \in Int /\ Len(table) \in Int
        /\ \A j \in (i + 1)..Len(table) : table[j] \in SyncContact
    BY <1>1
  <2>2. /\ back \in Seq(SyncContact)
        /\ Len(back) = IF i + 1 <= Len(table)
                       THEN Len(table) - (i + 1) + 1 ELSE 0
        /\ \A j \in 1..(Len(table) - (i + 1) + 1) :
             back[j] = table[(i + 1) + j - 1]
    BY <2>1, SubSeqProperties
  <2>3. /\ Len(table) - (i + 1) + 1 = Len(table) - i
        /\ \A j \in 1..(Len(table) - i) : (i + 1) + j - 1 = i + j
    BY <1>1
  <2> QED BY <1>1, <2>2, <2>3
<1>4. /\ front \o back \in Seq(SyncContact)
      /\ Len(front \o back) = Len(front) + Len(back)
      /\ \A j \in 1..(Len(front) + Len(back)) :
           (front \o back)[j] = IF j <= Len(front) THEN front[j]
                                ELSE back[j - Len(front)]
  BY <1>2, <1>3, ConcatProperties
<1>5. table' = front \o back
  BY DEF RemoveAt
<1>6. DOMAIN table' = 1..(Len(table) - 1)
  BY <1>1, <1>2, <1>3, <1>4, <1>5, LenProperties
<1>7. \A j \in DOMAIN table' :
        table'[j] = IF j < i THEN table[j] ELSE table[j + 1]
  <2> SUFFICES ASSUME NEW j \in 1..(Len(table) - 1)
               PROVE  table'[j] = IF j < i THEN table[j] ELSE table[j + 1]
    BY <1>6
  <2>1. /\ i \in Int /\ j \in Int /\ Len(front) = i - 1
        /\ j \in 1..(Len(front) + Len(back))
    BY <1>1, <1>2, <1>3
  <2>2. table'[j] = IF j <= i - 1 THEN front[j] ELSE back[j - (i - 1)]
    BY <1>4, <1>5, <2>1
  <2>3. j < i => front[j] = table[j]
    BY <1>2, <2>1
  <2>4. ~(j < i) => back[j - (i - 1)] = table[j + 1]
    <3>1. ~(j < i) => /\ j - (i - 1) \in 1..(Len(table) - i)
                      /\ i + (j - (i - 1)) = j + 1
      BY <1>1, <2>1
    <3> QED BY <1>3, <3>1
  <2>5. j <= i - 1 <=> j < i
    BY <2>1
  <2> HIDE DEF front, back
  <2> QED BY <2>2, <2>3, <2>4, <2>5
<1>8. table' \in Seq(SyncContact) /\ Len(table') = Len(table) - 1
  <2>1. i \in Int /\ Len(front) + Len(back) = Len(table) - 1
    BY <1>1, <1>2, <1>3
  <2> HIDE DEF front, back
  <2> QED BY <1>4, <1>5, <2>1
<1> QED BY <1>6, <1>7, <1>8

-----------------------------------------------------------------------------
\* Changes of the array.

(* A contact is put into the array.  Either its time is not before the one
   the app was told last, or the app holds it. *)
LEMMA PutIInv ==
  ASSUME ContactSyncIInv, NEW key \in SyncKeys, NEW i \in PlacesFor(key),
         NEW lastmod \in 0..SyncMaxTime, Put(i, Entry(key, lastmod)),
         app' \in [copy : [SyncKeys -> 0..SyncMaxEdits], since : 0..SyncMaxTime],
         app'.since = app.since,
         \A k \in SyncKeys : \/ k = key \/ k \in Overwritten(i, key)
                             \/ app'.copy[k] = app.copy[k],
         ~ahead' => \/ lastmod >= app.since
                    \/ app'.copy[key] = edits + 1,
         ahead' = (ahead \/ lastmod > rtc),
         UNCHANGED <<rtc, link>>, UNCHANGED syncIter
  PROVE  ContactSyncIInv'
<1> USE DEF ContactSyncIInv, ContactSyncTypes
<1> DEFINE entry == Entry(key, lastmod)
<1>1. /\ edits \in Nat /\ edits + 1 \in 1..SyncMaxEdits
      /\ edits' = edits + 1
  BY ContactSyncAssumption DEF Put, TableTypes
<1>2. /\ entry \in SyncContact /\ entry.key = key
      /\ entry.lastmod = lastmod /\ entry.rev = edits + 1
  BY <1>1 DEF Entry, SyncContact
<1>3. /\ i \in 1..(Len(table) + 1) /\ i <= SYNC_MAX_CONTACTS
      /\ \A j \in DOMAIN table : j # i => table[j].key # key
  BY PlaceForKey
<1>4. /\ table' \in Seq(SyncContact)
      /\ Len(table') <= SYNC_MAX_CONTACTS
      /\ DOMAIN table' = DOMAIN table \union {i}
      /\ table'[i] = entry
      /\ \A j \in DOMAIN table' : j # i => j \in DOMAIN table
                                           /\ table'[j] = table[j]
  <2> HIDE DEF entry
  <2> QED BY <1>2, <1>3, PutAt DEF entry
<1>5. /\ (iter_started /\ i < iter) \/ lastmod = app.since => key \in late'
      /\ late' \subseteq SyncKeys
      /\ \A k \in late : k # key => k \in late'
  BY <1>2 DEF Put, TableTypes
<1>6. \A j \in DOMAIN table : j # i => /\ table[j].key \in SyncKeys
                                       /\ table[j].key # key
                                       /\ table[j].key \notin Overwritten(i, key)
  BY <1>3, AtIndex DEF SyncContact, Overwritten, DistinctKeys
<1>7. ContactSyncTypes'
  <2>1. ahead' \in BOOLEAN
    BY Zenon DEF TableTypes
  <2>2. TableTypes'
    BY <1>1, <1>4, <1>5, <2>1 DEF TableTypes
  <2> QED BY <2>2 DEF ClockTypes, IterTypes, AppTypes, syncIter
<1>8. DistinctKeys'
  BY <1>2, <1>3, <1>4 DEF DistinctKeys
<1>9. NothingAhead'
  <2> SUFFICES ASSUME ~ahead' PROVE NothingAhead'
    BY DEF NothingAhead
  <2>1. ~ahead /\ ~(lastmod > rtc)
    BY Zenon
  <2>2. lastmod <= rtc
    BY <2>1 DEF ClockTypes
  <2> QED BY <1>2, <1>4, <2>1, <2>2 DEF NothingAhead, syncIter
<1>10. AskedRuns' /\ FilterTold'
  BY DEF AskedRuns, FilterTold, syncIter
<1>11. ASSUME ~ahead', NEW j \in DOMAIN table', j # i
       PROVE  /\ j \in DOMAIN table /\ table'[j] = table[j]
              /\ Held(j) => Held(j)'
  BY <1>4, <1>5, <1>6, <1>11 DEF Held
<1>12. ListedHeld'
  <2> SUFFICES ASSUME ~ahead', link.asked, NEW j \in DOMAIN table', j < iter
               PROVE  Held(j)'
    BY DEF ListedHeld, syncIter
  <2>1. ~ahead /\ iter_started
    BY DEF AskedRuns
  <2>2. CASE j = i
    BY <1>2, <1>4, <1>5, <2>1, <2>2 DEF Held
  <2>3. CASE j # i
    BY <1>11, <2>1, <2>3 DEF ListedHeld
  <2> QED BY <2>2, <2>3
<1>13. MissedOnlyLate'
  <2> SUFFICES ASSUME ~ahead', NEW j \in DOMAIN table'
               PROVE  table'[j].lastmod > app'.since \/ Held(j)'
    BY DEF MissedOnlyLate, Held
  <2>1. ~ahead
    OBVIOUS
  <2>2. CASE j = i
    <3>1. lastmod > app.since \/ lastmod = app.since \/ app'.copy[key] = edits + 1
      BY DEF AppTypes
    <3> QED BY <1>2, <1>4, <1>5, <2>2, <3>1 DEF Held
  <2>3. CASE j # i
    <3>1. table[j].lastmod > app.since \/ Held(j)
      BY <1>11, <2>1, <2>3 DEF MissedOnlyLate, Held
    <3> QED BY <1>11, <2>3, <3>1
  <2> QED BY <2>2, <2>3
<1> QED BY <1>7, <1>8, <1>9, <1>10, <1>12, <1>13

(* What the app was told of a deletion is still a copy of the contacts. *)
LEMMA ToldCopy ==
  ASSUME NEW copy \in [SyncKeys -> 0..SyncMaxEdits], NEW gone
  PROVE  /\ Told(copy, gone) \in [SyncKeys -> 0..SyncMaxEdits]
         /\ \A k \in SyncKeys : k \in gone \/ Told(copy, gone)[k] = copy[k]
  BY ContactSyncAssumption DEF Told

(* An advert heard dates the contact by the clock, which is not before the
   time the app was told last. *)
LEMMA HeardIInv ==
  ASSUME ContactSyncIInv, NEW key \in SyncKeys, SyncHeard(key)
  PROVE  ContactSyncIInv'
<1> USE DEF ContactSyncIInv, ContactSyncTypes
<1>1. PICK i \in PlacesFor(key) :
        /\ Put(i, Entry(key, rtc))
        /\ app' = IF link.connected
                  THEN [app EXCEPT !.copy = Told(@, Overwritten(i, key))]
                  ELSE app
        /\ UNCHANGED <<rtc, ahead, link>> /\ UNCHANGED syncIter
  BY DEF SyncHeard
<1>2. /\ app' \in [copy : [SyncKeys -> 0..SyncMaxEdits], since : 0..SyncMaxTime]
      /\ app'.since = app.since
      /\ \A k \in SyncKeys : \/ k \in Overwritten(i, key)
                             \/ app'.copy[k] = app.copy[k]
  BY <1>1, ToldCopy DEF AppTypes
<1>3. rtc \in 0..SyncMaxTime /\ ahead' = (ahead \/ rtc > rtc)
  BY <1>1 DEF ClockTypes, TableTypes
<1>4. ~ahead' => rtc >= app.since
  BY <1>1 DEF NothingAhead, ClockTypes, AppTypes
<1> QED BY <1>1, <1>2, <1>3, <1>4, PutIInv

(* A contact that the app adds or changes is one that it holds. *)
LEMMA AddIInv ==
  ASSUME ContactSyncIInv, NEW key \in SyncKeys, NEW lastmod \in 0..SyncMaxTime,
         SyncCmdAddUpdateContact(key, lastmod)
  PROVE  ContactSyncIInv'
<1> USE DEF ContactSyncIInv, ContactSyncTypes
<1>1. PICK i \in PlacesFor(key) :
        /\ Put(i, Entry(key, lastmod))
        /\ app' = [app EXCEPT !.copy = [Told(@, Overwritten(i, key))
                                         EXCEPT ![key] = edits + 1]]
  BY DEF SyncCmdAddUpdateContact
<1>2. /\ ahead' = (ahead \/ lastmod > rtc)
      /\ UNCHANGED <<rtc, link>> /\ UNCHANGED syncIter
  BY DEF SyncCmdAddUpdateContact
<1>3. edits + 1 \in 0..SyncMaxEdits
  BY <1>1, ContactSyncAssumption DEF Put, TableTypes
<1>4. /\ app' \in [copy : [SyncKeys -> 0..SyncMaxEdits], since : 0..SyncMaxTime]
      /\ app'.since = app.since
      /\ \A k \in SyncKeys : \/ k = key \/ k \in Overwritten(i, key)
                             \/ app'.copy[k] = app.copy[k]
      /\ app'.copy[key] = edits + 1
  BY <1>1, <1>3, ToldCopy DEF AppTypes
<1> QED BY <1>1, <1>2, <1>4, PutIInv

(* A contact is removed: those after it move up, and the one that moves
   behind the iterator is late. *)
LEMMA RemoveIInv ==
  ASSUME ContactSyncIInv, NEW key \in SyncKeys, SyncCmdRemoveContact(key)
  PROVE  ContactSyncIInv'
<1> USE DEF ContactSyncIInv, ContactSyncTypes
<1> DEFINE i == SyncPosition(key)
           from(j) == IF j < i THEN j ELSE j + 1
<1>1. i \in DOMAIN table /\ table[i].key = key
  BY PositionOfKey DEF SyncCmdRemoveContact
<1>2. /\ edits' = edits + 1 /\ edits < SyncMaxEdits
      /\ table' = RemoveAt(table, i)
      /\ late' = (late \ {key}) \union
                   (IF iter_started /\ i < iter /\ iter <= Len(table)
                    THEN {table[iter].key} ELSE {})
      /\ app' = [app EXCEPT !.copy[key] = 0]
      /\ UNCHANGED <<rtc, ahead, link>> /\ UNCHANGED syncIter
  BY Zenon DEF SyncCmdRemoveContact
<1> HIDE DEF i
<1>3. /\ table' \in Seq(SyncContact)
      /\ Len(table') = Len(table) - 1
      /\ DOMAIN table' = 1..(Len(table) - 1)
      /\ \A j \in DOMAIN table' :
           table'[j] = IF j < i THEN table[j] ELSE table[j + 1]
  BY <1>1, <1>2, RemovedAt
<1>4. /\ DOMAIN table = 1..Len(table) /\ Len(table) \in Nat /\ i \in Nat
      /\ \A j \in DOMAIN table : table[j].key \in SyncKeys
  BY <1>1, AtIndex DEF SyncContact
<1>5. \A j \in DOMAIN table' :
        /\ from(j) \in DOMAIN table /\ from(j) # i
        /\ table'[j] = table[from(j)] /\ table[from(j)].key # key
  BY <1>1, <1>3, <1>4 DEF DistinctKeys
<1>6. /\ app' \in [copy : [SyncKeys -> 0..SyncMaxEdits], since : 0..SyncMaxTime]
      /\ app'.since = app.since
      /\ \A k \in SyncKeys : k # key => app'.copy[k] = app.copy[k]
  BY <1>2, ContactSyncAssumption DEF AppTypes
<1>7. /\ late' \subseteq SyncKeys /\ \A k \in late : k # key => k \in late'
      /\ iter_started /\ i < iter /\ iter <= Len(table)
           => table[iter].key \in late'
  BY <1>2, <1>4 DEF TableTypes, IterTypes
<1>8. ContactSyncTypes'
  <2>1. TableTypes'
    BY <1>2, <1>3, <1>4, <1>7, ContactSyncAssumption DEF TableTypes
  <2> QED BY <1>2, <1>6, <2>1 DEF ClockTypes, IterTypes, AppTypes, syncIter
<1>9. DistinctKeys'
  <2>1. \A j, k \in DOMAIN table' : from(j) = from(k) => j = k
    BY <1>3, <1>4
  <2> QED BY <1>5, <2>1 DEF DistinctKeys
<1>10. NothingAhead'
  BY <1>2, <1>5, <1>6 DEF NothingAhead, syncIter
<1>11. AskedRuns' /\ FilterTold'
  BY <1>2, <1>6 DEF AskedRuns, FilterTold, syncIter
<1>12. \A j \in DOMAIN table' : Held(from(j)) => Held(j)'
  BY <1>4, <1>5, <1>6, <1>7 DEF Held
<1>13. ListedHeld'
  <2> SUFFICES ASSUME ~ahead, link.asked, NEW j \in DOMAIN table', j < iter
               PROVE  Held(j)'
    BY <1>2 DEF ListedHeld, syncIter
  <2>1. iter_started /\ iter \in Nat /\ j \in Nat
    BY <1>3, <1>4 DEF AskedRuns, IterTypes
  <2>2. CASE from(j) < iter
    BY <1>5, <1>12, <2>2 DEF ListedHeld
  <2>3. CASE ~(from(j) < iter)
    <3>1. from(j) = iter /\ i < iter /\ iter <= Len(table)
      BY <1>3, <1>4, <1>5, <2>1, <2>3
    <3> QED BY <1>5, <1>7, <2>1, <3>1 DEF Held
  <2> QED BY <2>2, <2>3
<1>14. MissedOnlyLate'
  <2> SUFFICES ASSUME ~ahead, NEW j \in DOMAIN table'
               PROVE  table'[j].lastmod > app'.since \/ Held(j)'
    BY <1>2 DEF MissedOnlyLate, Held
  <2>1. table[from(j)].lastmod > app.since \/ Held(from(j))
    BY <1>5 DEF MissedOnlyLate, Held
  <2> QED BY <1>5, <1>6, <1>12, <2>1
<1> QED BY <1>8, <1>9, <1>10, <1>11, <1>13, <1>14

-----------------------------------------------------------------------------
\* Steps that leave the array alone.

(* What such steps keep whatever they do to the session and the iterator. *)
LEMMA TableUntouched ==
  ASSUME ContactSyncIInv, UNCHANGED <<table, edits, ahead, app, late>>,
         rtc' \in 1..SyncMaxTime, rtc <= rtc'
  PROVE  /\ TableTypes' /\ ClockTypes' /\ DistinctKeys' /\ MissedOnlyLate'
         /\ \A i \in DOMAIN table : Held(i) => Held(i)'
         /\ most_recent_lastmod' \in {0, most_recent_lastmod} => NothingAhead'
<1> USE DEF ContactSyncIInv, ContactSyncTypes
<1>1. TableTypes' /\ ClockTypes'
  BY DEF TableTypes, ClockTypes
<1>2. DistinctKeys' /\ MissedOnlyLate'
  BY DEF DistinctKeys, MissedOnlyLate
<1>3. \A i \in DOMAIN table : Held(i) => Held(i)'
  BY DEF Held
<1>4. ASSUME most_recent_lastmod' \in {0, most_recent_lastmod}
      PROVE  NothingAhead'
  <2>1. /\ rtc \in Nat /\ rtc' \in Nat /\ app.since \in Nat
        /\ most_recent_lastmod \in Nat
        /\ \A i \in DOMAIN table : table[i].lastmod \in Nat
    BY AtIndex DEF ClockTypes, AppTypes, IterTypes, SyncContact
  <2> QED BY <1>4, <2>1 DEF NothingAhead
<1> QED BY <1>1, <1>2, <1>3, <1>4

(* The clock and the session: a new session waits for no listing, and its
   APP_START ends one that is left over. *)
LEMMA SessionIInv ==
  ASSUME ContactSyncIInv,
         \/ SyncTick \/ SyncConnect \/ SyncDisconnect \/ CmdAppStart
         \/ \E since \in {0, app.since} : CmdGetContacts(since)
  PROVE  ContactSyncIInv'
<1> USE DEF ContactSyncIInv, ContactSyncTypes
<1>1. /\ UNCHANGED <<table, edits, ahead, app, late>>
      /\ rtc' \in 1..SyncMaxTime /\ rtc <= rtc'
      /\ most_recent_lastmod' \in {0, most_recent_lastmod}
  BY ContactSyncAssumption
  DEF SyncTick, SyncConnect, SyncDisconnect, CmdAppStart, CmdGetContacts,
      syncNode, syncIter, ClockTypes
<1>2. /\ TableTypes' /\ ClockTypes' /\ DistinctKeys' /\ MissedOnlyLate'
      /\ \A i \in DOMAIN table : Held(i) => Held(i)'
      /\ NothingAhead'
  BY <1>1, TableUntouched
<1>3. IterTypes' /\ AppTypes' /\ AskedRuns' /\ FilterTold' /\ ListedHeld'
  <2>1. CASE SyncTick
    BY <1>1, <1>2, <2>1
    DEF SyncTick, syncIter, IterTypes, AppTypes, AskedRuns, FilterTold, ListedHeld
  <2>2. CASE SyncConnect
    BY <1>1, <1>2, <2>2, ContactSyncAssumption
    DEF SyncConnect, syncIter, IterTypes, AppTypes, AskedRuns, FilterTold,
        ListedHeld
  <2>3. CASE SyncDisconnect
    BY <1>1, <1>2, <2>3
    DEF SyncDisconnect, syncIter, IterTypes, AppTypes, AskedRuns, FilterTold,
        ListedHeld
  <2>4. CASE CmdAppStart
    BY <1>1, <1>2, <2>4
    DEF CmdAppStart, IterTypes, AppTypes, AskedRuns, FilterTold, ListedHeld
  <2>5. ASSUME NEW since \in {0, app.since}, CmdGetContacts(since)
        PROVE  IterTypes' /\ AppTypes' /\ AskedRuns' /\ FilterTold' /\ ListedHeld'
    <3>1. /\ link.greeted /\ iter' = 1 /\ iter_started' = TRUE
          /\ iter_filter_since' = since /\ most_recent_lastmod' = 0
          /\ iterSession' = link.session
          /\ link' = [link EXCEPT !.asked = TRUE] /\ app' = app
      BY <2>5 DEF CmdGetContacts
    <3>2. since \in 0..SyncMaxTime /\ since <= app.since
      BY ContactSyncAssumption DEF AppTypes
    <3>3. IterTypes' /\ FilterTold'
      BY <3>1, <3>2, ContactSyncAssumption DEF IterTypes, FilterTold
    <3>4. AppTypes' /\ AskedRuns'
      BY <3>1 DEF AppTypes, AskedRuns
    <3>5. ListedHeld'
      BY <1>1, <3>1, AtIndex DEF ListedHeld
    <3> QED BY <3>3, <3>4, <3>5
  <2> QED BY <2>1, <2>2, <2>3, <2>4, <2>5
<1> QED BY <1>2, <1>3

(* A contact that is written to a connected app is held by it. *)
LEMMA WrittenHeld ==
  ASSUME ContactSyncIInv, NEW i \in DOMAIN table, writeContactRespFrame(i),
         UNCHANGED <<table, ahead, edits, link>>
  PROVE  /\ TableTypes' /\ AppTypes'
         /\ app'.since = app.since
         /\ \A j \in DOMAIN table : Held(j) => Held(j)'
         /\ link.connected => Held(i)'
<1> USE DEF ContactSyncIInv, ContactSyncTypes
<1>1. /\ table[i].key \in SyncKeys /\ table[i].rev \in 0..SyncMaxEdits
      /\ \A j \in DOMAIN table : j # i => table[j].key # table[i].key
      /\ \A j \in DOMAIN table : table[j].key \in SyncKeys
  BY AtIndex, ContactSyncAssumption DEF SyncContact, DistinctKeys
<1>2. CASE link.connected
  <2>1. /\ app' = [app EXCEPT !.copy[table[i].key] = table[i].rev]
        /\ late' = late \ {table[i].key}
    BY <1>2 DEF writeContactRespFrame
  <2>2. /\ app'.since = app.since /\ AppTypes'
        /\ \A k \in SyncKeys : app'.copy[k] = IF k = table[i].key
                                              THEN table[i].rev ELSE app.copy[k]
    BY <1>1, <2>1 DEF AppTypes
  <2>3. TableTypes'
    BY <2>1 DEF TableTypes
  <2>4. \A j \in DOMAIN table : Held(j) => Held(j)'
    BY <1>1, <2>1, <2>2 DEF Held
  <2> QED BY <1>1, <2>2, <2>3, <2>4 DEF Held
<1>3. CASE ~link.connected
  BY <1>3 DEF writeContactRespFrame, TableTypes, AppTypes, Held
<1> QED BY <1>2, <1>3

(* CMD_GET_CONTACT_BY_KEY sends one contact outside any listing. *)
LEMMA ByKeyIInv ==
  ASSUME ContactSyncIInv, NEW key \in SyncKeys, CmdGetContactByKey(key)
  PROVE  ContactSyncIInv'
<1> USE DEF ContactSyncIInv, ContactSyncTypes
<1>1. /\ SyncPosition(key) \in DOMAIN table
      /\ writeContactRespFrame(SyncPosition(key))
      /\ UNCHANGED <<table, rtc, ahead, edits, link>> /\ UNCHANGED syncIter
  BY PositionOfKey DEF CmdGetContactByKey
<1>2. /\ TableTypes' /\ AppTypes' /\ app'.since = app.since
      /\ \A j \in DOMAIN table : Held(j) => Held(j)'
  BY <1>1, WrittenHeld
<1>3. ClockTypes' /\ IterTypes' /\ DistinctKeys' /\ NothingAhead'
      /\ AskedRuns' /\ FilterTold'
  BY <1>1, <1>2 DEF ClockTypes, IterTypes, DistinctKeys, NothingAhead,
                    AskedRuns, FilterTold, syncIter
<1>4. ListedHeld' /\ MissedOnlyLate'
  BY <1>1, <1>2 DEF ListedHeld, MissedOnlyLate, Held, syncIter
<1> QED BY <1>2, <1>3, <1>4

(* The iterator goes on by one: a contact that is left out is not newer than
   the app's time, so it is held, or late, already. *)
LEMMA IterContactIInv ==
  ASSUME ContactSyncIInv, IterContact
  PROVE  ContactSyncIInv'
<1> USE DEF ContactSyncIInv, ContactSyncTypes
<1>0. iter \in DOMAIN table
  BY AtIndex DEF IterContact, IterTypes
<1> PICK i \in DOMAIN table : i = iter
  BY <1>0
<1>1. /\ iter_started /\ iter' = i + 1
      /\ UNCHANGED <<iter_started, iter_filter_since, iterSession>>
      /\ UNCHANGED <<table, rtc, ahead, edits, link>>
  BY DEF IterContact
<1>2. table[i].lastmod \in 0..SyncMaxTime
  BY AtIndex DEF SyncContact
<1>3. /\ TableTypes' /\ AppTypes' /\ app'.since = app.since
      /\ \A j \in DOMAIN table : Held(j) => Held(j)'
      /\ most_recent_lastmod' \in {most_recent_lastmod, table[i].lastmod}
      /\ ~ahead /\ link.asked => Held(i)'
  <2>1. CASE table[i].lastmod > iter_filter_since
    <3>1. /\ writeContactRespFrame(i)
          /\ most_recent_lastmod' \in {most_recent_lastmod, table[i].lastmod}
      BY <2>1 DEF IterContact
    <3>2. link.asked => link.connected
      BY DEF AskedRuns
    <3> QED BY <1>1, <3>1, <3>2, WrittenHeld
  <2>2. CASE ~(table[i].lastmod > iter_filter_since)
    <3>1. UNCHANGED <<app, late, most_recent_lastmod>>
      BY <2>2 DEF IterContact
    <3>2. ~(table[i].lastmod > app.since)
      BY <1>1, <1>2, <2>2 DEF FilterTold, IterTypes, AppTypes
    <3>3. ~ahead => Held(i)
      BY <1>1, <3>2 DEF MissedOnlyLate, Held
    <3> QED BY <1>1, <3>1, <3>3 DEF TableTypes, AppTypes, Held
  <2> QED BY <2>1, <2>2
<1>4. ClockTypes' /\ IterTypes' /\ DistinctKeys'
  BY <1>1, <1>2, <1>3, AtIndex, ContactSyncAssumption
  DEF ClockTypes, IterTypes, DistinctKeys, TableTypes
<1>5. NothingAhead' /\ AskedRuns' /\ FilterTold'
  BY <1>1, <1>3 DEF NothingAhead, AskedRuns, FilterTold
<1>6. ListedHeld'
  <2>1. \A j \in DOMAIN table : j < i + 1 => j < i \/ j = i
    BY <1>1, AtIndex
  <2> QED BY <1>1, <1>3, <2>1 DEF ListedHeld
<1>7. MissedOnlyLate'
  BY <1>1, <1>3 DEF MissedOnlyLate, Held
<1> QED BY <1>3, <1>4, <1>5, <1>6, <1>7

(* The listing ends: the app adopts the newest time it was sent only if it
   asked for the listing in this session, and then it holds all of it. *)
LEMMA IterEndIInv ==
  ASSUME ContactSyncIInv, IterEnd
  PROVE  ContactSyncIInv'
<1> USE DEF ContactSyncIInv, ContactSyncTypes
<1>1. /\ iter > Len(table) /\ iter_started' = FALSE
      /\ app' = IF link.asked /\ most_recent_lastmod # 0
                THEN [app EXCEPT !.since = most_recent_lastmod] ELSE app
      /\ link' = [link EXCEPT !.asked = FALSE]
      /\ UNCHANGED <<iter, iter_filter_since, most_recent_lastmod, iterSession>>
      /\ UNCHANGED <<table, rtc, late, ahead, edits>>
  BY DEF IterEnd, syncNode
<1>2. /\ app' \in [copy : [SyncKeys -> 0..SyncMaxEdits], since : 0..SyncMaxTime]
      /\ app'.copy = app.copy
      /\ \/ app'.since = app.since
         \/ link.asked /\ app'.since = most_recent_lastmod
  <2>1. CASE link.asked /\ most_recent_lastmod # 0
    BY <1>1, <2>1 DEF AppTypes, IterTypes
  <2>2. CASE ~(link.asked /\ most_recent_lastmod # 0)
    <3>1. app' = app
      BY <1>1, <2>2, Zenon
    <3>2. app \in [copy : [SyncKeys -> 0..SyncMaxEdits],
                    since : 0..SyncMaxTime]
      BY DEF AppTypes
    <3> QED BY <3>1, <3>2
  <2> QED BY <2>1, <2>2
<1>3. ContactSyncTypes'
  BY <1>1, <1>2 DEF TableTypes, ClockTypes, IterTypes, AppTypes
<1>4. DistinctKeys' /\ NothingAhead' /\ AskedRuns' /\ FilterTold' /\ ListedHeld'
  BY <1>1, <1>2 DEF DistinctKeys, NothingAhead, AskedRuns, FilterTold,
                    ListedHeld, AppTypes
<1>5. MissedOnlyLate'
  <2>1. \A j \in DOMAIN table : j < iter
    BY <1>1, AtIndex DEF IterTypes
  <2>2. ~ahead /\ link.asked => \A j \in DOMAIN table : Held(j)
    BY <2>1 DEF ListedHeld
  <2> QED BY <1>1, <1>2, <2>2 DEF MissedOnlyLate, Held
<1> QED BY <1>3, <1>4, <1>5

-----------------------------------------------------------------------------

(* It holds after boot: the array is empty and no app is there. *)
LEMMA ContactSyncInitIInv == SyncInit => ContactSyncIInv
<1> SUFFICES ASSUME SyncInit PROVE ContactSyncIInv
  OBVIOUS
<1>1. table \in Seq(SyncContact) /\ Len(table) = 0 /\ DOMAIN table = {}
  BY EmptySeq DEF SyncInit
<1>2. TableTypes
  <2>1. late \subseteq SyncKeys /\ ahead \in BOOLEAN
    BY Zenon DEF SyncInit
  <2>2. edits \in 0..SyncMaxEdits /\ 0 <= SYNC_MAX_CONTACTS
    BY ContactSyncAssumption DEF SyncInit
  <2> QED BY <1>1, <2>1, <2>2 DEF TableTypes
<1>4. ClockTypes /\ IterTypes
  <2>1. rtc = 1 /\ iter = 1 /\ iter_filter_since = 0 /\ most_recent_lastmod = 0
    BY DEF SyncInit
  <2>2. iter_started \in BOOLEAN
    BY Zenon DEF SyncInit
  <2>3. 1 \in 1..SyncMaxTime /\ 0 \in 0..SyncMaxTime
        /\ 1 \in 1..(SYNC_MAX_CONTACTS + 1)
    BY ContactSyncAssumption
  <2> QED BY <2>1, <2>2, <2>3 DEF ClockTypes, IterTypes
<1>5. AppTypes
  BY ContactSyncAssumption DEF SyncInit, AppTypes
<1>3. /\ DistinctKeys /\ NothingAhead /\ AskedRuns /\ FilterTold
      /\ ListedHeld /\ MissedOnlyLate
  BY <1>1, ContactSyncAssumption
  DEF SyncInit, DistinctKeys, NothingAhead, AskedRuns, FilterTold,
      ListedHeld, MissedOnlyLate
<1> QED BY <1>2, <1>3, <1>4, <1>5 DEF ContactSyncIInv, ContactSyncTypes

(* No step of radio, app, clock or iterator breaks the invariant. *)
LEMMA ContactSyncStepIInv ==
  ASSUME ContactSyncIInv, [SyncNextStep]_syncVars
  PROVE  ContactSyncIInv'
<1>1. CASE ContactCommand
  BY <1>1, HeardIInv, AddIInv, RemoveIInv, ByKeyIInv DEF ContactCommand
<1>2. CASE \/ SyncTick \/ SyncConnect \/ SyncDisconnect \/ CmdAppStart
           \/ \E since \in {0, app.since} : CmdGetContacts(since)
  BY <1>2, SessionIInv
<1>3. CASE IterStep
  BY <1>3, IterContactIInv, IterEndIInv DEF IterStep
<1>4. CASE UNCHANGED syncVars
  BY <1>4
  DEF syncVars, syncNode, syncIter, ContactSyncIInv, ContactSyncTypes,
      TableTypes, ClockTypes, IterTypes, AppTypes, DistinctKeys, NothingAhead,
      AskedRuns, FilterTold, ListedHeld, Held, MissedOnlyLate
<1> QED BY <1>1, <1>2, <1>3, <1>4 DEF SyncNextStep

(* Through any interleaving of adverts, commands and passes of the iterator
   the app holds what the listing is past, but for what came too late. *)
THEOREM ContactSyncInvariant == ContactSyncSpec => []ContactSyncIInv
<1>1. ContactSyncIInv /\ [SyncNextStep]_syncVars => ContactSyncIInv'
  BY ContactSyncStepIInv
<1> QED BY ContactSyncInitIInv, <1>1, PTL DEF ContactSyncSpec

(* An app that asks only for what changed after its time misses no contact
   but those that changed too late for a listing or in its very second. *)
THEOREM ChangesReachTheApp == ContactSyncSpec => []MissedOnlyLate
<1>1. ContactSyncIInv => MissedOnlyLate
  BY DEF ContactSyncIInv
<1> QED BY <1>1, ContactSyncInvariant, PTL

(* No part of a listing reaches a session that did not ask for it. *)
THEOREM ListingsStayInTheirSession == ContactSyncSpec => []NoLeftovers
<1>1. ContactSyncIInv => NoLeftovers
  BY DEF ContactSyncIInv, AskedRuns, NoLeftovers
<1> QED BY <1>1, ContactSyncInvariant, PTL

(* The array stays within its bound without a key twice, and the iterator
   within the array and one place behind it. *)
THEOREM ContactSyncTypeCorrect == ContactSyncSpec => []SyncTypesOK
<1>1. ContactSyncIInv => SyncTypesOK
  <2> SUFFICES ASSUME ContactSyncIInv PROVE SyncTypesOK
    OBVIOUS
  <2>1. DOMAIN table = 1..Len(table) /\ Len(table) \in Nat
    BY AtIndex DEF ContactSyncIInv, ContactSyncTypes
  <2> DEFINE key == [i \in 1..Len(table) |-> table[i].key]
  <2>2. ExistsBijection(1..Len(table), SyncKnown)
    <3>1. /\ key \in [1..Len(table) -> SyncKnown]
          /\ \A k \in SyncKnown : \E i \in 1..Len(table) : key[i] = k
      BY <2>1 DEF SyncKnown
    <3>2. \A i, j \in 1..Len(table) : key[i] = key[j] => i = j
      BY <2>1 DEF ContactSyncIInv, DistinctKeys
    <3> HIDE DEF key
    <3>3. key \in Bijection(1..Len(table), SyncKnown)
      BY <3>1, <3>2 DEF Bijection, Injection, IsInjective, Surjection
    <3> QED BY <3>3 DEF ExistsBijection
  <2>3. IsFiniteSet(1..Len(table)) /\ Cardinality(1..Len(table)) = Len(table)
    <3>1. Len(table) \in Int /\ 1 \in Int
      BY <2>1
    <3>2. /\ IsFiniteSet(1..Len(table))
          /\ Cardinality(1..Len(table))
               = IF 1 > Len(table) THEN 0 ELSE Len(table) - 1 + 1
      BY <3>1, FS_Interval
    <3> QED BY <2>1, <3>2
  <2>4. Cardinality(SyncKnown) = Len(table)
    BY <2>2, <2>3, FS_Bijection
  <2> QED BY <2>4 DEF SyncTypesOK, ContactSyncIInv, ContactSyncTypes, TableTypes,
                      ClockTypes, IterTypes, AppTypes, SyncContact
<1> QED BY <1>1, ContactSyncInvariant, PTL

-----------------------------------------------------------------------------
(***************************************************************************)
(* Adverts heard, for every size of the table, every range of the clock    *)
(* and any set of nodes: eviction by time and sorting in place, in any     *)
(* order, lose none but the nodes heard longest ago, and the comparison    *)
(* sorts times that lie within half the range of the clock newest first.   *)
(***************************************************************************)

AdvertPathsSpec == PathInit /\ [][PathNext]_pathVars

TimeOf(i) == advert_paths[i].recv_timestamp
PrefixOf(i) == advert_paths[i].pubkey_prefix

PathTypes ==
  /\ advert_paths \in [PathSlots -> AdvertPath]
  /\ currentTime \in 0..(TimeRange - 1)
  /\ lastHeard \in [KeyPrefixes -> 0..(TimeRange - 1)]

(* A node is in the table once at most. *)
HeardOnce ==
  \A i, j \in PathSlots :
    PrefixOf(i) = PrefixOf(j) /\ PrefixOf(i) \in KeyPrefixes => i = j

(* Nothing was heard at a time to come. *)
HeardBefore ==
  /\ \A i \in PathSlots : TimeOf(i) <= currentTime
  /\ \A p \in KeyPrefixes : lastHeard[p] <= currentTime

PathIInv == PathTypes /\ HeardOnce /\ HeardBefore /\ NewestHeardKept

-----------------------------------------------------------------------------
\* Searching the table.

(* A set of numbers that is not empty has a least one. *)
LEMMA LeastOf ==
  ASSUME NEW T, T \subseteq Nat, T # {}
  PROVE  \E x \in T : \A y \in T : x <= y
<1>1. \E x \in T : \A y \in T : ~(<<y, x>> \in OpToRel(<, Nat))
  BY NatLessThanWellFounded, WFMin
<1>2. PICK x \in T : \A y \in T : ~(<<y, x>> \in OpToRel(<, Nat))
  BY <1>1
<1>3. \A y \in T : ~(y < x)
  BY <1>2 DEF OpToRel
<1> QED BY <1>3

(* The slots have a number and a time. *)
LEMMA Slots ==
  ASSUME PathTypes
  PROVE  /\ PathSlots \subseteq Nat /\ PathSlots # {}
         /\ 1 \in PathSlots
         /\ IsFiniteSet(PathSlots)
         /\ \A i \in PathSlots : /\ TimeOf(i) \in Nat
                                 /\ TimeOf(i) \in 0..(TimeRange - 1)
                                 /\ PrefixOf(i) \in KeyPrefixes \union {NoPrefix}
<1>1. 1 \in PathSlots /\ PathSlots \subseteq Nat
  BY AdvertPathsAssumption DEF PathSlots
<1>2. IsFiniteSet(PathSlots)
  BY FS_Interval, AdvertPathsAssumption DEF PathSlots
<1>3. \A i \in PathSlots : advert_paths[i] \in AdvertPath
  BY DEF PathTypes
<1> QED BY <1>1, <1>2, <1>3, AdvertPathsAssumption DEF AdvertPath, TimeOf, PrefixOf

(* The victim is a slot of the table, and none is older. *)
LEMMA VictimOldest ==
  ASSUME PathTypes
  PROVE  Victim \in PathSlots /\ \A j \in PathSlots : TimeOf(Victim) <= TimeOf(j)
<1> DEFINE times == {TimeOf(i) : i \in PathSlots}
<1>1. times \subseteq Nat /\ times # {}
  BY Slots
<1>2. PICK t \in times : \A u \in times : t <= u
  BY <1>1, LeastOf
<1> DEFINE oldest == {i \in PathSlots : TimeOf(i) = t}
<1>3. oldest \subseteq Nat /\ oldest # {}
  BY <1>2, Slots
<1>4. PICK i \in oldest : \A j \in oldest : i <= j
  BY <1>3, LeastOf
<1>5. /\ i \in PathSlots
      /\ \A j \in PathSlots : TimeOf(i) < TimeOf(j) \/ (TimeOf(i) = TimeOf(j) /\ i <= j)
  <2>1. i \in PathSlots /\ TimeOf(i) = t
    BY <1>4
  <2>2. ASSUME NEW j \in PathSlots
        PROVE  TimeOf(i) < TimeOf(j) \/ (TimeOf(i) = TimeOf(j) /\ i <= j)
    <3>1. t <= TimeOf(j) /\ t \in Nat /\ TimeOf(j) \in Nat
      BY <1>1, <1>2
    <3>2. TimeOf(j) = t => i <= j
      BY <1>4
    <3> QED BY <2>1, <3>1, <3>2
  <2> QED BY <2>1, <2>2
<1>6. /\ Victim \in PathSlots
      /\ \A j \in PathSlots :
           TimeOf(Victim) < TimeOf(j) \/ (TimeOf(Victim) = TimeOf(j) /\ Victim <= j)
  BY <1>5 DEF Victim, TimeOf
<1> QED BY <1>6, Slots

(* A node that is found is found in its slot. *)
LEMMA FoundSlot ==
  ASSUME PathTypes, NEW p, Holding(p) # {}
  PROVE  LET i == CHOOSE i \in Holding(p) : \A j \in Holding(p) : i <= j
         IN  i \in Holding(p)
<1>1. Holding(p) \subseteq Nat
  BY Slots DEF Holding
<1>2. \E i \in Holding(p) : \A j \in Holding(p) : i <= j
  BY <1>1, LeastOf
<1> QED BY <1>2

-----------------------------------------------------------------------------
\* The comparison.

(* The remainder of a difference of two times. *)
LEMMA DifferenceOfTimes ==
  ASSUME NEW n \in Int, -TimeRange < n, n < TimeRange
  PROVE  n % TimeRange = IF n < 0 THEN n + TimeRange ELSE n
<1>1. TimeRange \in Nat \ {0}
  BY AdvertPathsAssumption
<1> DEFINE q == n \div TimeRange
           r == n % TimeRange
<1>2. q \in Int /\ r \in 0..(TimeRange - 1) /\ n = TimeRange * q + r
  BY <1>1
<1> HIDE DEF q, r
<1>3. q = 0 \/ q = -1
  <2>1. q >= 1 => TimeRange * q >= TimeRange
    BY <1>1, <1>2
  <2>2. q <= -2 => TimeRange * q <= -2 * TimeRange
    BY <1>1, <1>2
  <2> QED BY <1>1, <1>2, <2>1, <2>2
<1>4. r = IF n < 0 THEN n + TimeRange ELSE n
  BY <1>1, <1>2, <1>3
<1> QED BY <1>4 DEF r

(* Within half the range the cast leaves the difference what it is. *)
LEMMA AsIntWithinHalf ==
  ASSUME NEW n \in Int, 2 * n < TimeRange, -(2 * n) < TimeRange
  PROVE  AsInt(n) = n
<1>1. TimeRange \in Nat \ {0} /\ -TimeRange < n /\ n < TimeRange
  BY AdvertPathsAssumption
<1>2. n % TimeRange = IF n < 0 THEN n + TimeRange ELSE n
  BY <1>1, DifferenceOfTimes
<1>3. CASE n < 0
  BY <1>1, <1>2, <1>3 DEF AsInt
<1>4. CASE ~(n < 0)
  BY <1>1, <1>2, <1>4 DEF AsInt
<1> QED BY <1>3, <1>4

-----------------------------------------------------------------------------
\* The steps.

(* The clock goes on. *)
LEMMA SetTimeIInv ==
  ASSUME PathIInv, NEW secs \in 0..(TimeRange - 1), SetTime(secs)
  PROVE  PathIInv'
<1>1. PathTypes' /\ HeardOnce' /\ NewestHeardKept'
  BY DEF PathIInv, SetTime, PathTypes, HeardOnce, NewestHeardKept, Holding,
         PrefixOf
<1>2. HeardBefore'
  <2>1. /\ currentTime \in Nat /\ secs \in Nat /\ currentTime < secs
        /\ currentTime' = secs
        /\ \A p \in KeyPrefixes : lastHeard[p] \in Nat
    BY AdvertPathsAssumption DEF PathIInv, PathTypes, SetTime
  <2>2. \A i \in PathSlots : TimeOf(i)' <= secs
    BY <2>1, Slots DEF PathIInv, SetTime, HeardBefore, TimeOf
  <2>3. \A p \in KeyPrefixes : lastHeard'[p] <= secs
    BY <2>1 DEF PathIInv, SetTime, HeardBefore
  <2> QED BY <2>1, <2>2, <2>3 DEF HeardBefore
<1> QED BY <1>1, <1>2 DEF PathIInv

(* An advert takes the place of an older one of its node, or of the oldest in
   the table, and then its node is heard last. *)
LEMMA HearIInv ==
  ASSUME PathIInv, NEW prefix \in KeyPrefixes, HearAdvert(prefix)
  PROVE  PathIInv'
<1> USE DEF PathIInv
<1> DEFINE entry == [pubkey_prefix |-> prefix, recv_timestamp |-> currentTime]
<1>1. PICK i \in PathSlots :
        /\ advert_paths' = [advert_paths EXCEPT ![i] = entry]
        /\ \/ PrefixOf(i) = prefix
           \/ /\ Holding(prefix) = {}
              /\ \A j \in PathSlots : TimeOf(i) <= TimeOf(j)
  <2>1. CASE Holding(prefix) = {}
    BY <2>1, VictimOldest DEF HearAdvert
  <2>2. CASE Holding(prefix) # {}
    <3> DEFINE first == CHOOSE i \in Holding(prefix) :
                          \A j \in Holding(prefix) : i <= j
    <3>1. first \in Holding(prefix)
      BY <2>2, FoundSlot
    <3>2. advert_paths' = [advert_paths EXCEPT ![first] = entry]
      BY <2>2 DEF HearAdvert
    <3> HIDE DEF first
    <3> QED BY <3>1, <3>2 DEF Holding, PrefixOf
  <2> QED BY <2>1, <2>2
<1>2. /\ lastHeard' = [lastHeard EXCEPT ![prefix] = currentTime]
      /\ currentTime' = currentTime
  BY DEF HearAdvert
<1>3. /\ currentTime \in Nat /\ currentTime \in 0..(TimeRange - 1)
      /\ \A q \in KeyPrefixes : lastHeard[q] \in Nat
  BY AdvertPathsAssumption DEF PathTypes
<1>4. PathTypes'
  BY <1>1, <1>2, <1>3 DEF PathTypes, AdvertPath
<1>5. \A j \in PathSlots :
        /\ PrefixOf(j)' = IF j = i THEN prefix ELSE PrefixOf(j)
        /\ TimeOf(j)' = IF j = i THEN currentTime ELSE TimeOf(j)
  BY <1>1 DEF PathTypes, PrefixOf, TimeOf
<1>6. \A j \in PathSlots : j # i => PrefixOf(j) # prefix
  BY <1>1 DEF HeardOnce, Holding, PrefixOf
<1>7. \A q \in KeyPrefixes :
        lastHeard'[q] = IF q = prefix THEN currentTime ELSE lastHeard[q]
  BY <1>2 DEF PathTypes
<1>8. HeardOnce'
  BY <1>5, <1>6 DEF HeardOnce
<1>9. HeardBefore'
  BY <1>2, <1>3, <1>5, <1>7 DEF HeardBefore
<1>10. NewestHeardKept'
  <2> SUFFICES ASSUME NEW q \in KeyPrefixes
               PROVE  /\ \A j \in PathSlots :
                           PrefixOf(j)' = q => TimeOf(j)' = lastHeard'[q]
                      /\ (\A j \in PathSlots : PrefixOf(j)' # q) =>
                           \A j \in PathSlots : lastHeard'[q] <= TimeOf(j)'
    BY DEF NewestHeardKept, Holding, PrefixOf, TimeOf
  <2>1. /\ \A j \in PathSlots : PrefixOf(j) = q => TimeOf(j) = lastHeard[q]
        /\ (\A j \in PathSlots : PrefixOf(j) # q) =>
             \A j \in PathSlots : lastHeard[q] <= TimeOf(j)
    BY DEF NewestHeardKept, Holding, PrefixOf, TimeOf
  <2>2. CASE q = prefix
    BY <1>5, <1>6, <1>7, <2>2
  <2>3. CASE q # prefix
    <3>1. \A j \in PathSlots : PrefixOf(j)' = q => TimeOf(j)' = lastHeard'[q]
      BY <1>5, <1>7, <2>1, <2>3
    <3>2. ASSUME \A j \in PathSlots : PrefixOf(j)' # q
          PROVE  \A j \in PathSlots : lastHeard[q] <= TimeOf(j)
      <4>1. CASE PrefixOf(i) = q
        BY <1>1, <2>1, <2>3, <4>1
      <4>2. CASE PrefixOf(i) # q
        BY <1>5, <2>1, <3>2, <4>2
      <4> QED BY <4>1, <4>2
    <3>3. lastHeard[q] <= currentTime
      BY DEF HeardBefore
    <3> QED BY <1>5, <1>7, <2>3, <3>1, <3>2, <3>3
  <2> QED BY <2>2, <2>3
<1> QED BY <1>4, <1>8, <1>9, <1>10

(* Sorting moves the entries about and loses none. *)
LEMMA SortIInv ==
  ASSUME PathIInv, getRecentlyHeard
  PROVE  PathIInv'
<1> USE DEF PathIInv
<1>1. advert_paths' \in Permuted /\ UNCHANGED <<currentTime, lastHeard>>
  BY DEF getRecentlyHeard
<1>2. PICK p \in [PathSlots -> PathSlots] :
        /\ \A i, j \in PathSlots : p[i] = p[j] => i = j
        /\ advert_paths' = [i \in PathSlots |-> advert_paths[p[i]]]
  BY <1>1 DEF Permuted
<1>3. \A i \in PathSlots : /\ PrefixOf(i)' = PrefixOf(p[i])
                           /\ TimeOf(i)' = TimeOf(p[i])
  BY <1>2 DEF PrefixOf, TimeOf
<1>4. \A k \in PathSlots : \E i \in PathSlots : p[i] = k
  <2>1. p \in Injection(PathSlots, PathSlots)
    BY <1>2 DEF Injection, IsInjective
  <2>2. p \in Surjection(PathSlots, PathSlots)
    BY <2>1, Slots, FS_Injection
  <2> QED BY <2>2 DEF Surjection
<1>5. PathTypes'
  BY <1>1, <1>2 DEF PathTypes
<1>6. HeardOnce'
  BY <1>2, <1>3 DEF HeardOnce
<1>7. HeardBefore'
  BY <1>1, <1>3 DEF HeardBefore
<1>8. NewestHeardKept'
  <2> SUFFICES ASSUME NEW q \in KeyPrefixes
               PROVE  /\ \A j \in PathSlots :
                           PrefixOf(j)' = q => TimeOf(j)' = lastHeard[q]
                      /\ (\A j \in PathSlots : PrefixOf(j)' # q) =>
                           \A j \in PathSlots : lastHeard[q] <= TimeOf(j)'
    BY <1>1 DEF NewestHeardKept, Holding, PrefixOf, TimeOf
  <2>1. /\ \A j \in PathSlots : PrefixOf(j) = q => TimeOf(j) = lastHeard[q]
        /\ (\A j \in PathSlots : PrefixOf(j) # q) =>
             \A j \in PathSlots : lastHeard[q] <= TimeOf(j)
    BY DEF NewestHeardKept, Holding, PrefixOf, TimeOf
  <2> QED BY <1>3, <1>4, <2>1
<1> QED BY <1>5, <1>6, <1>7, <1>8

(* The comparison of two entries within half the range of the clock is the
   difference of their times. *)
LEMMA CompareWithinHalf ==
  ASSUME PathTypes, WithinHalfRange, NEW i \in PathSlots, NEW j \in PathSlots
  PROVE  sort_by_recent(advert_paths[i], advert_paths[j]) = TimeOf(j) - TimeOf(i)
<1> DEFINE n == TimeOf(j) - TimeOf(i)
<1>1. n \in Int /\ 2 * n < TimeRange /\ 2 * (TimeOf(i) - TimeOf(j)) < TimeRange
  BY Slots DEF WithinHalfRange, TimeOf
<1>2. -(2 * n) < TimeRange
  BY <1>1, Slots
<1>3. AsInt(n) = n
  BY <1>1, <1>2, AsIntWithinHalf
<1> QED BY <1>3 DEF sort_by_recent, TimeOf

(* Sorting by a comparison that is a difference is sorting by time. *)
LEMMA SortedByTime ==
  ASSUME PathTypes, WithinHalfRange, getRecentlyHeard
  PROVE  \A i, j \in PathSlots :
           i < j => advert_paths'[i].recv_timestamp
                      >= advert_paths'[j].recv_timestamp
<1>1. Consistent
  <2> SUFFICES ASSUME NEW i \in PathSlots, NEW j \in PathSlots, NEW k \in PathSlots
               PROVE  LET cmp(x, y) ==
                            sort_by_recent(advert_paths[x], advert_paths[y])
                      IN  /\ cmp(i, j) > 0 => cmp(j, i) < 0
                          /\ cmp(i, j) <= 0 /\ cmp(j, k) <= 0 => cmp(i, k) <= 0
    BY DEF Consistent
  <2>1. /\ TimeOf(i) \in Nat /\ TimeOf(j) \in Nat /\ TimeOf(k) \in Nat
    BY Slots
  <2> QED BY <2>1, CompareWithinHalf
<1>2. /\ advert_paths' \in Permuted
      /\ \A i, j \in PathSlots :
           i < j => sort_by_recent(advert_paths'[i], advert_paths'[j]) <= 0
  BY <1>1 DEF getRecentlyHeard
<1>3. PICK p \in [PathSlots -> PathSlots] :
        advert_paths' = [i \in PathSlots |-> advert_paths[p[i]]]
  BY <1>2 DEF Permuted
<1> SUFFICES ASSUME NEW i \in PathSlots, NEW j \in PathSlots, i < j
             PROVE  advert_paths'[i].recv_timestamp
                      >= advert_paths'[j].recv_timestamp
  OBVIOUS
<1>4. /\ advert_paths'[i] = advert_paths[p[i]]
      /\ advert_paths'[j] = advert_paths[p[j]]
      /\ p[i] \in PathSlots /\ p[j] \in PathSlots
  BY <1>3
<1>5. TimeOf(p[j]) - TimeOf(p[i]) <= 0
  BY <1>2, <1>4, CompareWithinHalf
<1> QED BY <1>4, <1>5, Slots DEF TimeOf

-----------------------------------------------------------------------------

(* It holds at boot, when no entry is used. *)
LEMMA PathInitIInv == PathInit => PathIInv
<1> SUFFICES ASSUME PathInit PROVE PathIInv
  OBVIOUS
<1>1. 0 \in 0..(TimeRange - 1) /\ 1 \in 0..(TimeRange - 1)
  BY AdvertPathsAssumption
<1>2. PathTypes
  BY <1>1 DEF PathInit, PathTypes, AdvertPath
<1>3. HeardOnce /\ HeardBefore /\ NewestHeardKept
  BY AdvertPathsAssumption
  DEF PathInit, HeardOnce, HeardBefore, NewestHeardKept, Holding, PrefixOf, TimeOf
<1> QED BY <1>2, <1>3 DEF PathIInv

(* No advert, request or setting of the clock breaks the invariant. *)
LEMMA PathNextIInv == PathIInv /\ [PathNext]_pathVars => PathIInv'
<1> SUFFICES ASSUME PathIInv, [PathNext]_pathVars PROVE PathIInv'
  OBVIOUS
<1>1. CASE UNCHANGED pathVars
  BY <1>1 DEF pathVars, PathIInv, PathTypes, HeardOnce, HeardBefore,
              NewestHeardKept, Holding, PrefixOf, TimeOf
<1> QED BY <1>1, SetTimeIInv, HearIInv, SortIInv DEF PathNext

(* The table is right about whom it holds, throughout. *)
THEOREM AdvertPathsInvariant == AdvertPathsSpec => []PathIInv
BY PathInitIInv, PathNextIInv, PTL DEF AdvertPathsSpec

(* A node that is not found was not heard after any that is, however the
   table was sorted before something was evicted from it. *)
THEOREM NewestNeverEvicted == AdvertPathsSpec => []NewestHeardKept
<1>1. PathIInv => NewestHeardKept
  BY DEF PathIInv
<1> QED BY <1>1, AdvertPathsInvariant, PTL

(* The table holds each node once at most, and times of the clock. *)
THEOREM AdvertPathsTypeCorrect == AdvertPathsSpec => []PathTypesOK
<1>1. PathIInv => PathTypesOK
  <2> SUFFICES ASSUME PathIInv PROVE PathTypesOK
    OBVIOUS
  <2>1. ASSUME NEW p \in KeyPrefixes
        PROVE  Cardinality(Holding(p)) <= 1
    <3>1. CASE Holding(p) = {}
      BY <3>1, FS_EmptySet
    <3>2. ASSUME NEW i \in Holding(p)
          PROVE  Cardinality(Holding(p)) <= 1
      <4>1. Holding(p) = {i}
        BY <3>2 DEF PathIInv, HeardOnce, Holding, PrefixOf
      <4>2. Cardinality({i}) = 1
        BY FS_Singleton
      <4> QED BY <4>1, <4>2
    <3> QED BY <3>1, <3>2
  <2> QED BY <2>1 DEF PathTypesOK, PathIInv, PathTypes
<1> QED BY <1>1, AdvertPathsInvariant, PTL

(* While the times of the table lie within half the range of the clock, the
   nodes heard are listed newest first: in a table with a free entry, up to
   the year 2038. *)
THEOREM ListedNewestFirst == AdvertPathsSpec => RecentFirst
<1>1. PathIInv /\ [PathNext]_pathVars =>
        [advert_paths' # advert_paths /\ getRecentlyHeard /\ WithinHalfRange =>
           \A i, j \in PathSlots :
             i < j => advert_paths'[i].recv_timestamp
                        >= advert_paths'[j].recv_timestamp]_pathVars
  BY SortedByTime DEF PathIInv
<1> QED BY <1>1, AdvertPathsInvariant, PTL DEF AdvertPathsSpec, RecentFirst

-----------------------------------------------------------------------------
(***************************************************************************)
(* Signing, for every length of the buffer and of a part and every set of  *)
(* bytes: the buffer, its length and the three commands implement the      *)
(* abstract signer.  The message under way is the first sign_data_len      *)
(* bytes of the buffer; a part that is copied behind them makes the        *)
(* concatenation, and a fresh buffer the empty message.                    *)
(***************************************************************************)

SignSpec == SignInit /\ [][SignNext]_signVars

Content == Bytes \union {Junk}

Buffer == [1..MAX_SIGN_DATA_LEN -> Content]

Copied == SubSeq(sign_data, 1, sign_data_len)

-----------------------------------------------------------------------------
\* The buffer as a sequence.

(* A buffer is a sequence of its length, and not the null pointer. *)
LEMMA BufferIsSeq ==
  ASSUME NEW buffer \in Buffer
  PROVE  /\ buffer \in Seq(Content)
         /\ Len(buffer) = MAX_SIGN_DATA_LEN
         /\ buffer # <<>>
<1>1. MAX_SIGN_DATA_LEN \in Nat /\ MAX_SIGN_DATA_LEN > 0
  BY SignSessionAssumption
<1>2. buffer \in Seq(Content)
  BY <1>1, SeqDef DEF Buffer
<1>3. Len(buffer) = MAX_SIGN_DATA_LEN
  BY <1>1, <1>2, LenProperties DEF Buffer
<1> QED BY <1>1, <1>2, <1>3, EmptySeq

(* A part is a sequence of at least one byte. *)
LEMMA PartIsSeq ==
  ASSUME NEW part \in Parts
  PROVE  /\ part \in Seq(Content)
         /\ Len(part) \in 1..MaxPart
         /\ DOMAIN part = 1..Len(part)
<1>1. PICK n \in 1..MaxPart : part \in [1..n -> Bytes]
  BY DEF Parts
<1>2. n \in Nat
  BY SignSessionAssumption
<1>3. part \in [1..n -> Content]
  BY <1>1 DEF Content
<1>4. part \in Seq(Content)
  BY <1>2, <1>3, SeqDef
<1>5. Len(part) = n
  BY <1>1, <1>2, <1>4, LenProperties
<1> QED BY <1>1, <1>2, <1>4, <1>5, LenProperties

(* What has been copied is that many bytes of the buffer, and a message. *)
LEMMA CopiedBytes ==
  ASSUME NEW buffer \in Buffer, NEW n \in 0..MAX_SIGN_DATA_LEN
  PROVE  /\ SubSeq(buffer, 1, n) \in Seq(Content)
         /\ Len(SubSeq(buffer, 1, n)) = n
         /\ \A i \in 1..n : SubSeq(buffer, 1, n)[i] = buffer[i]
         /\ SubSeq(buffer, 1, n) # NoMessage
<1>1. n \in Int /\ \A i \in 1..n : buffer[i] \in Content
  BY SignSessionAssumption DEF Buffer
<1>2. /\ SubSeq(buffer, 1, n) \in Seq(Content)
      /\ Len(SubSeq(buffer, 1, n)) = n
      /\ \A i \in 1..n : SubSeq(buffer, 1, n)[i] = buffer[i]
  <2>1. /\ SubSeq(buffer, 1, n) \in Seq(Content)
        /\ Len(SubSeq(buffer, 1, n)) = IF 1 <= n THEN n - 1 + 1 ELSE 0
        /\ \A i \in 1..(n - 1 + 1) : SubSeq(buffer, 1, n)[i] = buffer[1 + i - 1]
    BY <1>1, SubSeqProperties
  <2> QED BY <2>1, SignSessionAssumption
<1>3. SubSeq(buffer, 1, n) \in [1..n -> Content]
  BY <1>2, LenProperties
<1> QED BY <1>2, <1>3, SignSessionAssumption DEF Content

-----------------------------------------------------------------------------
\* The commands.

(* START frees the buffer and allocates another, or fails to. *)
LEMMA StartStep ==
  ASSUME CmdSignStart
  PROVE  SignTypesOK' /\ (Signing!Begin \/ Signing!BeginRefused)
<1>1. FreshBuffer \in Buffer /\ 0 \in 0..MAX_SIGN_DATA_LEN
  BY SignSessionAssumption DEF FreshBuffer, Buffer, Content
<1>2. FreshBuffer # <<>> /\ SubSeq(FreshBuffer, 1, 0) = <<>>
  BY <1>1, BufferIsSeq, SubSeqEmpty
<1>3. SignTypesOK'
  BY <1>1 DEF CmdSignStart, SignTypesOK, Buffer, Content
<1> QED BY <1>2, <1>3 DEF CmdSignStart, Signing!Begin, Signing!BeginRefused

(* DATA copies a part behind what is there, which appends it to the message:
   byte by byte, what was copied before stays and the part follows. *)
LEMMA DataStep ==
  ASSUME SignTypesOK, NEW part \in Parts, CmdSignData(part)
  PROVE  SignTypesOK' /\ Signing!Add(part)
<1> DEFINE m == sign_data_len
           n == m + Len(part)
<1>1. /\ sign_data \in Buffer /\ sign_data # <<>>
      /\ m \in 0..MAX_SIGN_DATA_LEN
      /\ n \in 0..MAX_SIGN_DATA_LEN /\ m <= n
  BY PartIsSeq, SignSessionAssumption
  DEF CmdSignData, SignTypesOK, Buffer, Content
<1>2. /\ sign_data' \in Buffer
      /\ \A i \in 1..m : sign_data'[i] = sign_data[i]
      /\ \A i \in (m + 1)..n : sign_data'[i] = part[i - m]
  <2>1. \A k \in DOMAIN part : part[k] \in Content
    BY PartIsSeq, ElementOfSeq
  <2>2. sign_data' = [i \in 1..MAX_SIGN_DATA_LEN |->
                        IF i - m \in DOMAIN part THEN part[i - m]
                                                 ELSE sign_data[i]]
    BY DEF CmdSignData
  <2> QED BY <1>1, <2>1, <2>2, PartIsSeq, SignSessionAssumption DEF Buffer
<1>3. SignTypesOK'
  BY <1>1, <1>2 DEF CmdSignData, SignTypesOK, Buffer, Content
<1>4. SubSeq(sign_data', 1, n) = Copied \o part
  <2>1. Copied \o part \in Seq(Content) /\ Len(Copied \o part) = n
    BY <1>1, CopiedBytes, PartIsSeq, ConcatProperties DEF Copied
  <2>2. ASSUME NEW i \in 1..n
        PROVE  SubSeq(sign_data', 1, n)[i] = (Copied \o part)[i]
    <3>1. SubSeq(sign_data', 1, n)[i] = sign_data'[i]
      BY <1>1, <1>2, CopiedBytes
    <3>2. (Copied \o part)[i] = IF i <= m THEN Copied[i] ELSE part[i - m]
      BY <1>1, CopiedBytes, PartIsSeq, ConcatProperties DEF Copied
    <3>3. i <= m => Copied[i] = sign_data[i]
      BY <1>1, CopiedBytes, SignSessionAssumption DEF Copied
    <3> QED BY <1>1, <1>2, <3>1, <3>2, <3>3, SignSessionAssumption
  <2>3. /\ SubSeq(sign_data', 1, n) \in Seq(Content)
        /\ Len(SubSeq(sign_data', 1, n)) = n
    BY <1>1, <1>2, CopiedBytes
  <2> QED BY <2>1, <2>2, <2>3, SeqEqual
<1>5. Copied # NoMessage /\ Len(Copied) = m
  BY <1>1, CopiedBytes DEF Copied
<1>6. sign_data' # <<>> /\ sign_data_len' = n
  BY <1>2, BufferIsSeq DEF CmdSignData
<1> QED
  BY <1>1, <1>3, <1>4, <1>5, <1>6 DEF CmdSignData, Copied, Signing!Add

(* FINISH signs the bytes copied, no more and no fewer. *)
LEMMA FinishStep ==
  ASSUME SignTypesOK, CmdSignFinish
  PROVE  SignTypesOK' /\ Signing!Sign
<1>1. sign_data \in Buffer /\ sign_data # <<>>
  BY DEF CmdSignFinish, SignTypesOK, Buffer, Content
<1>2. Copied # NoMessage
  BY <1>1, CopiedBytes DEF Copied, SignTypesOK
<1> QED BY <1>1, <1>2 DEF CmdSignFinish, SignTypesOK, Copied, Signing!Sign

-----------------------------------------------------------------------------

(* Every command keeps the types and is a step of the abstract signer. *)
LEMMA SignStep ==
  ASSUME SignTypesOK, [SignNext]_signVars
  PROVE  SignTypesOK' /\ [Signing!SignerNext]_(Signing!signerVars)
<1>1. CASE CmdSignStart
  BY <1>1, StartStep DEF Signing!SignerNext
<1>2. ASSUME NEW part \in Parts, CmdSignData(part)
      PROVE  SignTypesOK' /\ Signing!SignerNext
  BY <1>2, DataStep DEF Signing!SignerNext
<1>3. CASE CmdSignFinish
  BY <1>3, FinishStep DEF Signing!SignerNext
<1>4. CASE UNCHANGED signVars
  BY <1>4 DEF signVars, SignTypesOK, Signing!signerVars
<1> QED BY <1>1, <1>2, <1>3, <1>4 DEF SignNext

(* After boot there is no buffer, and the abstract signer has no message. *)
LEMMA SignInitTypes == SignInit => SignTypesOK /\ Signing!SignerInit
  BY SignSessionAssumption DEF SignInit, SignTypesOK, Signing!SignerInit

(* The buffer is a buffer or null, and its length never exceeds its size:
   no part is copied past the end. *)
THEOREM SignTypeCorrect == SignSpec => []SignTypesOK
<1>1. SignTypesOK /\ [SignNext]_signVars => SignTypesOK'
  BY SignStep
<1> QED BY SignInitTypes, <1>1, PTL DEF SignSpec

(* What is signed is what the app sent since the last START: see
   ImplementsSigner. *)
THEOREM SignSessionImplementsSigner == SignSpec => ImplementsSigner
<1>1. SignTypesOK /\ [SignNext]_signVars
        => [Signing!SignerNext]_(Signing!signerVars)
  BY SignStep
<1> QED BY SignInitTypes, <1>1, SignTypeCorrect, PTL
        DEF SignSpec, ImplementsSigner, Signing!SignerSpec

-----------------------------------------------------------------------------
(***************************************************************************)
(* Sending, for every size of the pool and all settings: no packet of the  *)
(* pool is lost, and the handlers implement the promise of Airwaves.       *)
(* Every handler either queues one packet, answers and changes nothing, or *)
(* changes a setting; what has to be shown of each is that the packet it   *)
(* queues is one that the settings in force at that moment allow.          *)
(***************************************************************************)

SendSpec == SendInit /\ [][SendNext]_sendVars

(* Every packet is either free or queued. *)
PoolKept == free + outbound = PacketPool

SendIInv ==
  /\ SendTypesOK
  /\ contactFlags \in [Contacts -> SUBSET TelemetryKinds]
  /\ send_unscoped \in BOOLEAN
  /\ PoolKept

-----------------------------------------------------------------------------
\* The steps the handlers are built from.

(* The effective scope of a flood is a key. *)
LEMMA FloodScopeKey ==
  ASSUME SendTypesOK
  PROVE  FloodScope \in Key
  BY DEF SendTypesOK, FloodScope, Key

(* A packet that the settings allow is queued as Airwaves puts one. *)
LEMMA QueueAir ==
  ASSUME NEW p \in Packets, NEW result \in {"sent", "nothing"},
         Air!Allowed(p), Queue(p, result)
  PROVE  Air!AirNext
<1>1. newest' = p /\ answer' = result /\ p # NoPacket
  BY SendingAssumption DEF Queue
<1>2. Air!Put(p)
  BY DEF Queue, ruleVars, scopeVars, Air!Put, OfMode
<1> QED BY <1>1, <1>2 DEF Air!AirNext, Air!Asked, Air!Unasked

(* A refusal, or nothing to do. *)
LEMMA AnswerAir ==
  ASSUME NEW result \in {"error", "nothing"}, Answer(result)
  PROVE  Air!AirNext
  BY DEF Answer, ruleVars, scopeVars, OfMode, Air!AirNext, Air!NothingPut,
         Air!Refused, Air!Idle

(* A command that sends a packet or reports an empty pool. *)
LEMMA SendOrFailAir ==
  ASSUME NEW p \in Packets, Air!Allowed(p), SendOrFail(p)
  PROVE  Air!AirNext
  BY QueueAir, AnswerAir DEF SendOrFail

(* A setting changes and nothing is sent. *)
LEMMA SettingAir ==
  ASSUME newest' = NoPacket, answer' = "ok", UNCHANGED <<free, outbound>>
  PROVE  Air!AirNext
  BY DEF Air!AirNext, Air!NothingPut, Air!Changed

(* A packet of a kind without conditions that tells nothing of the node, by a
   direct route without a scope or as a flood with the chosen one. *)
LEMMA PlainAllowed ==
  ASSUME SendTypesOK, NEW kind \in {"message", "shared", "raw", "trace", "control"}
  PROVE  /\ Direct(kind) \in Packets /\ Air!Allowed(Direct(kind))
         /\ ZeroHop(kind) \in Packets /\ Air!Allowed(ZeroHop(kind))
<1>1. NullKey \in Key
  BY DEF Key
<1> QED BY <1>1 DEF Direct, ZeroHop, Packet, Packets, Air!Allowed

(* What is meant by the scope the app chose is the scope of a flood. *)
LEMMA ChosenScope ==
  ASSUME SendTypesOK
  PROVE  Air!ScopeChosen = FloodScope
  BY SendingAssumption DEF SendTypesOK, Air!ScopeChosen, FloodScope, Key

(* A flood that tells nothing of the node has the scope the app chose. *)
LEMMA FloodAllowed ==
  ASSUME SendTypesOK
  PROVE  ByFlood("message") \in Packets /\ Air!Allowed(ByFlood("message"))
  BY FloodScopeKey, ChosenScope DEF ByFlood, Packet, Packets, Air!Allowed

(* An advert has the default scope, and the position if the settings say so. *)
LEMMA AdvertAllowed ==
  ASSUME SendTypesOK
  PROVE  LET flooded == Packet("advert", "flood", default_scope_key, OwnPosition)
             near == Packet("advert", "zero hop", NullKey, OwnPosition)
         IN  /\ flooded \in Packets /\ Air!Allowed(flooded)
             /\ near \in Packets /\ Air!Allowed(near)
  BY DEF SendTypesOK, Packet, Packets, OwnPosition, Key, Air!Allowed

(* A contact is told what is open to all or granted to it. *)
LEMMA PermissionsAllowed ==
  ASSUME NEW contact \in Contacts, NEW inverse \in SUBSET TelemetryKinds
  PROVE  /\ Permissions(contact, inverse) \subseteq TelemetryKinds
         /\ Permissions(contact, inverse) \subseteq Air!MayTell(contact)
  BY DEF Permissions, Air!MayTell, OfMode

-----------------------------------------------------------------------------
\* One lemma for each group of handlers.

(* Commands that set a scope or a rule send nothing. *)
LEMMA SettingSteps ==
  ASSUME \/ \E key \in Key : CmdSetFloodScopeKey(key)
         \/ CmdSetFloodUnscoped \/ CmdSetRule
  PROVE  Air!AirNext
<1>1. newest' = NoPacket /\ answer' = "ok" /\ UNCHANGED <<free, outbound>>
  BY DEF CmdSetFloodScopeKey, CmdSetFloodUnscoped, CmdSetRule
<1> QED BY <1>1, SettingAir

(* Messages and requests to contacts and channels: by a known path without
   a scope, or as a flood with the one the app chose. *)
LEMMA MessageSteps ==
  ASSUME SendTypesOK, NEW a \in BOOLEAN, NEW b \in BOOLEAN,
         NEW path \in {"invalid", "flood", "known"},
         \/ SendToContact \/ CmdSendChannelTxt(a, b) \/ CmdSendChannelData(path, a)
  PROVE  Air!AirNext
<1>1. CASE SendToContact
  BY <1>1, SendOrFailAir, PlainAllowed, FloodAllowed DEF SendToContact
<1>2. CASE CmdSendChannelTxt(a, b)
  BY <1>2, SendOrFailAir, FloodAllowed, AnswerAir DEF CmdSendChannelTxt
<1>3. CASE CmdSendChannelData(path, a)
  BY <1>3, SendOrFailAir, PlainAllowed, FloodAllowed, AnswerAir
  DEF CmdSendChannelData
<1> QED BY <1>1, <1>2, <1>3

(* Adverts of the node and of others, by a command or by the boot's timer. *)
LEMMA AdvertSteps ==
  ASSUME SendTypesOK, NEW a \in BOOLEAN, NEW b \in BOOLEAN,
         \/ CmdSendSelfAdvert(a) \/ CmdExportContact(a, b)
         \/ CmdShareContact(a, b) \/ advert
  PROVE  Air!AirNext
<1>1. CASE CmdSendSelfAdvert(a)
  BY <1>1, SendOrFailAir, AdvertAllowed DEF CmdSendSelfAdvert
<1>2. CASE CmdExportContact(a, b)
  BY <1>2, AnswerAir DEF CmdExportContact
<1>3. CASE CmdShareContact(a, b)
  BY <1>3, SendOrFailAir, PlainAllowed, AnswerAir DEF CmdShareContact
<1>4. CASE advert
  BY <1>4, QueueAir, AdvertAllowed, AnswerAir DEF advert
<1> QED BY <1>1, <1>2, <1>3, <1>4

(* Packets the app puts together itself, and the refusals. *)
LEMMA RawSteps ==
  ASSUME SendTypesOK, NEW a \in BOOLEAN, NEW path_len, NEW len, NEW path_sz,
         \/ CmdSendRawPacket(a) \/ CmdSendRawData(path_len, len)
         \/ CmdSendTracePath(path_len, path_sz) \/ CmdSendControlData
  PROVE  Air!AirNext
<1>1. CASE CmdSendRawPacket(a)
  BY <1>1, SendOrFailAir, PlainAllowed, AnswerAir DEF CmdSendRawPacket
<1>2. CASE CmdSendRawData(path_len, len)
  BY <1>2, SendOrFailAir, PlainAllowed, AnswerAir DEF CmdSendRawData
<1>3. CASE CmdSendTracePath(path_len, path_sz)
  BY <1>3, SendOrFailAir, PlainAllowed, AnswerAir DEF CmdSendTracePath
<1>4. CASE CmdSendControlData
  BY <1>4, SendOrFailAir, PlainAllowed DEF CmdSendControlData
<1> QED BY <1>1, <1>2, <1>3, <1>4

(* The answer to a request tells the requester what the settings permit. *)
LEMMA RequestStep ==
  ASSUME SendTypesOK, NEW c \in Contacts, NEW inverse \in SUBSET TelemetryKinds,
         onContactRequest(c, inverse)
  PROVE  Air!AirNext
<1> DEFINE tells == Permissions(c, inverse)
           reply(route, scope) ==
             [kind |-> "telemetry", tells |-> tells, to |-> c,
              route |-> route, scope |-> scope]
<1>1. tells \subseteq TelemetryKinds /\ tells \subseteq Air!MayTell(c)
  BY PermissionsAllowed
<1>2. CASE "base" \in tells
  <2>1. /\ reply("direct", NullKey) \in Packets
        /\ reply("flood", FloodScope) \in Packets
    BY <1>1, FloodScopeKey DEF Packets, Key
  <2>2. /\ Air!Allowed(reply("direct", NullKey))
        /\ Air!Allowed(reply("flood", FloodScope))
    BY <1>1, <1>2, ChosenScope DEF Air!Allowed
  <2>3. \/ Queue(reply("direct", NullKey), "nothing")
        \/ Queue(reply("flood", FloodScope), "nothing")
        \/ Answer("nothing")
    BY <1>2, Zenon DEF onContactRequest
  <2> QED BY <2>1, <2>2, <2>3, QueueAir, AnswerAir
<1>3. CASE "base" \notin tells
  BY <1>3, AnswerAir DEF onContactRequest
<1> QED BY <1>2, <1>3

(* A flood is relayed only while the settings say so. *)
LEMMA RelayStep ==
  ASSUME onFloodHeard
  PROVE  Air!AirNext
<1> DEFINE relay == Packet("relay", "flood", NullKey, {})
<1>1. relay \in Packets /\ (repeatEn => Air!Allowed(relay))
  BY DEF Packet, Packets, Key, Air!Allowed
<1> QED BY <1>1, QueueAir, AnswerAir DEF onFloodHeard

(* A packet that was transmitted goes back to the pool. *)
LEMMA TransmitStep ==
  ASSUME Transmit
  PROVE  Air!AirNext
  BY DEF Transmit, ruleVars, scopeVars, OfMode, Air!AirNext, Air!NothingPut,
         Air!Left

-----------------------------------------------------------------------------

(* Every step of the module is one that Airwaves allows. *)
LEMMA SendStep ==
  ASSUME SendIInv, SendNext
  PROVE  Air!AirNext
<1> USE DEF SendIInv
<1>1. CASE SendCommand
  BY <1>1, SettingSteps, MessageSteps, AdvertSteps, RawSteps DEF SendCommand
<1>2. CASE \E c \in Contacts, inverse \in SUBSET TelemetryKinds :
             onContactRequest(c, inverse)
  BY <1>2, RequestStep
<1>3. CASE onFloodHeard
  BY <1>3, RelayStep
<1>4. CASE advert
  BY <1>4, AdvertSteps
<1>5. CASE Transmit
  BY <1>5, TransmitStep
<1> QED BY <1>1, <1>2, <1>3, <1>4, <1>5 DEF SendNext

(* The invariant holds at the start. *)
LEMMA SendInitIInv == SendInit => SendIInv
<1> SUFFICES ASSUME SendInit PROVE SendIInv
  OBVIOUS
<1>1. PoolKept /\ free \in 0..PacketPool /\ outbound \in 0..PacketPool
  BY SendingAssumption DEF SendInit, PoolKept
<1>2. {default_scope_key, send_scope} \subseteq Key
  BY DEF SendInit, Key
<1> QED BY <1>1, <1>2 DEF SendInit, SendIInv, SendTypesOK

(* Queueing moves a packet from the free ones to the queued ones. *)
LEMMA QueueIInv ==
  ASSUME SendIInv, NEW p, NEW result, Queue(p, result)
  PROVE  SendIInv'
  BY SendingAssumption
  DEF SendIInv, SendTypesOK, PoolKept, Queue, ruleVars, scopeVars

(* An answer leaves pool and settings alone. *)
LEMMA AnswerIInv ==
  ASSUME SendIInv, NEW result, Answer(result)
  PROVE  SendIInv'
  BY DEF SendIInv, SendTypesOK, PoolKept, Answer, ruleVars, scopeVars

(* A command either queues one free packet or reports that there is none. *)
LEMMA SendOrFailIInv ==
  ASSUME SendIInv, NEW p, SendOrFail(p)
  PROVE  SendIInv'
  BY QueueIInv, AnswerIInv DEF SendOrFail

(* A new setting is of its kind, and the pool stays as it is. *)
LEMMA SettingIInv ==
  ASSUME SendIInv,
         \/ \E key \in Key : CmdSetFloodScopeKey(key)
         \/ CmdSetFloodUnscoped \/ CmdSetRule
  PROVE  SendIInv'
<1> USE DEF SendIInv, SendTypesOK, PoolKept
<1>1. CASE \E key \in Key : CmdSetFloodScopeKey(key)
  BY <1>1 DEF CmdSetFloodScopeKey
<1>2. CASE CmdSetFloodUnscoped
  BY <1>2 DEF CmdSetFloodUnscoped
<1>3. CASE CmdSetRule
  BY <1>3 DEF CmdSetRule
<1> QED BY <1>1, <1>2, <1>3

(* A command queues a packet, answers, or changes a setting. *)
LEMMA CommandIInv ==
  ASSUME SendIInv, SendCommand
  PROVE  SendIInv'
<1>1. CASE \/ \E key \in Key : CmdSetFloodScopeKey(key)
           \/ CmdSetFloodUnscoped \/ CmdSetRule
  BY <1>1, SettingIInv
<1>2. CASE SendToContact \/ CmdSendControlData
  BY <1>2, SendOrFailIInv DEF SendToContact, CmdSendControlData
<1>3. ASSUME NEW a \in BOOLEAN, NEW b \in BOOLEAN,
             \/ CmdSendChannelTxt(a, b) \/ CmdSendSelfAdvert(a)
             \/ CmdExportContact(a, b) \/ CmdShareContact(a, b)
             \/ CmdSendRawPacket(a)
      PROVE  SendIInv'
  BY <1>3, SendOrFailIInv, AnswerIInv
  DEF CmdSendChannelTxt, CmdSendSelfAdvert, CmdExportContact,
      CmdShareContact, CmdSendRawPacket
<1>4. ASSUME NEW path, NEW fault, CmdSendChannelData(path, fault)
      PROVE  SendIInv'
  BY <1>4, SendOrFailIInv, AnswerIInv DEF CmdSendChannelData
<1>5. ASSUME NEW path_len, NEW len, CmdSendRawData(path_len, len)
      PROVE  SendIInv'
  BY <1>5, SendOrFailIInv, AnswerIInv DEF CmdSendRawData
<1>6. ASSUME NEW path_len, NEW path_sz, CmdSendTracePath(path_len, path_sz)
      PROVE  SendIInv'
  BY <1>6, SendOrFailIInv, AnswerIInv DEF CmdSendTracePath
<1> QED BY <1>1, <1>2, <1>3, <1>4, <1>5, <1>6 DEF SendCommand

(* No step of a command, the radio or the super-loop breaks the invariant. *)
LEMMA SendStepIInv ==
  ASSUME SendIInv, [SendNext]_sendVars
  PROVE  SendIInv'
<1>1. CASE SendCommand
  BY <1>1, CommandIInv
<1>2. ASSUME NEW c \in Contacts, NEW inverse \in SUBSET TelemetryKinds,
             onContactRequest(c, inverse)
      PROVE  SendIInv'
  <2>1. \E p : Queue(p, "nothing") \/ Answer("nothing")
    BY <1>2, Zenon DEF onContactRequest
  <2> QED BY <2>1, QueueIInv, AnswerIInv
<1>3. CASE onFloodHeard \/ advert
  BY <1>3, QueueIInv, AnswerIInv DEF onFloodHeard, advert
<1>4. CASE Transmit
  BY <1>4, SendingAssumption
  DEF Transmit, SendIInv, SendTypesOK, PoolKept, ruleVars, scopeVars
<1>5. CASE UNCHANGED sendVars
  BY <1>5 DEF sendVars, ruleVars, scopeVars, SendIInv, SendTypesOK, PoolKept
<1> QED BY <1>1, <1>2, <1>3, <1>4, <1>5 DEF SendNext

-----------------------------------------------------------------------------

(* The settings are of their kinds, and no handler loses or doubles a packet
   of the pool: those free and those queued are always all of them. *)
THEOREM PoolInvariant == SendSpec => []SendIInv
<1>1. SendIInv /\ [SendNext]_sendVars => SendIInv'
  BY SendStepIInv
<1> QED BY SendInitIInv, <1>1, PTL DEF SendSpec

(* Settings, packets and scopes stay within their kinds. *)
THEOREM SendingTypeCorrect == SendSpec => []SendTypesOK
<1>1. SendIInv => SendTypesOK
  BY DEF SendIInv
<1> QED BY <1>1, PoolInvariant, PTL

(* What the commands, requests and floods put on the air is what Airwaves
   promises: see ImplementsAirwaves. *)
THEOREM SendingImplementsAirwaves == SendSpec => ImplementsAirwaves
<1>1. SendInit => Air!AirInit
  BY DEF SendInit, Air!AirInit
<1>2. SendIInv /\ [SendNext]_sendVars => [Air!AirNext]_(Air!airVars)
  <2> SUFFICES ASSUME SendIInv, [SendNext]_sendVars
               PROVE  [Air!AirNext]_(Air!airVars)
    OBVIOUS
  <2>1. CASE SendNext
    BY <2>1, SendStep
  <2>2. CASE UNCHANGED sendVars
    BY <2>2 DEF sendVars, ruleVars, scopeVars, OfMode, Air!airVars
  <2> QED BY <2>1, <2>2
<1> QED BY <1>1, <1>2, PoolInvariant, PTL
        DEF SendSpec, ImplementsAirwaves, Air!AirSpec

-----------------------------------------------------------------------------
(***************************************************************************)
(* The parts together.                                                     *)
(***************************************************************************)

(* A step of the whole is a step of one part, and none of the others. *)
LEMMA StepsOfParts ==
  ASSUME [Next]_allVars
  PROVE  /\ [SyncNextStep]_syncVars /\ [SignNext]_signVars
         /\ [PathNext]_pathVars /\ [SendNext]_sendVars
<1>1. CASE Next
  BY <1>1 DEF Next
<1>2. CASE UNCHANGED allVars
  BY <1>2 DEF allVars
<1> QED BY <1>1, <1>2

(* Whichever part is exercised, each runs as it does by itself, so that the
   theorems about the parts hold in every behaviour of the whole. *)
THEOREM PartsRunAsByThemselves ==
  Spec => ContactSyncSpec /\ SignSpec /\ AdvertPathsSpec /\ SendSpec
<1>1. Init => SyncInit /\ SignInit /\ PathInit /\ SendInit
  BY DEF Init
<1>2. [Next]_allVars => /\ [SyncNextStep]_syncVars /\ [SignNext]_signVars
                        /\ [PathNext]_pathVars /\ [SendNext]_sendVars
  BY StepsOfParts
<1> QED BY <1>1, <1>2, PTL
        DEF Spec, ContactSyncSpec, SignSpec, AdvertPathsSpec, SendSpec

(* The tables, buffers and histories behind the app's commands hold what
   they may: no key or node twice, no index past its array, no length past
   its buffer, no packet beyond the pool. *)
THEOREM AppCommandsTypeCorrect == Spec => []TypesOK
<1>1. SyncTypesOK /\ SignTypesOK /\ PathTypesOK /\ SendTypesOK => TypesOK
  BY DEF TypesOK
<1> QED BY <1>1, PartsRunAsByThemselves, ContactSyncTypeCorrect,
           SignTypeCorrect, AdvertPathsTypeCorrect, SendingTypeCorrect, PTL

=============================================================================
