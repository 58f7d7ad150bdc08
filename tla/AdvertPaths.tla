---------------------------- MODULE AdvertPaths ----------------------------
(***************************************************************************)
(* The paths by which adverts were heard last (src/MyMesh.cpp:             *)
(* onDiscoveredContact, sort_by_recent, getRecentlyHeard,                  *)
(* CMD_GET_ADVERT_PATH, CMD_SET_DEVICE_TIME): a fixed table whose oldest   *)
(* entry gives way, and which is sorted in place by a comparison that      *)
(* casts a difference of unsigned times to int.  An entry not used yet     *)
(* holds the prefix and the time 0.                                        *)
(***************************************************************************)
EXTENDS Integers, FiniteSets, Sequences

CONSTANTS
  KeyPrefixes,              \* the first seven bytes of public keys
  NoPrefix,                 \* the prefix of an entry not used yet
  ADVERT_PATH_TABLE_SIZE,   \* entries of the table
  TimeRange                 \* 2^32: times are below it

ASSUME AdvertPathsAssumption ==
  /\ NoPrefix \notin KeyPrefixes
  /\ ADVERT_PATH_TABLE_SIZE \in Nat \ {0}
  /\ TimeRange \in Nat /\ TimeRange % 2 = 0 /\ TimeRange > 0

VARIABLES
  advert_paths,   \* the table
  currentTime,    \* the real-time clock
  lastHeard       \* history: when each prefix was heard last, 0 for never

pathVars == <<advert_paths, currentTime, lastHeard>>

PathSlots == 1..ADVERT_PATH_TABLE_SIZE
AdvertPath == [pubkey_prefix : KeyPrefixes \union {NoPrefix},
               recv_timestamp : 0..(TimeRange - 1)]

\* Time passes or CMD_SET_DEVICE_TIME: the clock is never set back.
SetTime(secs) ==
  /\ secs > currentTime
  /\ currentTime' = secs
  /\ UNCHANGED <<advert_paths, lastHeard>>

-----------------------------------------------------------------------------
\* Hearing an advert.

Holding(prefix) ==
  {i \in PathSlots : advert_paths[i].pubkey_prefix = prefix}

\* Variant: the first of the newest entries.
VictimNewest ==
  CHOOSE i \in PathSlots :
    \A j \in PathSlots :
      \/ advert_paths[j].recv_timestamp < advert_paths[i].recv_timestamp
      \/ advert_paths[j].recv_timestamp = advert_paths[i].recv_timestamp
           /\ i <= j

\* The first of the oldest entries; `oldest' starts at the largest time, so
\* the search finds none, and takes the first, when all have that time.
Victim ==
  CHOOSE i \in PathSlots :
    \A j \in PathSlots :
      \/ advert_paths[i].recv_timestamp < advert_paths[j].recv_timestamp
      \/ advert_paths[i].recv_timestamp = advert_paths[j].recv_timestamp
           /\ i <= j

\* Variant: an advert always takes the oldest entry.
HearAdvertAppending(prefix) ==
  /\ advert_paths' = [advert_paths EXCEPT ![Victim] =
       [pubkey_prefix |-> prefix, recv_timestamp |-> currentTime]]
  /\ lastHeard' = [lastHeard EXCEPT ![prefix] = currentTime]
  /\ UNCHANGED currentTime

\* With a valid path; without one only the app is told.
HearAdvert(prefix) ==
  LET i == IF Holding(prefix) = {} THEN Victim
           ELSE CHOOSE i \in Holding(prefix) : \A j \in Holding(prefix) : i <= j
  IN
  /\ advert_paths' = [advert_paths EXCEPT ![i] =
       [pubkey_prefix |-> prefix, recv_timestamp |-> currentTime]]
  /\ lastHeard' = [lastHeard EXCEPT ![prefix] = currentTime]
  /\ UNCHANGED currentTime

-----------------------------------------------------------------------------
\* Sorting.

\* A difference of unsigned times as the int of the same bits.
AsInt(n) ==
  LET m == n % TimeRange IN IF 2 * m >= TimeRange THEN m - TimeRange ELSE m

\* Variant: oldest first.
SortByOldest(a, b) == AsInt(a.recv_timestamp - b.recv_timestamp)

sort_by_recent(a, b) == AsInt(b.recv_timestamp - a.recv_timestamp)

Permuted ==
  {[i \in PathSlots |-> advert_paths[p[i]]] :
     p \in {p \in [PathSlots -> PathSlots] :
              \A i, j \in PathSlots : p[i] = p[j] => i = j}}

\* The comparison orders the entries: it never says a before b before c and
\* c before a.  qsort of anything else may leave any order.
Consistent ==
  \A i, j, k \in PathSlots :
    LET cmp(x, y) == sort_by_recent(advert_paths[x], advert_paths[y]) IN
    /\ cmp(i, j) > 0 => cmp(j, i) < 0
    /\ cmp(i, j) <= 0 /\ cmp(j, k) <= 0 => cmp(i, k) <= 0

getRecentlyHeard ==
  /\ advert_paths' \in
       IF Consistent
       THEN {t \in Permuted : \A i, j \in PathSlots :
                                i < j => sort_by_recent(t[i], t[j]) <= 0}
       ELSE Permuted
  /\ UNCHANGED <<currentTime, lastHeard>>

-----------------------------------------------------------------------------

PathInit ==
  /\ advert_paths = [i \in PathSlots |->
       [pubkey_prefix |-> NoPrefix, recv_timestamp |-> 0]]
  /\ currentTime = 1
  /\ lastHeard = [p \in KeyPrefixes |-> 0]

PathNext ==
  \/ \E secs \in 0..(TimeRange - 1) : SetTime(secs)
  \/ \E prefix \in KeyPrefixes : HearAdvert(prefix)
  \/ getRecentlyHeard

-----------------------------------------------------------------------------
\* Properties.

PathTypesOK ==
  /\ advert_paths \in [PathSlots -> AdvertPath]
  /\ \A p \in KeyPrefixes : Cardinality(Holding(p)) <= 1
  /\ currentTime \in 0..(TimeRange - 1)
  /\ lastHeard \in [KeyPrefixes -> 0..(TimeRange - 1)]

(* Whatever the table was sorted and evicted through, an entry tells when its
   node was heard last, and a node that CMD_GET_ADVERT_PATH does not find was
   not heard after any node that it finds. *)
NewestHeardKept ==
  \A p \in KeyPrefixes :
    /\ \A i \in Holding(p) : advert_paths[i].recv_timestamp = lastHeard[p]
    /\ Holding(p) = {} =>
         \A i \in PathSlots : lastHeard[p] <= advert_paths[i].recv_timestamp

\* All times of the table, those of entries not used included, lie within
\* half the range of the clock: with a free entry this ends in 2038.
WithinHalfRange ==
  \A i, j \in PathSlots :
    2 * (advert_paths[i].recv_timestamp - advert_paths[j].recv_timestamp)
      < TimeRange

(* The adverts heard are listed newest first as long as their times lie
   within half the range of the clock; beyond it the comparison may turn
   round or run in a circle. *)
RecentFirst ==
  [][advert_paths' # advert_paths /\ getRecentlyHeard /\ WithinHalfRange =>
       \A i, j \in PathSlots :
         i < j => advert_paths'[i].recv_timestamp
                    >= advert_paths'[j].recv_timestamp]_pathVars

=============================================================================
