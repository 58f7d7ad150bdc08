---------------------------- MODULE ContactSync ----------------------------
(***************************************************************************)
(* How the companion app keeps its copy of the contacts (src/MyMesh.cpp:   *)
(* CMD_APP_START, CMD_GET_CONTACTS, CMD_GET_CONTACT_BY_KEY,                *)
(* checkSerialInterface, and the handlers that change a contact).  The app *)
(* asks for the contacts changed since the time it was told last; the      *)
(* node's iterator sends one contact in a pass of the super-loop, so       *)
(* commands and adverts change the array between its steps.                *)
(*                                                                         *)
(* Of a contact only the time of its change and the number of the change   *)
(* matter here.  CMD_RESET_PATH and onContactPathUpdated leave lastmod     *)
(* alone and are no change in this sense.  External: the array itself and  *)
(* its iterator (an index), the real-time clock, and the app, which adopts *)
(* the time at the end of a listing it asked for in the same session.      *)
(***************************************************************************)
EXTENDS Naturals, FiniteSets, Sequences, SequencesExt

CONSTANTS
  SyncKeys,          \* public keys
  SYNC_MAX_CONTACTS, \* MAX_CONTACTS
  SyncMaxTime,       \* bound: the last second of the clock
  SyncMaxEdits,      \* bound: changes in one behaviour
  SyncMaxSessions    \* bound: connections in one behaviour

ASSUME ContactSyncAssumption ==
  /\ SYNC_MAX_CONTACTS \in Nat \ {0}
  /\ SyncMaxTime \in Nat \ {0} /\ SyncMaxEdits \in Nat
  /\ SyncMaxSessions \in Nat

VARIABLES
  table,               \* the contacts, a sequence of [key, lastmod, rev]
  rtc,                 \* the real-time clock, in seconds
  iter,                \* _iter: the index the iterator looks at next
  iter_started,        \* _iter_started
  iter_filter_since,   \* _iter_filter_since
  most_recent_lastmod, \* _most_recent_lastmod
  link,                \* [connected, greeted: APP_START was sent, asked: a
                       \*  listing was asked for and not ended, session]
  app,                 \* [copy: the revision held of each contact, since]
  iterSession,         \* history: the session that started the listing
  late,                \* history: keys that changed too late to be seen
  ahead,               \* history: a change was dated past the clock
  edits                \* history: changes so far

syncNode == <<table, rtc, late, ahead, edits>>
syncIter == <<iter, iter_started, iter_filter_since, most_recent_lastmod,
              iterSession>>
syncVars == <<syncNode, syncIter, link, app>>

SyncPosition(key) == CHOOSE i \in DOMAIN table : table[i].key = key
SyncKnown == {table[i].key : i \in DOMAIN table}

-----------------------------------------------------------------------------
\* Changes of the table.

\* The contact at index i comes to be `entry'.  It is late if the running
\* listing is past it, or if its time is the very second of the app's `since'.
Put(i, entry) ==
  /\ edits < SyncMaxEdits
  /\ edits' = edits + 1
  /\ table' = IF i \in DOMAIN table THEN [table EXCEPT ![i] = entry]
                                    ELSE Append(table, entry)
  /\ late' = IF (iter_started /\ i < iter) \/ entry.lastmod = app.since
             THEN late \union {entry.key} ELSE late \ {entry.key}

Entry(key, lastmod) == [key |-> key, lastmod |-> lastmod, rev |-> edits + 1]

\* Where a contact goes: its place, the end, or over any other when full.
PlacesFor(key) ==
  IF key \in SyncKnown THEN {SyncPosition(key)}
  ELSE IF Len(table) < SYNC_MAX_CONTACTS THEN {Len(table) + 1}
  ELSE DOMAIN table

\* onContactOverwrite: a connected app hears that its contact was deleted.
Overwritten(i, key) ==
  {table[j].key : j \in {j \in DOMAIN table : j = i /\ table[j].key # key}}

Told(copy, gone) == [k \in SyncKeys |-> IF k \in gone THEN 0 ELSE copy[k]]

\* An advert heard, or a contact imported: the base class dates the contact.
SyncHeard(key) ==
  \E i \in PlacesFor(key) :
    /\ Put(i, Entry(key, rtc))
    /\ app' = IF link.connected
              THEN [app EXCEPT !.copy = Told(@, Overwritten(i, key))]
              ELSE app
    /\ UNCHANGED <<rtc, ahead, link>> /\ UNCHANGED syncIter

\* CMD_ADD_UPDATE_CONTACT: the app's own contact, dated by the clock or, when
\* the frame is long enough, by the frame.
SyncCmdAddUpdateContact(key, lastmod) ==
  /\ link.greeted
  /\ \E i \in PlacesFor(key) :
       /\ Put(i, Entry(key, lastmod))
       /\ app' = [app EXCEPT !.copy = [Told(@, Overwritten(i, key))
                                         EXCEPT ![key] = edits + 1]]
  /\ ahead' = (ahead \/ lastmod > rtc)
  /\ UNCHANGED <<rtc, link>> /\ UNCHANGED syncIter

\* CMD_REMOVE_CONTACT: the entries after it move up, and the one the iterator
\* was about to look at is then behind it.
SyncCmdRemoveContact(key) ==
  LET i == SyncPosition(key) IN
  /\ link.greeted /\ key \in SyncKnown
  /\ edits < SyncMaxEdits
  /\ edits' = edits + 1
  /\ table' = RemoveAt(table, i)
  /\ late' = (late \ {key}) \union
               (IF iter_started /\ i < iter /\ iter <= Len(table)
                THEN {table[iter].key} ELSE {})
  /\ app' = [app EXCEPT !.copy[key] = 0]
  /\ UNCHANGED <<rtc, ahead, link>> /\ UNCHANGED syncIter

\* Time goes by, or CMD_SET_DEVICE_TIME, which never sets the clock back.
SyncTick ==
  /\ rtc < SyncMaxTime
  /\ rtc' = rtc + 1
  /\ UNCHANGED <<table, late, ahead, edits, link, app>>
  /\ UNCHANGED syncIter

-----------------------------------------------------------------------------
\* The app's session.

\* writeContactRespFrame: contact i arrives if the app is connected.
writeContactRespFrame(i) ==
  IF link.connected
  THEN /\ app' = [app EXCEPT !.copy[table[i].key] = table[i].rev]
       /\ late' = late \ {table[i].key}
  ELSE UNCHANGED <<app, late>>

SyncConnect ==
  /\ ~link.connected /\ link.session < SyncMaxSessions
  /\ link' = [connected |-> TRUE, greeted |-> FALSE, asked |-> FALSE,
              session |-> link.session + 1]
  /\ UNCHANGED <<app, syncNode, syncIter>>

SyncDisconnect ==
  /\ link.connected
  /\ link' = [link EXCEPT !.connected = FALSE, !.greeted = FALSE,
                          !.asked = FALSE]
  /\ UNCHANGED <<app, syncNode, syncIter>>

\* Variant: a left-over listing goes on.
AppStartGoesOn ==
  /\ link.connected /\ ~link.greeted
  /\ link' = [link EXCEPT !.greeted = TRUE]
  /\ UNCHANGED <<app, syncNode, syncIter>>

CmdAppStart ==
  /\ link.connected /\ ~link.greeted
  /\ link' = [link EXCEPT !.greeted = TRUE]
  /\ iter_started' = FALSE
  /\ UNCHANGED <<iter, iter_filter_since, most_recent_lastmod, iterSession>>
  /\ UNCHANGED <<app, syncNode>>

\* Variant: the listing starts where the last one stopped.
CmdGetContactsResumed(since) ==
  /\ link.greeted /\ ~iter_started
  /\ iter' = iter
  /\ iter_started' = TRUE
  /\ iter_filter_since' = since
  /\ most_recent_lastmod' = 0
  /\ iterSession' = link.session
  /\ link' = [link EXCEPT !.asked = TRUE]
  /\ UNCHANGED <<app, syncNode>>

\* CMD_GET_CONTACTS; while a listing runs the answer is ERR_CODE_BAD_STATE.
CmdGetContacts(since) ==
  /\ link.greeted /\ ~iter_started
  /\ iter' = 1
  /\ iter_started' = TRUE
  /\ iter_filter_since' = since
  /\ most_recent_lastmod' = 0
  /\ iterSession' = link.session
  /\ link' = [link EXCEPT !.asked = TRUE]
  /\ UNCHANGED <<app, syncNode>>

CmdGetContactByKey(key) ==
  /\ link.greeted /\ key \in SyncKnown
  /\ writeContactRespFrame(SyncPosition(key))
  /\ UNCHANGED <<table, rtc, ahead, edits, link>> /\ UNCHANGED syncIter

\* One pass of checkSerialInterface without a command, the interface idle.
IterContact ==
  /\ iter_started /\ iter <= Len(table)
  /\ iter' = iter + 1
  /\ IF table[iter].lastmod > iter_filter_since
     THEN /\ writeContactRespFrame(iter)
          /\ most_recent_lastmod' =
               IF table[iter].lastmod > most_recent_lastmod
               THEN table[iter].lastmod ELSE most_recent_lastmod
     ELSE UNCHANGED <<app, late, most_recent_lastmod>>
  /\ UNCHANGED <<iter_started, iter_filter_since, iterSession>>
  /\ UNCHANGED <<table, rtc, ahead, edits, link>>

\* Variant: the end is sent again in every pass.
IterEndAgain ==
  /\ iter_started /\ iter > Len(table)
  /\ UNCHANGED <<syncIter, syncNode, app, link>>

IterEnd ==
  /\ iter_started /\ iter > Len(table)
  /\ iter_started' = FALSE
  /\ app' = IF link.asked /\ most_recent_lastmod # 0
            THEN [app EXCEPT !.since = most_recent_lastmod] ELSE app
  /\ link' = [link EXCEPT !.asked = FALSE]
  /\ UNCHANGED <<iter, iter_filter_since, most_recent_lastmod, iterSession>>
  /\ UNCHANGED syncNode

IterStep == IterContact \/ IterEnd

-----------------------------------------------------------------------------

SyncInit ==
  /\ table = <<>> /\ rtc = 1
  /\ iter = 1 /\ iter_started = FALSE /\ iter_filter_since = 0
  /\ most_recent_lastmod = 0 /\ iterSession = 0
  /\ link = [connected |-> FALSE, greeted |-> FALSE, asked |-> FALSE,
             session |-> 0]
  /\ app = [copy |-> [k \in SyncKeys |-> 0], since |-> 0]
  /\ late = {} /\ ahead = FALSE /\ edits = 0

ContactCommand ==
  \E key \in SyncKeys :
    \/ SyncHeard(key)
    \/ \E lastmod \in 0..SyncMaxTime : SyncCmdAddUpdateContact(key, lastmod)
    \/ SyncCmdRemoveContact(key)
    \/ CmdGetContactByKey(key)

SyncNextStep ==
  \/ ContactCommand
  \/ SyncTick
  \/ SyncConnect \/ SyncDisconnect \/ CmdAppStart
  \/ \E since \in {0, app.since} : CmdGetContacts(since)
  \/ IterStep

-----------------------------------------------------------------------------
\* Properties.

SyncTypesOK ==
  /\ table \in Seq([key : SyncKeys, lastmod : 0..SyncMaxTime,
                    rev : 1..SyncMaxEdits])
  /\ Len(table) <= SYNC_MAX_CONTACTS
  /\ Cardinality(SyncKnown) = Len(table)
  /\ rtc \in 1..SyncMaxTime
  /\ iter \in 1..(SYNC_MAX_CONTACTS + 1)
  /\ iter_started \in BOOLEAN
  /\ {iter_filter_since, most_recent_lastmod} \subseteq 0..SyncMaxTime
  /\ app \in [copy : [SyncKeys -> 0..SyncMaxEdits], since : 0..SyncMaxTime]
  /\ late \subseteq SyncKeys

(* The app asks only for what changed after `since'.  A contact it holds no
   current copy of, and will not be sent in an incremental listing, changed
   behind the iterator of a running listing, or moved there when another was
   removed, or changed in the very second the app had been told last; or the
   app itself dated a contact past the clock. *)
MissedOnlyLate ==
  ~ahead => \A i \in DOMAIN table :
              \/ table[i].lastmod > app.since
              \/ table[i].key \in late
              \/ app.copy[table[i].key] = table[i].rev

(* Once the app has greeted the node, a listing that runs is one it asked for
   in this session: no contact and no end of a listing of an earlier session
   reaches it. *)
NoLeftovers ==
  link.greeted /\ iter_started => iterSession = link.session /\ link.asked

(* A listing comes to its end, whatever is added or removed meanwhile, also
   when the app has gone. *)
ListingEnds == iter_started ~> ~iter_started

=============================================================================
