---------------------------- MODULE ContactStore ----------------------------
(***************************************************************************)
(* The contact table in RAM and the file "/contacts3" it is written to     *)
(* (src/MyMesh.cpp: the handlers that change a contact, saveContacts,      *)
(* CMD_REBOOT, loop, begin; src/DataStore.cpp: openWrite, loadContacts,    *)
(* saveContacts).  Every change arms dirty_contacts_expiry; the super-loop *)
(* saves when that time has passed.                                        *)
(*                                                                         *)
(* A contact is its key, the number of the change it stems from, and       *)
(* whether its type is ADV_TYPE_NONE, which save_filter leaves out.  The   *)
(* table itself (addContact, removeContact and the overwriting of an old   *)
(* entry in a full table) and the clock are BaseChatMesh's, outside the    *)
(* repository.  openWrite truncates the file on the SPIFFS of the build,   *)
(* so power that fails during a save leaves the part written so far; a     *)
(* record cut short is not loaded.                                         *)
(***************************************************************************)
EXTENDS Naturals, FiniteSets, Sequences, SequencesExt

CONSTANTS
  Keys,          \* public keys
  MAX_CONTACTS,  \* entries of the table
  ClockPeriod,   \* the millisecond counter wraps here (2^32)
  LAZY_CONTACTS_WRITE_DELAY,
  MaxLag,        \* bound: how late the super-loop comes round, in clock ticks
  MaxChanges,    \* bound: changes to the table in one behaviour
  MaxFaults      \* bound: saves that fail in one behaviour

ASSUME ContactStoreAssumption ==
  /\ MAX_CONTACTS \in Nat \ {0}
  /\ LAZY_CONTACTS_WRITE_DELAY \in Nat \ {0}
  /\ MaxLag \in Nat \ {0}
  /\ ClockPeriod \in Nat
  /\ 2 * (LAZY_CONTACTS_WRITE_DELAY + MaxLag) < ClockPeriod
  /\ MaxChanges \in Nat /\ MaxFaults \in Nat

VARIABLES
  contacts,               \* the table in RAM, a sequence of contacts
  file,                   \* "/contacts3", a sequence of contacts
  dirty_contacts_expiry,  \* when to save, 0 for nothing to save
  millis,                 \* the millisecond counter
  changes,                \* history: changes made so far
  faults,                 \* history: saves that failed so far
  missed                  \* history: the newest change has no save to come:
                          \* its save failed, or its time came out as 0

storeVars == <<contacts, file, dirty_contacts_expiry, millis, changes, faults,
               missed>>

Contact == [key : Keys, rev : 0..MaxChanges, transient : BOOLEAN]

KeysOf(s) == {s[i].key : i \in DOMAIN s}
IndexOf(key) == CHOOSE i \in DOMAIN contacts : contacts[i].key = key

-----------------------------------------------------------------------------
\* The clock (external).

futureMillis(delay) == (millis + delay) % ClockPeriod
Since(t) == (millis + ClockPeriod - t) % ClockPeriod
millisHasNowPassed(t) == 0 < Since(t) /\ 2 * Since(t) < ClockPeriod

\* Time passes while the super-loop is not overdue.
Tick ==
  /\ ~(dirty_contacts_expiry # 0 /\ Since(dirty_contacts_expiry) = MaxLag)
  /\ millis' = (millis + 1) % ClockPeriod
  /\ UNCHANGED <<contacts, file, dirty_contacts_expiry, changes, faults,
                 missed>>

-----------------------------------------------------------------------------
\* Changes.

\* dirty_contacts_expiry = futureMillis(LAZY_CONTACTS_WRITE_DELAY)
Arm ==
  /\ dirty_contacts_expiry' = futureMillis(LAZY_CONTACTS_WRITE_DELAY)
  /\ missed' = (dirty_contacts_expiry' = 0)

Change(newContacts) ==
  /\ changes < MaxChanges
  /\ contacts' = newContacts
  /\ changes' = changes + 1
  /\ UNCHANGED <<file, millis, faults>>

\* Variant: nothing is armed.
ChangeUnarmed(newContacts) ==
  Change(newContacts) /\ UNCHANGED <<dirty_contacts_expiry, missed>>

New(key, transient) ==
  [key |-> key, rev |-> changes + 1, transient |-> transient]

\* The tables that result when a contact is added: at the end, or, when the
\* table is full and may overwrite, over an entry already there.  A contact
\* that is refused changes nothing.
WithAdded(c) ==
  IF Len(contacts) < MAX_CONTACTS
  THEN {Append(contacts, c)}
  ELSE {[contacts EXCEPT ![i] = c] : i \in DOMAIN contacts}

Updated(key, transient) ==
  [contacts EXCEPT ![IndexOf(key)] = New(key, transient)]

\* The contact at key gets a new content and keeps its type.
Touch(key) ==
  /\ key \in KeysOf(contacts)
  /\ Change(Updated(key, contacts[IndexOf(key)].transient))
  /\ Arm

\* An advert: the base class updates a known contact or adds the new one if
\* the settings say so, and calls with is_new FALSE; otherwise the contact is
\* only reported.
onDiscoveredContact(key, is_new) ==
  IF is_new
  THEN key \notin KeysOf(contacts) /\ UNCHANGED storeVars
  ELSE /\ IF key \in KeysOf(contacts)
          THEN Change(Updated(key, FALSE))
          ELSE \E added \in WithAdded(New(key, FALSE)) : Change(added)
       /\ Arm

onContactPathUpdated(key) == Touch(key)
onSignedMessageRecv(key)  == Touch(key)
CmdResetPath(key)         == Touch(key)

\* Variant: the key is not looked up first.
CmdAddContactTwice(key, transient) ==
  /\ \E added \in WithAdded(New(key, transient)) : Change(added)
  /\ Arm

CmdAddUpdateContact(key, transient) ==
  /\ IF key \in KeysOf(contacts)
     THEN Change(Updated(key, transient))
     ELSE \E added \in WithAdded(New(key, transient)) : Change(added)
  /\ Arm

\* Variant: removing does not arm.
CmdRemoveContactUnarmed(key) ==
  /\ key \in KeysOf(contacts)
  /\ ChangeUnarmed(RemoveAt(contacts, IndexOf(key)))

CmdRemoveContact(key) ==
  /\ key \in KeysOf(contacts)
  /\ Change(RemoveAt(contacts, IndexOf(key)))
  /\ Arm

\* CMD_SEND_ANON_REQ to a stranger adds a transient contact; it is not saved,
\* so nothing is armed.  Assumed of the base class: a transient contact takes
\* no saved one's place, the app hears that the contacts are full instead.
CmdSendAnonReq(key) ==
  /\ key \notin KeysOf(contacts)
  /\ Len(contacts) < MAX_CONTACTS
  /\ Change(Append(contacts, New(key, TRUE)))
  /\ UNCHANGED <<dirty_contacts_expiry, missed>>

-----------------------------------------------------------------------------
\* Saving, loading, restarting.

\* The records that pass save_filter, written one after the other.
Saved(s) ==
  LET upto[n \in 0..Len(s)] ==
        IF n = 0 THEN <<>>
        ELSE IF s[n].transient THEN upto[n - 1]
        ELSE Append(upto[n - 1], s[n])
  IN  upto[Len(s)]

PartsOf(s) == {SubSeq(s, 1, n) : n \in 0..Len(s)}

\* DataStore::saveContacts.  The file cannot be opened, or a write fails and
\* the rest is not written; neither is reported to the caller.
saveContacts ==
  \/ /\ file' = Saved(contacts)
     /\ missed' = FALSE
     /\ UNCHANGED faults
  \/ /\ faults < MaxFaults
     /\ faults' = faults + 1
     /\ file' \in PartsOf(Saved(contacts)) \union {file}
     /\ missed' = TRUE

\* begin: the table is loaded from what the file holds then.
begin ==
  /\ contacts' = SubSeq(file', 1, IF Len(file') < MAX_CONTACTS
                                  THEN Len(file') ELSE MAX_CONTACTS)
  /\ dirty_contacts_expiry' = 0
  /\ millis' = 0
  /\ UNCHANGED changes

\* Variant: the times are compared as they stand.
LoopSavePlain ==
  /\ dirty_contacts_expiry # 0 /\ millis > dirty_contacts_expiry
  /\ saveContacts
  /\ dirty_contacts_expiry' = 0
  /\ UNCHANGED <<contacts, millis, changes>>

\* The end of loop(): the time is reset whether or not the save worked.
LoopSave ==
  /\ dirty_contacts_expiry # 0 /\ millisHasNowPassed(dirty_contacts_expiry)
  /\ saveContacts
  /\ dirty_contacts_expiry' = 0
  /\ UNCHANGED <<contacts, millis, changes>>

\* Variant: the node restarts at once.
CmdRebootUnsaved ==
  /\ UNCHANGED <<file, faults>> /\ missed' = FALSE
  /\ begin

CmdReboot ==
  /\ IF dirty_contacts_expiry # 0
     THEN saveContacts
     ELSE UNCHANGED <<file, faults, missed>>
  /\ begin

\* At any time, or during the save of the loop or of CMD_REBOOT.
PowerLoss ==
  /\ \/ UNCHANGED file
     \/ dirty_contacts_expiry # 0 /\ file' \in PartsOf(Saved(contacts))
  /\ begin
  /\ missed' = FALSE
  /\ UNCHANGED faults

-----------------------------------------------------------------------------

Init ==
  /\ contacts = <<>> /\ file = <<>>
  /\ dirty_contacts_expiry = 0
  /\ millis = 0
  /\ changes = 0 /\ faults = 0
  /\ missed = FALSE

Changes ==
  \E key \in Keys :
    \/ \E is_new \in BOOLEAN : onDiscoveredContact(key, is_new)
    \/ onContactPathUpdated(key)
    \/ onSignedMessageRecv(key)
    \/ CmdResetPath(key)
    \/ \E transient \in BOOLEAN : CmdAddUpdateContact(key, transient)
    \/ CmdRemoveContact(key)
    \/ CmdSendAnonReq(key)

Next == Changes \/ Tick \/ LoopSave \/ CmdReboot \/ PowerLoss

\* The super-loop comes round for ever, and time passes.
Spec == Init /\ [][Next]_storeVars /\ WF_storeVars(LoopSave)
          /\ WF_storeVars(Tick)

-----------------------------------------------------------------------------
\* Properties.

OneEntryPerKey(s) == \A i, j \in DOMAIN s : s[i].key = s[j].key => i = j

(* Table and file hold contacts, no more than fit, none twice. *)
TypeOK ==
  /\ contacts \in Seq(Contact) /\ file \in Seq(Contact)
  /\ Len(contacts) <= MAX_CONTACTS /\ Len(file) <= MAX_CONTACTS
  /\ OneEntryPerKey(contacts) /\ OneEntryPerKey(file)
  /\ dirty_contacts_expiry \in 0..(ClockPeriod - 1)
  /\ millis \in 0..(ClockPeriod - 1)
  /\ changes \in 0..MaxChanges /\ faults \in 0..MaxFaults
  /\ missed \in BOOLEAN

(* Whenever the file differs from what a save would write, a save is armed,
   unless the one for the newest change failed or fell on the time 0: no
   handler changes a contact and leaves it to chance when it is saved. *)
UnsavedIsArmed ==
  file # Saved(contacts) => dirty_contacts_expiry # 0 \/ missed

(* CMD_REBOOT gives up no change: the table after the restart is the table
   before it without its transient contacts, unless a save failed. *)
RebootKeepsContacts ==
  [][CmdReboot /\ faults' = faults /\ ~missed =>
       contacts' = Saved(contacts)]_storeVars

(* Once the contacts stop changing the file comes to agree with the table,
   also when the counter wraps while a save is armed. *)
EventuallySaved == <>[](file = Saved(contacts) \/ missed)

(* "If the node loses power, the `loadContacts()` function reads these exact
   bytes back" (textbook/02_Chapter_2_MeshCore_Architecture.md:91): a contact
   that is on flash and still wanted is there after the power failed. *)
PowerLossKeepsContacts ==
  [][PowerLoss => KeysOf(file) \intersect KeysOf(Saved(contacts))
                    \subseteq KeysOf(contacts')]_storeVars

=============================================================================
