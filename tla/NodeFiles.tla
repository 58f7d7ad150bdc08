----------------------------- MODULE NodeFiles -----------------------------
(***************************************************************************)
(* The node's identity and channels, their files, and the operations that  *)
(* make and erase all files (src/MyMesh.cpp: begin, CMD_SET_CHANNEL,       *)
(* CMD_IMPORT_PRIVATE_KEY, CMD_FACTORY_RESET, checkCLIRescueCmd;           *)
(* src/DataStore.cpp: loadChannels, saveChannels, formatFileSystem;        *)
(* src/main.cpp: setup).  The contacts, which ContactStore models, are     *)
(* here just the number of their newest change.                            *)
(*                                                                         *)
(* External: the identity store, whose file is whole, gone or not to be    *)
(* read; radio_new_identity; addChannel, assumed to fill one slot of the   *)
(* base class's choice.  Power that fails during an operation is one that  *)
(* stops there, followed by Reboot.                                        *)
(***************************************************************************)
EXTENDS Naturals, Sequences

CONSTANTS
  Identities,          \* key pairs
  NoIdentity,          \* the identity file is missing or cannot be read
  ChannelNames,        \* the channels the app sets
  NoChannel,           \* an empty slot
  PublicChannel,       \* PUBLIC_CHANNEL_NAME, the one setup() adds
  MAX_GROUP_CHANNELS,
  MaxFileOps,          \* bound: operations in one behaviour
  MaxFileFaults        \* bound: operations that fail in one behaviour

ASSUME NodeFilesAssumption ==
  /\ NoIdentity \notin Identities
  /\ PublicChannel \notin ChannelNames /\ NoChannel \notin ChannelNames
  /\ MAX_GROUP_CHANNELS \in Nat \ {0}
  /\ MaxFileOps \in Nat /\ MaxFileFaults \in Nat

VARIABLES
  self_id, channels, contactRev,  \* in RAM
  files,       \* [id, channels: the slots that were written, contacts]
  wiped,       \* history: the files stand behind RAM since they were
               \* erased, or since a save failed: subset of the files
  fileOps,     \* history: operations so far
  fileFaults   \* history: operations that failed so far

fileVars == <<self_id, channels, contactRev, files, wiped, fileOps,
              fileFaults>>

ChannelSlotNumbers == 1..MAX_GROUP_CHANNELS
FileNames == {"id", "channels", "contacts"}
Erased == [id |-> NoIdentity, channels |-> <<>>, contacts |-> 0]

Operate == fileOps < MaxFileOps /\ fileOps' = fileOps + 1
Works == UNCHANGED fileFaults
Fails == fileFaults < MaxFileFaults /\ fileFaults' = fileFaults + 1

Ram == <<self_id, channels, contactRev>>

\* The files f after those in lost were erased.
Without(f, lost) ==
  [id |-> IF "id" \in lost THEN Erased.id ELSE f.id,
   channels |-> IF "channels" \in lost THEN Erased.channels ELSE f.channels,
   contacts |-> IF "contacts" \in lost THEN Erased.contacts ELSE f.contacts]

\* DataStore::formatFileSystem returns false.  The result is that of two
\* operations, and the first may have worked: any of the files may be gone.
FormatFails ==
  /\ \E lost \in SUBSET FileNames :
       /\ files' = Without(files, lost)
       /\ wiped' = wiped \union lost
  /\ Fails

-----------------------------------------------------------------------------
\* Saving.

\* Variant: the file ends at the first empty slot.
AllSlotsUsed(c) ==
  SelectSeq(c, LAMBDA ch : ch # NoChannel)

\* The file holds every slot, the empty ones too.
AllSlots(c) == c

\* A slot that cannot be written ends the file.
CutChannels(c) == {SubSeq(c, 1, n) : n \in 0..(MAX_GROUP_CHANNELS - 1)}

\* DataStore::saveChannels; the file may not open, and stays.
saveChannels(c) ==
  \/ /\ files' = [files EXCEPT !.channels = AllSlots(c)]
     /\ wiped' = wiped \ {"channels"}
     /\ Works
  \/ /\ \E part \in {files.channels} \union CutChannels(c) :
          files' = [files EXCEPT !.channels = part]
     /\ wiped' = wiped \union {"channels"}
     /\ Fails

\* CMD_SET_CHANNEL, both lengths: answered with OK whatever the save came to.
CmdSetChannel(slot, ch) ==
  /\ Operate
  /\ channels' = [channels EXCEPT ![slot] = ch]
  /\ saveChannels(channels')
  /\ UNCHANGED <<self_id, contactRev>>

\* A contact changes, and is saved later, by the super-loop.
ContactChanges ==
  /\ Operate
  /\ contactRev' = contactRev + 1
  /\ UNCHANGED <<self_id, channels, files, wiped>> /\ Works

SaveContacts ==
  /\ files.contacts # contactRev
  /\ files' = [files EXCEPT !.contacts = contactRev]
  /\ wiped' = wiped \ {"contacts"}
  /\ UNCHANGED <<Ram, fileOps>> /\ Works

\* CMD_IMPORT_PRIVATE_KEY with a valid key.  The contacts are then loaded
\* anew, so that changes not saved yet are lost.
CmdImportPrivateKey(id) ==
  /\ Operate
  /\ \/ /\ files' = [files EXCEPT !.id = id]
        /\ self_id' = id
        /\ contactRev' = files.contacts
        /\ wiped' = wiped \ {"id"}
        /\ Works
     \/ /\ \E kept \in {files.id, NoIdentity} :
             files' = [files EXCEPT !.id = kept]
        /\ wiped' = wiped \union (IF files'.id = self_id THEN {} ELSE {"id"})
        /\ UNCHANGED <<self_id, contactRev>>
        /\ Fails
  /\ UNCHANGED channels

-----------------------------------------------------------------------------
\* Starting.

\* loadChannels: record i of the file is slot i.
LoadedChannels(file) ==
  [i \in ChannelSlotNumbers |-> IF i \in DOMAIN file THEN file[i] ELSE NoChannel]

\* The channel that setup() adds, when there is room for it.
WithPublic(c) == {[c EXCEPT ![i] = PublicChannel] : i \in ChannelSlotNumbers}

\* begin and setup when the files are f; a new identity is saved, and it goes
\* unseen if that fails.
BeginWith(f) ==
  /\ channels' \in WithPublic(LoadedChannels(f.channels)) \union
                   {LoadedChannels(f.channels)}
  /\ contactRev' = f.contacts
  /\ IF f.id # NoIdentity
     THEN self_id' = f.id /\ files' = f /\ wiped' = {} /\ Works
     ELSE \E id \in Identities :
            /\ self_id' = id
            /\ \/ /\ files' = [f EXCEPT !.id = id] /\ wiped' = {}
                  /\ Works
               \/ /\ files' = f /\ wiped' = {"id"}
                  /\ Fails

\* CMD_REBOOT, whose save of the contacts ContactStore models, "reboot" of
\* the console, or power that failed.
NodeRestart == BeginWith(files) /\ UNCHANGED fileOps

\* CMD_FACTORY_RESET: the node restarts if the format worked, and else answers
\* with an error and runs on.
CmdFactoryReset ==
  /\ Operate
  /\ \/ BeginWith(Erased)
     \/ FormatFails /\ UNCHANGED Ram

-----------------------------------------------------------------------------
\* The rescue console.

RescueErase ==
  /\ Operate
  /\ \/ files' = Erased /\ wiped' = FileNames /\ Works
     \/ FormatFails
  /\ UNCHANGED Ram

\* "rebuild": erase and, if that worked, save the identity, the preferences,
\* the contacts and the channels.  A save that fails does not stop the next;
\* power that fails does.  Channels that are cut end at any slot.
RescueRebuild ==
  LET whole == [id |-> self_id, channels |-> AllSlots(channels),
                contacts |-> contactRev]
  IN
  /\ Operate
  /\ \/ files' = whole /\ wiped' = {} /\ Works
     \/ /\ \E lost \in SUBSET FileNames \ {{}}, part \in CutChannels(channels) :
             /\ files' = [Without(whole, lost) EXCEPT
                            !.channels = IF "channels" \in lost THEN part ELSE @]
             /\ wiped' = lost
        /\ Fails
     \/ FormatFails
  /\ UNCHANGED Ram

\* "rm <path>"
RescueRemove(name) ==
  /\ Operate
  /\ files' = [files EXCEPT ![name] = Erased[name]]
  /\ wiped' = wiped \union {name}
  /\ UNCHANGED Ram /\ Works

-----------------------------------------------------------------------------

FilesInit ==
  /\ self_id \in Identities
  /\ channels = [i \in ChannelSlotNumbers |->
                   IF i = 1 THEN PublicChannel ELSE NoChannel]
  /\ contactRev = 0
  /\ files = [Erased EXCEPT !.id = self_id]
  /\ wiped = {} /\ fileOps = 0 /\ fileFaults = 0

FilesNext ==
  \/ \E slot \in ChannelSlotNumbers, ch \in ChannelNames :
       CmdSetChannel(slot, ch)
  \/ ContactChanges \/ SaveContacts
  \/ \E id \in Identities : CmdImportPrivateKey(id)
  \/ NodeRestart \/ CmdFactoryReset
  \/ RescueErase \/ RescueRebuild
  \/ \E name \in FileNames : RescueRemove(name)

-----------------------------------------------------------------------------
\* Properties.

FilesTypesOK ==
  /\ self_id \in Identities
  /\ channels \in [ChannelSlotNumbers ->
                     ChannelNames \union {NoChannel, PublicChannel}]
  /\ Len(files.channels) <= MAX_GROUP_CHANNELS
  /\ files.id \in Identities \union {NoIdentity}
  /\ wiped \subseteq FileNames

\* Two channel tables that differ in no more than where the added one is.
SameButPublic(c, d) ==
  \A i \in ChannelSlotNumbers :
    c[i] = d[i] \/ c[i] = PublicChannel \/ d[i] = PublicChannel

(* A restart changes nothing the app set: the identity stays unless its file
   was removed or its save failed, and every channel is in its slot, unless
   the channel that setup() adds took it.  The exceptions are those of the
   history alone; no order of imports, resets, rebuilds and failed saves
   makes another. *)
RestartKeepsNode ==
  [][fileVars' # fileVars /\ NodeRestart =>
       /\ "id" \notin wiped => self_id' = self_id
       /\ "channels" \notin wiped => SameButPublic(channels, channels')]_fileVars

=============================================================================
