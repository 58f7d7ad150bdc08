----------------------------- MODULE Migration -----------------------------
(***************************************************************************)
(* DataStore::begin on a board with a second file system                   *)
(* (src/DataStore.cpp: checkAdvBlobFile, migrateToSecondaryFS): some files *)
(* move from the primary to the secondary one, some move back, one after   *)
(* the other, and what is then out of place is removed.  A file that does  *)
(* not open, or a write that fails, stops nothing: the old file goes in    *)
(* any case.  Power may fail between any two steps; the next start begins  *)
(* again.                                                                  *)
(***************************************************************************)
EXTENDS Naturals, Sequences

CONSTANTS
  NoFile,
  MaxMigrationFaults   \* bound: files not opened, writes and power failures

ASSUME MigrationAssumption ==
  /\ NoFile \notin {"primary", "secondary", "part", "fresh"}
  /\ MaxMigrationFaults \in Nat

\* The files in the order they are dealt with.
ToSecondary == <<"adv_blobs", "contacts3", "channels2">>
ToPrimary == <<"_main.id", "new_prefs">>
Moves == ToSecondary \o ToPrimary
FilesToMove == {Moves[i] : i \in DOMAIN Moves}
Stays == {ToSecondary[i] : i \in DOMAIN ToSecondary}

\* What a file holds: what it held at first on either file system, a part
\* of that, or the empty records of a new blob file.
Content == {NoFile, "primary", "secondary", "part", "fresh"}

VARIABLES
  fs, fsExtra,   \* the two file systems, from file to content
  step,          \* 0: checkAdvBlobFile; i: move i; Len(Moves) + 1: removing
                 \* what is out of place; Len(Moves) + 2: running
  phase,         \* of a move: "look", "open", "copy", "remove"
  hurt,          \* history: files whose copy failed, or was stopped while
                 \* the secondary one was written
  original,      \* history: <<fs, fsExtra>> before the first start
  migrationFaults \* history: faults so far

migrationVars == <<fs, fsExtra, step, phase, hurt, original, migrationFaults>>

LastMove == Len(Moves)
Running == LastMove + 2
moving == Moves[step]

\* The file system a file comes from, and the one it goes to.
Source(f) == IF f \in Stays THEN fs[f] ELSE fsExtra[f]
Target(f) == IF f \in Stays THEN fsExtra[f] ELSE fs[f]

SetTarget(f, content) ==
  IF f \in Stays
  THEN fsExtra' = [fsExtra EXCEPT ![f] = content] /\ UNCHANGED fs
  ELSE fs' = [fs EXCEPT ![f] = content] /\ UNCHANGED fsExtra

RemoveSource(f) ==
  IF f \in Stays
  THEN fs' = [fs EXCEPT ![f] = NoFile] /\ UNCHANGED fsExtra
  ELSE fsExtra' = [fsExtra EXCEPT ![f] = NoFile] /\ UNCHANGED fs

Fault(f) ==
  /\ migrationFaults < MaxMigrationFaults
  /\ migrationFaults' = migrationFaults + 1
  /\ hurt' = hurt \union {f}

NoFault == UNCHANGED <<hurt, migrationFaults>>

Then(nextPhase) == phase' = nextPhase /\ UNCHANGED step
NextStep == step' = step + 1 /\ phase' = "look"
InMove(p) == step \in DOMAIN Moves /\ phase = p

-----------------------------------------------------------------------------

\* The secondary file system gets a blob file if it has none.
checkAdvBlobFile ==
  /\ step = 0
  /\ IF fsExtra["adv_blobs"] = NoFile
     THEN \/ SetTarget("adv_blobs", "fresh") /\ NoFault
          \/ UNCHANGED <<fs, fsExtra>> /\ Fault("adv_blobs")
     ELSE UNCHANGED <<fs, fsExtra>> /\ NoFault
  /\ NextStep
  /\ UNCHANGED original

\* Variant: a move back is made only if the primary has no such file.
LookKeepingPrimary ==
  /\ InMove("look")
  /\ IF Target(moving) = NoFile /\ Source(moving) # NoFile
     THEN Then("open") ELSE NextStep
  /\ UNCHANGED <<fs, fsExtra>>
  /\ NoFault /\ UNCHANGED original

\* A move to the secondary is made if there is no such file yet; a move back
\* whenever there is one, and removes the primary's first.
Look ==
  /\ InMove("look")
  /\ IF moving \in Stays
     THEN /\ IF Target(moving) = NoFile /\ Source(moving) # NoFile
             THEN Then("open") ELSE NextStep
          /\ UNCHANGED <<fs, fsExtra>>
     ELSE IF Source(moving) # NoFile
     THEN SetTarget(moving, NoFile) /\ Then("open")
     ELSE UNCHANGED <<fs, fsExtra>> /\ NextStep
  /\ NoFault /\ UNCHANGED original

\* Both files open; or only the new one; or the new one does not.
OpenBoth ==
  /\ InMove("open")
  /\ \/ SetTarget(moving, "part") /\ Then("copy") /\ NoFault
     \/ SetTarget(moving, "part") /\ Then("remove") /\ Fault(moving)
     \/ UNCHANGED <<fs, fsExtra>> /\ Then("remove") /\ Fault(moving)
  /\ UNCHANGED original

\* The result of the writes is not looked at.
CopyFile ==
  /\ InMove("copy")
  /\ \/ SetTarget(moving, Source(moving)) /\ NoFault
     \/ UNCHANGED <<fs, fsExtra>> /\ Fault(moving)
  /\ Then("remove")
  /\ UNCHANGED original

RemoveOld ==
  /\ InMove("remove")
  /\ RemoveSource(moving)
  /\ NextStep
  /\ NoFault /\ UNCHANGED original

\* The first file still out of place goes.
CleanUp ==
  /\ step = LastMove + 1
  /\ LET misplaced == {i \in DOMAIN Moves : Source(Moves[i]) # NoFile} IN
     IF misplaced = {}
     THEN NextStep /\ UNCHANGED <<fs, fsExtra>>
     ELSE /\ RemoveSource(Moves[CHOOSE i \in misplaced :
                                  \A j \in misplaced : i <= j])
          /\ UNCHANGED <<step, phase>>
  /\ NoFault /\ UNCHANGED original

Restart == step' = 0 /\ phase' = "look" /\ UNCHANGED <<fs, fsExtra, original>>

\* While a file is copied to the secondary, its part stays there, and the
\* next start takes it for the file.
MigrationPowerLoss ==
  \/ /\ step = Running
     /\ Restart /\ NoFault
  \/ /\ step \in DOMAIN Moves /\ phase = "copy" /\ moving \in Stays
     /\ Restart /\ Fault(moving)
  \/ /\ ~(step \in DOMAIN Moves /\ phase = "copy" /\ moving \in Stays)
     /\ step # Running
     /\ migrationFaults < MaxMigrationFaults
     /\ migrationFaults' = migrationFaults + 1
     /\ Restart /\ UNCHANGED hurt

MigrationInit ==
  /\ fs \in [FilesToMove -> {NoFile, "primary"}]
  /\ fsExtra \in [FilesToMove -> {NoFile, "secondary"}]
  /\ original = <<fs, fsExtra>>
  /\ step = 0 /\ phase = "look"
  /\ hurt = {} /\ migrationFaults = 0

MigrationNext ==
  \/ checkAdvBlobFile \/ Look \/ OpenBoth \/ CopyFile \/ RemoveOld \/ CleanUp
  \/ MigrationPowerLoss

-----------------------------------------------------------------------------
\* Properties.

MigrationTypesOK ==
  /\ {fs, fsExtra} \subseteq [FilesToMove -> Content]
  /\ step \in 0..Running
  /\ phase \in {"look", "open", "copy", "remove"}
  /\ hurt \subseteq FilesToMove

\* What is to be kept of a file: the secondary's, where both had one.
Kept(f) == IF original[2][f] # NoFile THEN original[2][f] ELSE original[1][f]

(* Once the node runs, the contacts, the channels, the identity and the old
   preferences are each where they belong, nowhere else, and whole, however
   often power failed, unless a file did not open or be written, or power
   failed in the very copying of the contacts or channels: a file that moves
   back is copied again, one that moves out is not. *)
MigrationLosesOnlyHurt ==
  step = Running =>
    \A f \in FilesToMove \ {"adv_blobs"} :
      /\ Source(f) = NoFile
      /\ f \notin hurt => Target(f) = Kept(f)

(* "migrate old adv_blobs, contacts3 and channels2 files to secondary FS if
   they don't already exist" (src/src/DataStore.cpp:551): without a fault, the
   stored adverts of the primary are those of the secondary afterwards. *)
BlobsMigrated ==
  step = Running /\ hurt = {} /\ migrationFaults = 0
    /\ Kept("adv_blobs") # NoFile =>
    Target("adv_blobs") = Kept("adv_blobs")

=============================================================================
