--------------------------- MODULE MCFoundations ---------------------------
(***************************************************************************)
(* What the rest of the node stands on.  On flash, besides the contacts:   *)
(* settings, identity and channels, stored adverts, and the move to a      *)
(* second file system.  Under every signature and shared secret: the       *)
(* arithmetic of the field and of scalars, keys, and the digest.  A        *)
(* behaviour exercises one of them, chosen at the start, as they share no  *)
(* state.                                                                  *)
(***************************************************************************)
EXTENDS Settings, NodeFiles, BlobStore, Migration,
        FieldElements, Scalars, Keys, Digest

VARIABLE part

foundationVars ==
  <<part, settingsVars, fileVars, blobVars, migrationVars,
    fieldVars, scalarVars, keyVars, digestVars>>

Parts == {"settings", "files", "blobs", "migration",
          "field", "scalars", "keys", "digest"}

\* The parts that are not exercised start in one state each.
Init ==
  /\ part \in Parts
  /\ FieldInit /\ (part # "field" => meant = [x \in Elements |-> 0])
  /\ ScalarInit /\ (part # "scalars" => scalarIs = 0)
  /\ KeyInit /\ (part # "keys" => private_key = Clamped(0))
  /\ DigestInit
  /\ SettingsInit /\ (part # "settings" => prefsFile = NoPrefs /\ legacyFile = NoPrefs)
  /\ FilesInit /\ (part # "files" => self_id = CHOOSE id \in Identities : TRUE)
  /\ BlobInit /\ (part # "blobs" => fixedFile)
  /\ MigrationInit
  /\ part # "migration" => fs = [f \in FilesToMove |-> NoFile] /\ fsExtra = fs

Next ==
  /\ UNCHANGED part
  /\ \/ /\ part = "settings" /\ SettingsNext
        /\ UNCHANGED <<fileVars, blobVars, migrationVars, fieldVars,
                       scalarVars, keyVars, digestVars>>
     \/ /\ part = "files" /\ FilesNext
        /\ UNCHANGED <<settingsVars, blobVars, migrationVars, fieldVars,
                       scalarVars, keyVars, digestVars>>
     \/ /\ part = "blobs" /\ BlobNext
        /\ UNCHANGED <<settingsVars, fileVars, migrationVars, fieldVars,
                       scalarVars, keyVars, digestVars>>
     \/ /\ part = "migration" /\ MigrationNext
        /\ UNCHANGED <<settingsVars, fileVars, blobVars, fieldVars,
                       scalarVars, keyVars, digestVars>>
     \/ /\ part = "field" /\ FieldNext
        /\ UNCHANGED <<settingsVars, fileVars, blobVars, migrationVars,
                       scalarVars, keyVars, digestVars>>
     \/ /\ part = "scalars" /\ ScalarNext
        /\ UNCHANGED <<settingsVars, fileVars, blobVars, migrationVars,
                       fieldVars, keyVars, digestVars>>
     \/ /\ part = "keys" /\ KeyNext
        /\ UNCHANGED <<settingsVars, fileVars, blobVars, migrationVars,
                       fieldVars, scalarVars, digestVars>>
     \/ /\ part = "digest" /\ DigestNext
        /\ UNCHANGED <<settingsVars, fileVars, blobVars, migrationVars,
                       fieldVars, scalarVars, keyVars>>

Spec == Init /\ [][Next]_foundationVars

(* Files, tables and histories of the parts on flash hold what they may, and
   the radio runs with the settings. *)
TypesOK ==
  SettingsTypesOK /\ FilesTypesOK /\ BlobTypesOK /\ MigrationTypesOK

(* After any calls that fe.c and sc.c allow, each element of the field is
   written in one way, scalars are the numbers that they are meant to be, and
   the two chains of powers reach the exponents they are for. *)
NumbersRight ==
  /\ PowersRight
  /\ part = "field" => ElementsRight
  /\ part = "scalars" => ScalarsRight

(* Whatever is added to a key on either side, both sides have the same one,
   signatures hold for what was signed and for nothing else, and two parties
   agree on a secret (add_scalar.c, sign.c, verify.c, key_exchange.c). *)
KeysRight == part = "keys" => KeysAgree /\ MultiplesRight

-----------------------------------------------------------------------------
\* Values for TLC: the settings of platformio.ini.

StorageDefaults ==
  [f \in Fields |->
     CASE f = "freq" -> 910525
       [] f = "bw" -> 62500
       [] f = "sf" -> 7
       [] f = "cr" -> 5
       [] f = "tx_power_dbm" -> 17
       [] f = "airtime_factor" -> 1000
       [] f \in {"rx_boosted_gain", "path_hash_mode", "disable_fwd"} -> 1
       [] OTHER -> 0]

\* An older firmware's file, whole or cut: a node that repeats.
StorageLegacy ==
  {NoPrefs} \union
  {[fields |-> n,
    prefs |-> [StorageDefaults EXCEPT !.freq = 433000, !.disable_fwd = 0,
                                      !.sf = 13, !.gps_enabled = 1]] :
     n \in {7, Len(LegacyOrder)}}

StorageRadio ==
  {[freq |-> 433000, bw |-> 62500, sf |-> 7, cr |-> 5, repeat |-> TRUE],
   [freq |-> 869618, bw |-> 7000, sf |-> 12, cr |-> 8, repeat |-> FALSE],
   [freq |-> 869618, bw |-> 62500, sf |-> 7, cr |-> 5, repeat |-> TRUE]}

\* Numbers of 25 bits: the field's ends, and mixed limbs; one with a top bit.
FoundationNumbers == {0, 1, 33554431, 33554428, 33554429, 19088743, 44739242}
FoundationModuli == 2..200

\* Each limb's load starts within it, limbs 0 and 5 at their weight.
FoundationLoads == [i \in 0..10 |-> <<1, 2, 4, 2, 2, 1, 4, 2, 2, 2, 1>>[i + 1]]

\* The order is 4^12 + 871: scalars around it, and the largest.
FoundationExcess == <<1, 2, 1, -2, 1, -1>>
FoundationScalars == {0, 1, 16777216 + 870, 16777216 + 872, 268435455}

\* Digests: zero, the largest, single digits that fold, and a mixed one.
FoundationDigests ==
  {[i \in Places |-> IF i = 23 THEN 255 ELSE 3],
   [i \in Places |-> 0],
   [i \in Places |-> IF i = 11 THEN 2 ELSE 0],
   [i \in Places |-> IF i = 11 THEN 1 ELSE IF i < 11 THEN 3 ELSE 0],
   [i \in Places |-> i % 4],
   [i \in Places |-> IF i = 12 THEN 1 ELSE 0]}

\* A point of order 7 on -x^2 + y^2 = 1 + 3 x^2 y^2 modulo 53.
FoundationBase == [x |-> 4, y |-> 43]

=============================================================================
