---------------------------- MODULE StorageProofs ----------------------------
(***************************************************************************)
(* Proofs about what the node keeps on flash besides its contacts, each    *)
(* part by itself and for every value of its constants: settings, identity *)
(* and channels, stored adverts, and the move to a second file system; and *)
(* that in MCFoundations, whose behaviours exercise one of them, each runs *)
(* as by itself.                                                           *)
(***************************************************************************)
EXTENDS MCFoundations, SequenceTheorems, WellFoundedInduction, TLAPS

-----------------------------------------------------------------------------
(***************************************************************************)
(* Settings, for all defaults, older files and requests: the node repeats  *)
(* only where that is allowed, and a restart keeps what a command set.     *)
(* What carries both is what a start would load at any moment: the file    *)
(* cannot hold the switch without the frequency, and unless a save failed  *)
(* a start loads what the node runs with.                                  *)
(***************************************************************************)

SettingsSpec == SettingsInit /\ [][SettingsNext]_settingsVars

(* The preferences a start would load. *)
Loaded ==
  IF prefsFile # NoPrefs THEN Overlay(Defaults, FileOrder, prefsFile)
  ELSE IF legacyFile # NoPrefs THEN Overlay(Defaults, LegacyOrder, legacyFile)
  ELSE Defaults

Within(x, f) == Limits[f][1] <= x /\ x <= Limits[f][2]

(* The ranges of begin(), but for what it is left to put right. *)
Accepted(p) == \A f \in DOMAIN Limits \ PutRight : Within(p[f], f)

FileMayRepeat == prefsFile # NoPrefs => MayRepeat(prefsFile.prefs)

(* Unless the newest save failed, a start loads the settings in force. *)
StartsAsSaved ==
  ~unsaved => \A f \in Fields \ PutRight : Sanitised(Loaded)[f] = prefs[f]

SettingsIInv ==
  /\ SettingsTypesOK
  /\ Accepted(prefs)
  /\ RepeatOnAllowedFreq /\ FileMayRepeat
  /\ StartsAsSaved

(* The fields the proofs name, and where two of them are in the files. *)
LEMMA FieldPlaces ==
  /\ Len(FileOrder) = 28 /\ DOMAIN FileOrder = 1..28
  /\ FileOrder[4] = "freq"
  /\ \A i \in 1..28 : FileOrder[i] = "disable_fwd" => i = 17
  /\ DOMAIN LegacyOrder = 1..27
  /\ LegacyOrder[5] = "freq"
  /\ \A i \in 1..27 : LegacyOrder[i] = "disable_fwd" => i = 8
<1>1. Len(FileOrder) = 28 /\ DOMAIN FileOrder = 1..28 /\ FileOrder[4] = "freq"
  BY DEF FileOrder, PositionFields, RadioFields, GPSFields, RepeatFields,
         CompanionFields
<1>2. \A i \in 1..28 : FileOrder[i] = "disable_fwd" => i = 17
  BY DEF FileOrder, PositionFields, RadioFields, GPSFields, RepeatFields,
         CompanionFields
<1>3. /\ DOMAIN LegacyOrder = 1..27 /\ LegacyOrder[5] = "freq"
      /\ \A i \in 1..27 : LegacyOrder[i] = "disable_fwd" => i = 8
  BY DEF LegacyOrder
<1> QED BY <1>1, <1>2, <1>3

(* The fields that the commands, the console and the radio name are fields of
   NodePrefs. *)
LEMMA FieldsNamed ==
  /\ {"node_name", "node_lat", "node_lon", "freq", "bw", "sf", "cr",
      "rx_boosted_gain", "tx_power_dbm", "airtime_factor", "rx_delay_base",
      "path_hash_mode", "multi_acks"} \subseteq Fields
  /\ {"gps_enabled", "gps_interval", "advert_loc_policy", "disable_fwd",
      "autoadd_max_hops", "default_scope_name", "default_scope_key",
      "ble_pin", "autoadd_config", "manual_add_contacts",
      "telemetry_mode_base", "telemetry_mode_loc", "telemetry_mode_env"}
       \subseteq Fields
<1>1. DOMAIN FileOrder = 1..28
  BY FieldPlaces
<1>2. {"node_name", "node_lat", "node_lon", "freq", "bw", "sf", "cr",
       "rx_boosted_gain", "tx_power_dbm", "airtime_factor", "rx_delay_base",
       "path_hash_mode", "multi_acks"} \subseteq {FileOrder[i] : i \in 1..28}
  BY DEF FileOrder, PositionFields, RadioFields, GPSFields, RepeatFields,
         CompanionFields
<1>3. {"gps_enabled", "gps_interval", "advert_loc_policy", "disable_fwd",
       "autoadd_max_hops", "default_scope_name", "default_scope_key",
       "ble_pin", "autoadd_config", "manual_add_contacts",
       "telemetry_mode_base", "telemetry_mode_loc", "telemetry_mode_env"}
        \subseteq {FileOrder[i] : i \in 1..28}
  BY DEF FileOrder, PositionFields, RadioFields, GPSFields, RepeatFields,
         CompanionFields
<1> QED BY <1>1, <1>2, <1>3 DEF Fields

(* The ranges are ranges. *)
LEMMA LimitsOrdered ==
  /\ DOMAIN Limits = {"rx_delay_base", "airtime_factor", "freq", "bw", "sf",
                      "cr", "tx_power_dbm", "gps_enabled", "gps_interval"}
  /\ DOMAIN Limits \subseteq Fields
  /\ \A f \in DOMAIN Limits : /\ Limits[f][1] \in Int /\ Limits[f][2] \in Int
                              /\ Limits[f][1] <= Limits[f][2]
  /\ Limits["freq"] = <<MinFreq, MaxFreq>> /\ MinFreq \in Int /\ MaxFreq \in Int
  /\ Limits["sf"] = <<5, 12>> /\ Limits["cr"] = <<5, 8>>
  /\ Limits["tx_power_dbm"] = <<-9, MAX_LORA_TX_POWER>>
  /\ Limits["gps_enabled"] = <<0, 1>> /\ Limits["gps_interval"] = <<0, Day>> /\ Day \in Nat
<1>1. MAX_LORA_TX_POWER \in Int /\ -9 <= MAX_LORA_TX_POWER
  BY SettingsAssumption
<1>2. /\ MinFreq \in Int /\ MaxFreq \in Int /\ MinFreq <= MaxFreq
      /\ 7800 <= MaxBandwidth /\ MaxBandwidth \in Int
      /\ Day \in Nat
  BY SMT DEF MinFreq, MaxFreq, MaxBandwidth, Day
<1> QED BY <1>1, <1>2, FieldsNamed DEF Limits

(* What begin() makes of any preferences is in the ranges; what is there
   already it leaves, but for the fields it is left to put right. *)
LEMMA SanitisedPrefs ==
  ASSUME NEW p \in Preferences
  PROVE  /\ Sanitised(p) \in Preferences /\ Accepted(Sanitised(p))
         /\ Accepted(p) =>
              \A f \in Fields \ PutRight : Sanitised(p)[f] = p[f]
         /\ MayRepeat(p) => MayRepeat(Sanitised(p))
<1> DEFINE q == Sanitised(p)
<1>1. \A f \in Fields : p[f] \in Int
  BY DEF Preferences
<1>2. /\ \A f \in DOMAIN Limits :
           q[f] = constrain(p[f], Limits[f][1], Limits[f][2])
      /\ \A f \in Fields \ DOMAIN Limits : q[f] = p[f]
      /\ q = [f \in Fields |-> q[f]]
  BY LimitsOrdered DEF Sanitised
<1> HIDE DEF q
<1>3. ASSUME NEW f \in DOMAIN Limits
      PROVE  /\ q[f] \in Int /\ Within(q[f], f)
             /\ Within(p[f], f) => q[f] = p[f]
  BY <1>1, <1>2, LimitsOrdered DEF Within, constrain
<1>4. q \in Preferences
  BY <1>1, <1>2, <1>3 DEF Preferences
<1>5. Accepted(q)
  BY <1>3 DEF Accepted
<1>6. ASSUME Accepted(p), NEW f \in Fields \ PutRight
      PROVE  q[f] = p[f]
  BY <1>2, <1>3, <1>6 DEF Accepted
<1>7. ASSUME MayRepeat(p), q.disable_fwd = 0
      PROVE  q.freq \in AllowedRepeatFreq
  <2>1. p.disable_fwd = 0
    BY <1>2, <1>7, FieldsNamed, LimitsOrdered
  <2>2. p.freq \in AllowedRepeatFreq
    BY <1>7, <2>1 DEF MayRepeat
  <2>3. Within(p["freq"], "freq")
    <3>1. p.freq \in Int /\ MinFreq <= p.freq /\ p.freq <= MaxFreq
      BY <2>2, SettingsAssumption, Zenon
    <3>2. Limits["freq"] = <<MinFreq, MaxFreq>>
      BY LimitsOrdered, Zenon
    <3> QED BY <3>1, <3>2 DEF Within
  <2> QED BY <1>3, <2>2, <2>3, LimitsOrdered
<1> QED BY <1>4, <1>5, <1>6, <1>7 DEF q, MayRepeat

(* What can be read of a file, and the rest as it was, are preferences. *)
LEMMA OverlaidPrefs ==
  ASSUME NEW under \in Preferences, NEW order, NEW file,
         file.prefs \in Preferences
  PROVE  Overlay(under, order, file) \in Preferences
  BY DEF Overlay, Preferences

(* A file that was written whole is read as it was written. *)
LEMMA WholeIsRead ==
  ASSUME NEW p \in Preferences
  PROVE  /\ Whole(p) \in PrefsFiles /\ Whole(p) # NoPrefs
         /\ Whole(p).prefs = p
         /\ Overlay(Defaults, FileOrder, Whole(p)) = p
<1>1. Whole(p) \in PrefsFiles
  BY FieldPlaces DEF Whole, PrefsFiles
<1>2. Fields = FirstFields(FileOrder, 28)
  BY FieldPlaces DEF FirstFields, Fields
<1>3. Overlay(Defaults, FileOrder, Whole(p)) = [f \in Fields |-> p[f]]
  BY <1>2, FieldPlaces DEF Overlay, Whole
<1>4. p = [f \in Fields |-> p[f]]
  BY DEF Preferences
<1> QED BY <1>1, <1>3, <1>4, SettingsAssumption DEF Whole

(* The frequency comes before the switch in either file: what is cut off with
   the frequency is the switch too, and it is then off. *)
LEMMA CutMayRepeat ==
  ASSUME NEW file, file.fields \in Nat, file.prefs \in Preferences,
         MayRepeat(file.prefs),
         NEW order \in {FileOrder, LegacyOrder}
  PROVE  MayRepeat(Overlay(Defaults, order, file))
<1> DEFINE n == file.fields
           o == Overlay(Defaults, order, file)
<1>1. /\ "freq" \in Fields /\ "disable_fwd" \in Fields
      /\ Defaults["disable_fwd"] # 0
  BY FieldsNamed, SettingsAssumption
<1>2. "disable_fwd" \in FirstFields(order, n) => "freq" \in FirstFields(order, n)
  <2>1. CASE order = FileOrder
    <3>1. "disable_fwd" \in FirstFields(order, n) => 17 \in 1..n
      BY <2>1, FieldPlaces DEF FirstFields
    <3>2. 4 \in 1..n /\ 4 \in DOMAIN FileOrder
             => "freq" \in FirstFields(order, n)
      BY <2>1, FieldPlaces DEF FirstFields
    <3> QED BY <3>1, <3>2, FieldPlaces
  <2>2. CASE order = LegacyOrder
    <3>1. "disable_fwd" \in FirstFields(order, n) => 8 \in 1..n
      BY <2>2, FieldPlaces DEF FirstFields
    <3>2. 5 \in 1..n /\ 5 \in DOMAIN LegacyOrder
             => "freq" \in FirstFields(order, n)
      BY <2>2, FieldPlaces DEF FirstFields
    <3> QED BY <3>1, <3>2, FieldPlaces
  <2> QED BY <2>1, <2>2
<1>3. ASSUME o.disable_fwd = 0 PROVE o.freq \in AllowedRepeatFreq
  <2>1. "disable_fwd" \in FirstFields(order, n)
    BY <1>1, <1>3 DEF Overlay
  <2>2. o.disable_fwd = file.prefs.disable_fwd /\ o.freq = file.prefs.freq
    BY <1>1, <1>2, <2>1 DEF Overlay
  <2> QED BY <1>3, <2>2 DEF MayRepeat
<1> QED BY <1>3 DEF MayRepeat

(* What a start loads, whichever file it comes from, are preferences of a node
   that may repeat as they say. *)
LEMMA LoadedPrefs ==
  ASSUME SettingsTypesOK, FileMayRepeat
  PROVE  Loaded \in Preferences /\ MayRepeat(Loaded)
<1>1. Defaults \in Preferences /\ MayRepeat(Defaults)
  BY SettingsAssumption DEF MayRepeat
<1>2. ASSUME prefsFile # NoPrefs
      PROVE  /\ Overlay(Defaults, FileOrder, prefsFile) \in Preferences
             /\ MayRepeat(Overlay(Defaults, FileOrder, prefsFile))
  <2>1. prefsFile.fields \in Nat /\ prefsFile.prefs \in Preferences
    BY <1>2, FieldPlaces DEF SettingsTypesOK, PrefsFiles
  <2> QED BY <1>1, <1>2, <2>1, OverlaidPrefs, CutMayRepeat DEF FileMayRepeat
<1>3. ASSUME legacyFile # NoPrefs
      PROVE  /\ Overlay(Defaults, LegacyOrder, legacyFile) \in Preferences
             /\ MayRepeat(Overlay(Defaults, LegacyOrder, legacyFile))
  <2>1. /\ legacyFile.fields \in Nat /\ legacyFile.prefs \in Preferences
        /\ MayRepeat(legacyFile.prefs)
    BY <1>3, SettingsAssumption DEF SettingsTypesOK
  <2> QED BY <1>1, <2>1, OverlaidPrefs, CutMayRepeat
<1> QED BY <1>1, <1>2, <1>3 DEF Loaded

(* Saving leaves the new preferences in the file, or the newest save counts
   as failed and the file is the old one or the new one cut. *)
LEMMA SavedPrefs ==
  ASSUME SettingsTypesOK, FileMayRepeat,
         NEW p \in Preferences, MayRepeat(p), SavePrefs(p)
  PROVE  /\ prefsFile' \in PrefsFiles \union {NoPrefs}
         /\ saveFaults' \in 0..MaxSaveFaults
         /\ FileMayRepeat'
         /\ ~unsaved' => prefsFile' = Whole(p)
<1>1. CASE prefsFile' = Whole(p) /\ unsaved' = FALSE /\ UNCHANGED saveFaults
  BY <1>1, WholeIsRead DEF SettingsTypesOK, FileMayRepeat
<1>2. CASE /\ saveFaults < MaxSaveFaults /\ saveFaults' = saveFaults + 1
           /\ prefsFile' \in CutFiles(p)
           /\ unsaved' = TRUE
  <2>1. saveFaults' \in 0..MaxSaveFaults
    BY <1>2, SettingsAssumption DEF SettingsTypesOK
  <2>2. CASE prefsFile' = prefsFile
    BY <1>2, <2>1, <2>2 DEF SettingsTypesOK, FileMayRepeat
  <2>3. ASSUME NEW n \in Cuts, prefsFile' = [fields |-> n, prefs |-> p]
        PROVE  prefsFile' \in PrefsFiles /\ prefsFile'.prefs = p
    <3>1. n \in 0..28
      BY SettingsAssumption, FieldPlaces
    <3> QED BY <2>3, <3>1, FieldPlaces DEF PrefsFiles
  <2> QED BY <1>2, <2>1, <2>2, <2>3 DEF CutFiles, FileMayRepeat
<1> QED BY <1>1, <1>2 DEF SavePrefs

(* Preferences in force that are in the ranges and were saved keep all that
   holds of the settings, when the radio has them too. *)
LEMMA SavedSettings ==
  ASSUME SettingsIInv,
         NEW p \in Preferences, MayRepeat(p), Accepted(p), SavePrefs(p),
         prefs' = p, radio' = RadioOf(p), sensors' \in Int \X Int,
         legacyFile' = legacyFile, commands' \in 0..MaxCommands
  PROVE  SettingsIInv'
<1>1. /\ prefsFile' \in PrefsFiles \union {NoPrefs}
      /\ saveFaults' \in 0..MaxSaveFaults
      /\ FileMayRepeat'
      /\ ~unsaved' => prefsFile' = Whole(p)
  BY SavedPrefs DEF SettingsIInv
<1>2. SettingsTypesOK'
  BY <1>1 DEF SettingsIInv, SettingsTypesOK
<1>3. StartsAsSaved'
  <2>1. ~unsaved' => Loaded' = p
    BY <1>1, WholeIsRead DEF Loaded
  <2> QED BY <2>1, SanitisedPrefs DEF StartsAsSaved
<1> QED BY <1>1, <1>2, <1>3 DEF SettingsIInv, RepeatOnAllowedFreq

(* A start takes what it loads, put right. *)
LEMMA StartKeepsSettings ==
  ASSUME SettingsIInv, Reboot
  PROVE  SettingsIInv' /\ prefs' = Sanitised(Loaded)
<1> DEFINE loaded == Loaded
<1>1. loaded \in Preferences /\ MayRepeat(loaded)
  BY LoadedPrefs DEF SettingsIInv
<1>2. /\ loaded.node_lat \in Int /\ loaded.node_lon \in Int
      /\ Sanitised(loaded) \in Preferences /\ Accepted(Sanitised(loaded))
      /\ MayRepeat(Sanitised(loaded))
  BY <1>1, FieldsNamed, SanitisedPrefs DEF Preferences
<1>3. /\ Apply(loaded) /\ legacyFile' = legacyFile /\ commands' = commands
      /\ \/ prefsFile' = prefsFile /\ UNCHANGED saveFaults
         \/ SavePrefs(loaded)
  BY DEF Reboot, BeginFrom, Loaded
<1>4. prefs' = Sanitised(loaded)
  BY <1>3 DEF Apply
<1>5. /\ prefsFile' \in PrefsFiles \union {NoPrefs}
      /\ saveFaults' \in 0..MaxSaveFaults
      /\ FileMayRepeat'
      /\ ~unsaved' => prefsFile' \in {prefsFile, Whole(loaded)}
  <2>1. CASE prefsFile' = prefsFile /\ UNCHANGED saveFaults
    BY <2>1 DEF SettingsIInv, SettingsTypesOK, FileMayRepeat
  <2>2. CASE SavePrefs(loaded)
    BY <1>1, <2>2, SavedPrefs DEF SettingsIInv
  <2> QED BY <1>3, <2>1, <2>2
<1>6. SettingsTypesOK'
  BY <1>2, <1>3, <1>5 DEF SettingsIInv, SettingsTypesOK, Apply
<1>7. ~unsaved' => Loaded' = loaded
  <2>1. prefsFile' = prefsFile => Loaded' = loaded
    BY <1>3 DEF Loaded
  <2>2. prefsFile' = Whole(loaded) => Loaded' = loaded
    BY <1>1, WholeIsRead DEF Loaded
  <2> QED BY <1>5, <2>1, <2>2
<1> HIDE DEF loaded
<1>8. StartsAsSaved'
  BY <1>4, <1>7 DEF StartsAsSaved
<1> QED BY <1>2, <1>4, <1>5, <1>6, <1>8 DEF SettingsIInv, RepeatOnAllowedFreq, loaded

(* The fields that only the radio's commands and the GPS's change. *)
Steady ==
  {"freq", "bw", "sf", "cr", "tx_power_dbm", "rx_boosted_gain", "disable_fwd",
   "gps_enabled", "gps_interval"}

(* savePrefs puts the sensors' position into the preferences, and nothing
   else. *)
LEMMA PositionedPrefs ==
  ASSUME NEW p \in Preferences, NEW position \in Int \X Int
  PROVE  /\ WithPosition(p, position) \in Preferences
         /\ \A f \in Steady : WithPosition(p, position)[f] = p[f]
<1>1. Steady \subseteq Fields \ {"node_lat", "node_lon"}
  BY FieldsNamed DEF Steady
<1> QED BY <1>1, FieldsNamed DEF WithPosition, Preferences

(* Preferences that differ in none of the radio's fields are as good. *)
LEMMA SteadyPrefs ==
  ASSUME NEW p \in Preferences, NEW q \in Preferences,
         \A f \in Steady : q[f] = p[f]
  PROVE  /\ Accepted(p) => Accepted(q)
         /\ MayRepeat(p) => MayRepeat(q)
         /\ RadioOf(q) = RadioOf(p)
<1>1. DOMAIN Limits \ PutRight \subseteq Steady
  BY LimitsOrdered DEF Steady, PutRight
<1>2. Accepted(p) => Accepted(q)
  BY <1>1 DEF Accepted
<1> QED BY <1>2 DEF Steady, MayRepeat, RadioOf

(* A command that makes of the preferences some that are in the ranges. *)
LEMMA CommandKeepsSettings ==
  ASSUME SettingsIInv, NEW p \in Preferences, SetPrefs(p),
         Accepted(p), MayRepeat(p), radio' = RadioOf(p), sensors' = sensors
  PROVE  SettingsIInv'
<1> DEFINE q == WithPosition(p, sensors)
<1>1. q \in Preferences /\ \A f \in Steady : q[f] = p[f]
  BY PositionedPrefs DEF SettingsIInv, SettingsTypesOK
<1>2. /\ prefs' = q /\ SavePrefs(q) /\ legacyFile' = legacyFile
      /\ commands < MaxCommands /\ commands' = commands + 1
  BY DEF SetPrefs
<1> HIDE DEF q
<1>3. Accepted(q) /\ MayRepeat(q) /\ RadioOf(q) = RadioOf(p)
  BY <1>1, SteadyPrefs
<1>4. commands' \in 0..MaxCommands /\ sensors' \in Int \X Int
  BY <1>2, SettingsAssumption DEF SettingsIInv, SettingsTypesOK
<1> QED BY <1>1, <1>2, <1>3, <1>4, SavedSettings

(* A command that leaves the radio alone and the fields it and the GPS need. *)
LEMMA QuietCommandKeepsSettings ==
  ASSUME SettingsIInv, NEW p \in Preferences, SetPrefs(p), Quietly,
         \A f \in Steady : p[f] = prefs[f]
  PROVE  SettingsIInv'
<1>1. /\ prefs \in Preferences /\ Accepted(prefs) /\ MayRepeat(prefs)
      /\ radio = RadioOf(prefs)
  BY DEF SettingsIInv, SettingsTypesOK, RepeatOnAllowedFreq
<1>2. Accepted(p) /\ MayRepeat(p) /\ RadioOf(p) = RadioOf(prefs)
  BY <1>1, SteadyPrefs
<1> QED BY <1>1, <1>2, CommandKeepsSettings DEF Quietly

(* Changing one field changes no other. *)
LEMMA OneField ==
  ASSUME NEW p \in Preferences, NEW f \in Fields, NEW v \in Int
  PROVE  /\ [p EXCEPT ![f] = v] \in Preferences
         /\ [p EXCEPT ![f] = v][f] = v
         /\ \A g \in Fields \ {f} : [p EXCEPT ![f] = v][g] = p[g]
  BY DEF Preferences

(* The commands that leave the radio alone. *)
LEMMA QuietCommands ==
  ASSUME SettingsIInv, NEW v \in Int, NEW w \in Int, NEW x \in Int, NEW y \in Int,
         NEW len \in Int,
         \/ CmdSetAdvertName(v) \/ CmdSetTuningParams(v, w)
         \/ CmdSetOtherParams(v, w, x, y, len)
         \/ CmdSetDefaultFloodScope(v, w) \/ CmdSetAutoaddConfig(v, w, len)
         \/ CmdSetPathHashMode(v) \/ CmdSetDevicePin(v) \/ RescueSetPin(v)
  PROVE  SettingsIInv'
<1> DEFINE Good(p) == /\ p \in Preferences /\ SetPrefs(p) /\ Quietly
                      /\ \A f \in Steady : p[f] = prefs[f]
<1>1. /\ prefs \in [Fields -> Int] /\ Steady \subseteq Fields
      /\ prefs \in Preferences
      /\ \A f \in Fields : prefs[f] \in Int
  BY FieldsNamed DEF SettingsIInv, SettingsTypesOK, Preferences, Steady
<1>2. CASE CmdSetAdvertName(v)
  <2>1. Good([prefs EXCEPT !.node_name = v])
    BY <1>1, <1>2, OneField, FieldsNamed DEF CmdSetAdvertName, Steady
  <2> QED BY <2>1, QuietCommandKeepsSettings
<1>3. CASE CmdSetTuningParams(v, w)
  <2>1. Good([prefs EXCEPT !.rx_delay_base = v, !.airtime_factor = w])
    BY <1>1, <1>3, FieldsNamed DEF CmdSetTuningParams, Steady, Preferences
  <2> QED BY <2>1, QuietCommandKeepsSettings
<1>4. CASE CmdSetOtherParams(v, w, x, y, len)
  <2> DEFINE a == IF len >= 3 THEN w % 4 ELSE prefs.telemetry_mode_base
             b == IF len >= 3 THEN (w \div 4) % 4 ELSE prefs.telemetry_mode_loc
             c == IF len >= 3 THEN (w \div 16) % 4 ELSE prefs.telemetry_mode_env
             d == IF len >= 4 THEN x ELSE prefs.advert_loc_policy
             e == IF len >= 5 THEN y ELSE prefs.multi_acks
             p == [prefs EXCEPT !.manual_add_contacts = v,
                                !.telemetry_mode_base = a,
                                !.telemetry_mode_loc = b,
                                !.telemetry_mode_env = c,
                                !.advert_loc_policy = d, !.multi_acks = e]
  <2>1. a \in Int /\ b \in Int /\ c \in Int /\ d \in Int /\ e \in Int
    BY <1>1, FieldsNamed
  <2>2. SetPrefs(p) /\ Quietly
    BY <1>4 DEF CmdSetOtherParams
  <2> HIDE DEF a, b, c, d, e
  <2>3. p \in Preferences
    BY <1>1, <2>1, FieldsNamed DEF Preferences
  <2>4. \A f \in Steady : p[f] = prefs[f]
    BY <1>1 DEF Steady
  <2> HIDE DEF p
  <2> QED BY <2>2, <2>3, <2>4, QuietCommandKeepsSettings
<1>5. CASE CmdSetDefaultFloodScope(v, w)
  <2>1. Good([prefs EXCEPT !.default_scope_name = v, !.default_scope_key = w])
    BY <1>1, <1>5, FieldsNamed DEF CmdSetDefaultFloodScope, Steady, Preferences
  <2> QED BY <2>1, QuietCommandKeepsSettings
<1>6. CASE CmdSetAutoaddConfig(v, w, len)
  <2> DEFINE a == IF len >= 3 THEN constrain(w, 0, 64) ELSE prefs.autoadd_max_hops
             p == [prefs EXCEPT !.autoadd_config = v, !.autoadd_max_hops = a]
  <2>1. a \in Int
    BY <1>1, FieldsNamed DEF constrain
  <2>2. SetPrefs(p) /\ Quietly
    BY <1>6 DEF CmdSetAutoaddConfig
  <2> HIDE DEF a
  <2>3. p \in Preferences /\ \A f \in Steady : p[f] = prefs[f]
    BY <1>1, <2>1, FieldsNamed DEF Preferences, Steady
  <2> HIDE DEF p
  <2> QED BY <2>2, <2>3, QuietCommandKeepsSettings
<1>7. CASE CmdSetPathHashMode(v)
  <2>1. Good([prefs EXCEPT !.path_hash_mode = v])
    BY <1>1, <1>7, OneField, FieldsNamed DEF CmdSetPathHashMode, Steady
  <2> QED BY <2>1, QuietCommandKeepsSettings
<1>8. CASE CmdSetDevicePin(v) \/ RescueSetPin(v)
  <2>1. SetPrefs([prefs EXCEPT !.ble_pin = v]) /\ Quietly
    BY <1>8 DEF CmdSetDevicePin, RescueSetPin
  <2>2. Good([prefs EXCEPT !.ble_pin = v])
    BY <1>1, <2>1, OneField, FieldsNamed DEF Steady
  <2> QED BY <2>2, QuietCommandKeepsSettings
<1> QED BY <1>2, <1>3, <1>4, <1>5, <1>6, <1>7, <1>8

(* The commands that set the radio. *)
LEMMA RadioCommands ==
  ASSUME SettingsIInv,
         \/ \E r \in RadioRequests :
              CmdSetRadioParams(r.freq, r.bw, r.sf, r.cr, r.repeat)
         \/ \E power \in Int : CmdSetRadioTxPower(power)
  PROVE  SettingsIInv'
<1>1. /\ prefs \in [Fields -> Int] /\ Steady \subseteq Fields
      /\ prefs \in Preferences /\ Accepted(prefs) /\ MayRepeat(prefs)
      /\ radio = RadioOf(prefs)
      /\ \A f \in Fields : prefs[f] \in Int
  BY FieldsNamed DEF SettingsIInv, SettingsTypesOK, Preferences, Steady,
                     RepeatOnAllowedFreq
<1>2. ASSUME NEW r \in RadioRequests,
             CmdSetRadioParams(r.freq, r.bw, r.sf, r.cr, r.repeat)
      PROVE  SettingsIInv'
  <2> DEFINE p == [prefs EXCEPT !.freq = r.freq, !.bw = r.bw, !.sf = r.sf,
                                !.cr = r.cr,
                                !.disable_fwd = IF r.repeat THEN 0 ELSE 1]
  <2>1. r \in [freq : Int, bw : Int, sf : Int, cr : Int, repeat : BOOLEAN]
    BY SettingsAssumption
  <2>2. /\ SetPrefs(p) /\ sensors' = sensors
        /\ radio' = [radio EXCEPT !.freq = r.freq, !.bw = r.bw, !.sf = r.sf,
                                  !.cr = r.cr]
        /\ r.repeat => r.freq \in AllowedRepeatFreq
    BY <1>2 DEF CmdSetRadioParams, isValidClientRepeatFreq
  <2>3. /\ MinFreq <= r.freq /\ r.freq <= MaxFreq
        /\ 5 <= r.sf /\ r.sf <= 12 /\ 5 <= r.cr /\ r.cr <= 8
    BY <1>2 DEF CmdSetRadioParams
  <2>4. Within(r.freq, "freq") /\ Within(r.sf, "sf") /\ Within(r.cr, "cr")
    BY <2>3, LimitsOrdered DEF Within
  <2>5. r.freq \in Int /\ r.bw \in Int /\ r.sf \in Int /\ r.cr \in Int
        /\ (IF r.repeat THEN 0 ELSE 1) \in Int
    BY <2>1
  <2>6. p \in Preferences
    BY <1>1, <2>5, FieldsNamed DEF Preferences
  <2>7. /\ p.freq = r.freq /\ p.bw = r.bw /\ p.sf = r.sf /\ p.cr = r.cr
        /\ p.disable_fwd = IF r.repeat THEN 0 ELSE 1
        /\ \A f \in Fields \ {"freq", "bw", "sf", "cr", "disable_fwd"} :
             p[f] = prefs[f]
    BY <1>1, FieldsNamed
  <2> HIDE DEF p
  <2>8. Accepted(p)
    BY <1>1, <2>4, <2>7, LimitsOrdered DEF Accepted, PutRight
  <2>9. MayRepeat(p)
    BY <2>1, <2>2, <2>7 DEF MayRepeat
  <2>10. RadioOf(p) = radio'
    BY <1>1, <2>2, <2>7, FieldsNamed DEF RadioOf
  <2> QED BY <2>2, <2>6, <2>8, <2>9, <2>10, CommandKeepsSettings
<1>3. ASSUME NEW power \in Int, CmdSetRadioTxPower(power)
      PROVE  SettingsIInv'
  <2> DEFINE p == [prefs EXCEPT !.tx_power_dbm = power]
  <2>1. /\ SetPrefs(p) /\ sensors' = sensors
        /\ radio' = [radio EXCEPT !.tx = power]
        /\ Within(power, "tx_power_dbm")
    BY <1>3, LimitsOrdered DEF CmdSetRadioTxPower, Within
  <2>2. /\ p \in Preferences /\ p["tx_power_dbm"] = power
        /\ \A f \in Fields \ {"tx_power_dbm"} : p[f] = prefs[f]
    BY <1>1, OneField, FieldsNamed
  <2> HIDE DEF p
  <2>3. Accepted(p) /\ MayRepeat(p)
    BY <1>1, <2>1, <2>2, LimitsOrdered, FieldsNamed DEF Accepted, MayRepeat
  <2>4. RadioOf(p) = radio'
    BY <1>1, <2>1, <2>2, FieldsNamed DEF RadioOf
  <2> QED BY <2>1, <2>2, <2>3, <2>4, CommandKeepsSettings
<1> QED BY <1>2, <1>3

(* The position and the GPS. *)
LEMMA PositionCommands ==
  ASSUME SettingsIInv, NEW v \in Int, NEW w \in Int,
         \/ CmdSetAdvertLatLon(v, w) \/ GpsFix(v, w)
         \/ CmdSetGps(IF v = 1 THEN 1 ELSE 0, w)
  PROVE  SettingsIInv'
<1>1. /\ prefs \in Preferences /\ Accepted(prefs) /\ MayRepeat(prefs)
      /\ radio = RadioOf(prefs) /\ commands \in 0..MaxCommands
  BY DEF SettingsIInv, SettingsTypesOK, RepeatOnAllowedFreq
<1>2. CASE CmdSetAdvertLatLon(v, w)
  <2> DEFINE p == WithPosition(prefs, <<v, w>>)
  <2>1. /\ prefs' = p /\ SavePrefs(p) /\ sensors' = <<v, w>>
        /\ commands < MaxCommands /\ commands' = commands + 1
        /\ legacyFile' = legacyFile /\ radio' = radio
    BY <1>2 DEF CmdSetAdvertLatLon
  <2>2. p \in Preferences /\ \A f \in Steady : p[f] = prefs[f]
    BY <1>1, PositionedPrefs
  <2> HIDE DEF p
  <2>3. Accepted(p) /\ MayRepeat(p) /\ radio' = RadioOf(p)
    BY <1>1, <2>1, <2>2, SteadyPrefs
  <2>4. commands' \in 0..MaxCommands
    BY <1>1, <2>1, SettingsAssumption
  <2> QED BY <2>1, <2>2, <2>3, <2>4, SavedSettings
<1>3. CASE GpsFix(v, w)
  <2>1. /\ UNCHANGED <<prefs, radio, prefsFile, legacyFile, unsaved, commands,
                       saveFaults>>
        /\ sensors' = <<v, w>>
    BY <1>3 DEF GpsFix
  <2>2. SettingsTypesOK'
    BY <2>1 DEF SettingsIInv, SettingsTypesOK
  <2>3. Loaded' = Loaded
    BY <2>1 DEF Loaded
  <2> QED BY <2>1, <2>2, <2>3
          DEF SettingsIInv, RepeatOnAllowedFreq, FileMayRepeat, StartsAsSaved
<1>4. CASE CmdSetGps(IF v = 1 THEN 1 ELSE 0, w)
  <2>1. Quietly
    BY <1>4 DEF CmdSetGps
  <2>2. ASSUME NEW f \in {"gps_enabled", "gps_interval"}, NEW x \in Int,
               Within(x, f), SetPrefs([prefs EXCEPT ![f] = x])
        PROVE  SettingsIInv'
    <3> DEFINE p == [prefs EXCEPT ![f] = x]
    <3>1. /\ p \in Preferences /\ p[f] = x
          /\ \A g \in Fields \ {f} : p[g] = prefs[g]
      BY <1>1, OneField, FieldsNamed
    <3>2. SetPrefs(p)
      BY <2>2
    <3> HIDE DEF p
    <3>3. Accepted(p)
      BY <1>1, <2>2, <3>1, LimitsOrdered DEF Accepted
    <3>4. MayRepeat(p) /\ RadioOf(p) = RadioOf(prefs)
      BY <1>1, <3>1, FieldsNamed DEF MayRepeat, RadioOf
    <3> QED
      BY <1>1, <2>1, <3>1, <3>2, <3>3, <3>4, CommandKeepsSettings DEF Quietly
  <2> DEFINE e == IF v = 1 THEN 1 ELSE 0
             x == constrain(w, 0, Day)
  <2>3. e \in Int /\ Within(e, "gps_enabled")
    BY LimitsOrdered DEF Within
  <2>4. x \in Int /\ Within(x, "gps_interval")
    BY LimitsOrdered DEF Within, constrain
  <2>5. \/ SetPrefs([prefs EXCEPT ![("gps_enabled")] = e])
        \/ SetPrefs([prefs EXCEPT ![("gps_interval")] = x])
    BY <1>4 DEF CmdSetGps
  <2> HIDE DEF e, x
  <2> QED BY <2>2, <2>3, <2>4, <2>5
<1> QED BY <1>2, <1>3, <1>4

(* A node that has started holds what a start makes of its files. *)
LEMMA SettingsStart ==
  ASSUME SettingsInit
  PROVE  SettingsIInv
<1> DEFINE loaded == IF legacyFile = NoPrefs THEN Defaults
                     ELSE Overlay(Defaults, LegacyOrder, legacyFile)
<1>1. legacyFile \in LegacyFiles /\ commands = 0 /\ saveFaults = 0
  BY DEF SettingsInit
<1>2. loaded \in Preferences /\ MayRepeat(loaded)
  <2>1. CASE legacyFile = NoPrefs
    BY <2>1, SettingsAssumption DEF MayRepeat
  <2>2. CASE legacyFile # NoPrefs
    <3>1. /\ legacyFile.fields \in Nat /\ legacyFile.prefs \in Preferences
          /\ MayRepeat(legacyFile.prefs) /\ Defaults \in Preferences
      BY <1>1, <2>2, SettingsAssumption
    <3> QED BY <2>2, <3>1, OverlaidPrefs, CutMayRepeat
  <2> QED BY <2>1, <2>2
<1>3. /\ loaded.node_lat \in Int /\ loaded.node_lon \in Int
      /\ Sanitised(loaded) \in Preferences /\ Accepted(Sanitised(loaded))
      /\ MayRepeat(Sanitised(loaded))
  BY <1>2, FieldsNamed, SanitisedPrefs DEF Preferences
<1>4. /\ prefs = Sanitised(loaded) /\ radio = RadioOf(prefs)
      /\ sensors = <<loaded.node_lat, loaded.node_lon>>
  BY DEF SettingsInit
<1>5. /\ prefsFile = NoPrefs \/ prefsFile = Whole(loaded)
           \/ \E n \in Cuts : prefsFile = [fields |-> n, prefs |-> loaded]
      /\ legacyFile = NoPrefs => prefsFile = NoPrefs
      /\ unsaved = (legacyFile # NoPrefs /\ prefsFile # Whole(loaded))
  BY DEF SettingsInit
<1>6. /\ prefsFile \in PrefsFiles \union {NoPrefs}
      /\ prefsFile # NoPrefs => prefsFile.prefs = loaded
  <2>1. ASSUME NEW n \in Cuts
        PROVE  [fields |-> n, prefs |-> loaded] \in PrefsFiles
    <3>1. n \in 0..28
      BY SettingsAssumption, FieldPlaces
    <3> HIDE DEF loaded
    <3> QED BY <1>2, <3>1, FieldPlaces DEF PrefsFiles
  <2> HIDE DEF loaded
  <2> QED BY <1>2, <1>5, <2>1, WholeIsRead
<1>7. ~unsaved => Loaded = loaded
  <2>1. CASE prefsFile = NoPrefs
    BY <1>5, <2>1, <1>2, WholeIsRead DEF Loaded
  <2>2. CASE prefsFile # NoPrefs
    BY <1>2, <1>5, <2>2, WholeIsRead DEF Loaded
  <2> QED BY <2>1, <2>2
<1> HIDE DEF loaded
<1>8. SettingsTypesOK
  BY <1>1, <1>3, <1>4, <1>6, SettingsAssumption DEF SettingsTypesOK
<1>9. FileMayRepeat /\ StartsAsSaved
  BY <1>2, <1>4, <1>6, <1>7 DEF FileMayRepeat, StartsAsSaved
<1> QED BY <1>3, <1>4, <1>8, <1>9 DEF SettingsIInv, RepeatOnAllowedFreq

(* Every step keeps the invariant, one that exercises another part too. *)
LEMMA SettingsStep ==
  ASSUME SettingsIInv, [SettingsNext]_settingsVars
  PROVE  SettingsIInv'
<1>1. SmallValues \subseteq Int
  BY SettingsAssumption
<1>2. CASE UNCHANGED settingsVars
  <2>1. SettingsTypesOK' /\ Loaded' = Loaded
    BY <1>2 DEF settingsVars, SettingsIInv, SettingsTypesOK, Loaded
  <2> QED BY <1>2, <2>1 DEF settingsVars, SettingsIInv, RepeatOnAllowedFreq,
                            FileMayRepeat, StartsAsSaved
<1>3. CASE Reboot
  BY <1>3, StartKeepsSettings
<1>4. CASE SettingsCommand
  <2>1. ASSUME NEW r \in RadioRequests,
               CmdSetRadioParams(r.freq, r.bw, r.sf, r.cr, r.repeat)
        PROVE  SettingsIInv'
    BY <2>1, RadioCommands
  <2>2. ASSUME NEW v \in SmallValues, NEW w \in SmallValues,
               CmdSetAdvertLatLon(v, w) \/ GpsFix(v, w)
                 \/ CmdSetGps(IF v = 1 THEN 1 ELSE 0, w)
        PROVE  SettingsIInv'
    BY <1>1, <2>2, PositionCommands
  <2>3. ASSUME NEW v \in SmallValues, NEW w \in SmallValues,
               \/ CmdSetTuningParams(v, w) \/ CmdSetDefaultFloodScope(v, v)
               \/ \E len \in 2..5 : CmdSetOtherParams(v, w, w, v, len)
               \/ \E len \in 2..3 : CmdSetAutoaddConfig(v, w, len)
        PROVE  SettingsIInv'
    BY <1>1, <2>3, QuietCommands
  <2>4. ASSUME NEW v \in SmallValues, CmdSetRadioTxPower(v)
        PROVE  SettingsIInv'
    BY <1>1, <2>4, RadioCommands
  <2>5. ASSUME NEW v \in SmallValues,
               \/ CmdSetAdvertName(v) \/ CmdSetPathHashMode(v)
               \/ CmdSetDevicePin(v) \/ RescueSetPin(v)
        PROVE  SettingsIInv'
    BY <1>1, <2>5, QuietCommands
  <2> QED BY <1>4, <2>1, <2>2, <2>3, <2>4, <2>5 DEF SettingsCommand
<1> QED BY <1>2, <1>3, <1>4 DEF SettingsNext

(* The settings in use are legal, the file and its older form load as legal
   ones, and the radio repeats only where it may, after any commands, console
   lines, failed saves and restarts (NodePrefs.h, MyMesh.cpp). *)
THEOREM SettingsInvariant == SettingsSpec => []SettingsIInv
<1>1. SettingsInit => SettingsIInv
  BY SettingsStart
<1>2. SettingsIInv /\ [SettingsNext]_settingsVars => SettingsIInv'
  BY SettingsStep
<1> QED BY <1>1, <1>2, PTL DEF SettingsSpec

(* The preferences are numbers, the radio runs with them, and the files hold
   what savePrefs and an older firmware leave there. *)
THEOREM SettingsTypeCorrect == SettingsSpec => []SettingsTypesOK
<1>1. SettingsIInv => SettingsTypesOK
  BY DEF SettingsIInv
<1> QED BY <1>1, SettingsInvariant, PTL

(* The node repeats only where it may, whichever saves were cut wherever. *)
THEOREM RepeatsOnlyWhereAllowed == SettingsSpec => []RepeatOnAllowedFreq
<1>1. SettingsIInv => RepeatOnAllowedFreq
  BY DEF SettingsIInv
<1> QED BY <1>1, SettingsInvariant, PTL

(* A restart keeps every setting that was saved, but for the three that a
   start puts right. *)
THEOREM RestartKeepsSettings == SettingsSpec => RebootKeepsSettings
<1>1. ASSUME SettingsIInv, ~unsaved, Reboot, NEW f \in Fields \ PutRight
      PROVE  prefs'[f] = prefs[f]
  BY <1>1, StartKeepsSettings DEF SettingsIInv, StartsAsSaved
<1>2. SettingsIInv =>
        [~unsaved /\ commands' = commands /\ prefs' # prefs /\ Reboot =>
           \A f \in Fields \ PutRight : prefs'[f] = prefs[f]]_settingsVars
  BY <1>1
<1> QED BY <1>2, SettingsInvariant, PTL DEF RebootKeepsSettings

-----------------------------------------------------------------------------
(***************************************************************************)
(* Identity and channels, for any numbers of slots, operations and         *)
(* faults: what the files hold is what the node has in RAM, but for the    *)
(* channel setup() adds, wherever the history does not say otherwise.      *)
(***************************************************************************)

FilesSpec == FilesInit /\ [][FilesNext]_fileVars

Channels == ChannelNames \union {NoChannel, PublicChannel}

Tables == [ChannelSlotNumbers -> Channels]

NodeFileSets ==
  [id : Identities \union {NoIdentity},
   channels : {c \in Seq(Channels) : Len(c) <= MAX_GROUP_CHANNELS},
   contacts : Nat]

FilesShape ==
  /\ self_id \in Identities /\ channels \in Tables /\ contactRev \in Nat
  /\ files \in NodeFileSets
  /\ wiped \subseteq FileNames

FilesHoldRam ==
  /\ "id" \notin wiped => files.id = self_id
  /\ "channels" \notin wiped =>
       SameButPublic(channels, LoadedChannels(files.channels))

FilesIInv == FilesShape /\ FilesHoldRam

(* A table written whole is a file that loads as the table. *)
LEMMA TableIsFile ==
  ASSUME NEW c \in Tables
  PROVE  /\ AllSlots(c) \in Seq(Channels) /\ Len(AllSlots(c)) = MAX_GROUP_CHANNELS
         /\ LoadedChannels(AllSlots(c)) = c
<1>1. MAX_GROUP_CHANNELS \in Nat
  BY NodeFilesAssumption
<1>2. c \in Seq(Channels) /\ Len(c) = MAX_GROUP_CHANNELS
  BY <1>1 DEF Tables, ChannelSlotNumbers
<1>3. LoadedChannels(c) = [i \in ChannelSlotNumbers |-> c[i]]
  BY DEF LoadedChannels, Tables
<1>4. c = [i \in ChannelSlotNumbers |-> c[i]]
  BY DEF Tables
<1> QED BY <1>2, <1>3, <1>4 DEF AllSlots

(* So is each first part of one, and whatever is there loads as a table. *)
LEMMA PartIsFile ==
  ASSUME NEW c \in Tables, NEW n \in 0..(MAX_GROUP_CHANNELS - 1)
  PROVE  SubSeq(c, 1, n) \in Seq(Channels) /\ Len(SubSeq(c, 1, n)) <= MAX_GROUP_CHANNELS
<1>1. MAX_GROUP_CHANNELS \in Nat
  BY NodeFilesAssumption
<1>2. c \in Seq(Channels) /\ Len(c) = MAX_GROUP_CHANNELS
  BY <1>1 DEF Tables, ChannelSlotNumbers
<1> QED BY <1>1, <1>2

(* Whatever channels a file holds, they load as a whole table. *)
LEMMA FileIsTable ==
  ASSUME NEW f \in Seq(Channels)
  PROVE  LoadedChannels(f) \in Tables
<1>1. \A i \in DOMAIN f : f[i] \in Channels
  OBVIOUS
<1> QED BY <1>1 DEF LoadedChannels, Tables, Channels

(* A table is the same as itself, the public channel included. *)
LEMMA SameAsItself ==
  ASSUME NEW c
  PROVE  SameButPublic(c, c)
  BY DEF SameButPublic

(* Saving the channels leaves the table in the file, or the history says that
   the file stands behind. *)
LEMMA SavedChannels ==
  ASSUME FilesShape, NEW c \in Tables, saveChannels(c)
  PROVE  /\ files' \in NodeFileSets /\ files'.id = files.id
         /\ wiped' \subseteq FileNames /\ ("id" \in wiped' <=> "id" \in wiped)
         /\ "channels" \notin wiped' => LoadedChannels(files'.channels) = c
<1>1. CASE files' = [files EXCEPT !.channels = AllSlots(c)]
           /\ wiped' = wiped \ {"channels"}
  BY <1>1, TableIsFile DEF FilesShape, NodeFileSets
<1>2. ASSUME NEW part1 \in {files.channels} \union CutChannels(c),
             files' = [files EXCEPT !.channels = part1],
             wiped' = wiped \union {"channels"}
      PROVE  /\ files' \in NodeFileSets /\ files'.id = files.id
             /\ wiped' \subseteq FileNames /\ "channels" \in wiped'
             /\ "id" \in wiped' <=> "id" \in wiped
  <2>1. part1 \in Seq(Channels) /\ Len(part1) <= MAX_GROUP_CHANNELS
    BY PartIsFile DEF CutChannels, FilesShape, NodeFileSets
  <2> QED BY <1>2, <2>1 DEF FilesShape, NodeFileSets, FileNames
<1> QED BY <1>1, <1>2 DEF saveChannels

(* The tables a start makes of a file differ from it by the added channel. *)
LEMMA StartedTables ==
  ASSUME NEW f \in Seq(Channels), NEW c,
         c \in WithPublic(LoadedChannels(f)) \union {LoadedChannels(f)}
  PROVE  /\ c \in Tables
         /\ \A i \in ChannelSlotNumbers :
              c[i] = PublicChannel \/ c[i] = LoadedChannels(f)[i]
<1> DEFINE l == LoadedChannels(f)
<1>1. l \in Tables
  BY FileIsTable
<1> HIDE DEF l
<1>2. ASSUME NEW j \in ChannelSlotNumbers, c = [l EXCEPT ![j] = PublicChannel]
      PROVE  /\ c \in Tables
             /\ \A i \in ChannelSlotNumbers : c[i] = PublicChannel \/ c[i] = l[i]
  BY <1>1, <1>2 DEF Tables, Channels
<1>3. c \in WithPublic(l) \union {l}
  BY DEF l
<1> QED BY <1>1, <1>2, <1>3 DEF WithPublic, l

(* A start from files of any kind makes a node that stands as they do. *)
LEMMA BegunNode ==
  ASSUME NEW f \in NodeFileSets, BeginWith(f)
  PROVE  FilesIInv'
<1>1. /\ f.channels \in Seq(Channels) /\ Len(f.channels) <= MAX_GROUP_CHANNELS
      /\ f.contacts \in Nat /\ f.id \in Identities \union {NoIdentity}
  BY DEF NodeFileSets
<1>2. /\ channels' \in Tables
      /\ SameButPublic(channels', LoadedChannels(f.channels))
  BY <1>1, StartedTables DEF BeginWith, SameButPublic
<1>3. contactRev' \in Nat
  BY <1>1 DEF BeginWith
<1>4. /\ self_id' \in Identities /\ files' \in NodeFileSets
      /\ files'.channels = f.channels
      /\ wiped' \subseteq FileNames
      /\ "id" \notin wiped' => files'.id = self_id'
  <2>1. CASE f.id # NoIdentity /\ self_id' = f.id /\ files' = f /\ wiped' = {}
    BY <1>1, <2>1
  <2>2. ASSUME NEW id \in Identities, self_id' = id,
               \/ files' = [f EXCEPT !.id = id] /\ wiped' = {}
               \/ files' = f /\ wiped' = {"id"}
        PROVE  <1>4
    BY <2>2 DEF NodeFileSets, FileNames
  <2> QED BY <2>1, <2>2 DEF BeginWith
<1> QED BY <1>2, <1>3, <1>4 DEF FilesIInv, FilesShape, FilesHoldRam, SameButPublic, LoadedChannels

(* Erased files are files. *)
LEMMA ErasedFiles ==
  /\ Erased \in NodeFileSets
  /\ Erased.id = NoIdentity /\ Erased.channels = <<>> /\ Erased.contacts = 0
<1>1. <<>> \in Seq(Channels) /\ Len(<<>>) <= MAX_GROUP_CHANNELS
  BY NodeFilesAssumption
<1> QED BY <1>1 DEF Erased, NodeFileSets

(* Files of which some were erased are files; the others are as before. *)
LEMMA WithoutFiles ==
  ASSUME NEW f \in NodeFileSets, NEW lost \in SUBSET FileNames
  PROVE  /\ Without(f, lost) \in NodeFileSets
         /\ "id" \notin lost => Without(f, lost).id = f.id
         /\ "channels" \notin lost => Without(f, lost).channels = f.channels
<1>1. /\ Erased.id = NoIdentity /\ Erased.contacts = 0
      /\ Erased.channels \in Seq(Channels)
      /\ Len(Erased.channels) <= MAX_GROUP_CHANNELS
  BY ErasedFiles DEF NodeFileSets
<1> QED BY <1>1 DEF Without, NodeFileSets

(* A format that fails leaves what RAM holds in every file but the erased. *)
LEMMA FailedFormat ==
  ASSUME FilesIInv, FormatFails, UNCHANGED Ram
  PROVE  FilesIInv'
<1>1. PICK lost \in SUBSET FileNames :
        files' = Without(files, lost) /\ wiped' = wiped \union lost
  BY DEF FormatFails
<1>2. /\ files' \in NodeFileSets
      /\ "id" \notin lost => files'.id = files.id
      /\ "channels" \notin lost => files'.channels = files.channels
  BY <1>1, WithoutFiles DEF FilesIInv, FilesShape
<1>3. FilesShape'
  BY <1>1, <1>2 DEF FilesIInv, FilesShape, Ram
<1> QED BY <1>1, <1>2, <1>3
        DEF FilesIInv, FilesHoldRam, Ram, SameButPublic, LoadedChannels

(* Every step keeps the invariant, one that exercises another part too. *)
LEMMA FilesStep ==
  ASSUME FilesIInv, [FilesNext]_fileVars
  PROVE  FilesIInv'
<1> USE DEF FilesIInv
<1>1. CASE UNCHANGED fileVars
  BY <1>1 DEF fileVars, FilesShape, FilesHoldRam, SameButPublic, LoadedChannels
<1>2. ASSUME NEW slot \in ChannelSlotNumbers, NEW ch \in ChannelNames,
             CmdSetChannel(slot, ch)
      PROVE  FilesIInv'
  <2> DEFINE c == [channels EXCEPT ![slot] = ch]
  <2>1. c \in Tables
    BY DEF FilesShape, Tables, Channels
  <2>2. /\ channels' = c /\ saveChannels(c)
        /\ self_id' = self_id /\ contactRev' = contactRev
    BY <1>2 DEF CmdSetChannel
  <2> HIDE DEF c
  <2>3. /\ files' \in NodeFileSets /\ files'.id = files.id
        /\ wiped' \subseteq FileNames /\ ("id" \in wiped' <=> "id" \in wiped)
        /\ "channels" \notin wiped' => LoadedChannels(files'.channels) = c
    BY <2>1, <2>2, SavedChannels
  <2>4. FilesShape'
    BY <2>1, <2>2, <2>3 DEF FilesShape
  <2>5. "channels" \notin wiped' =>
          SameButPublic(channels', LoadedChannels(files'.channels))
    BY <2>2, <2>3, SameAsItself
  <2>6. LoadedChannels(files.channels)' = LoadedChannels(files'.channels)
    BY DEF LoadedChannels
  <2> QED BY <2>2, <2>3, <2>4, <2>5, <2>6 DEF FilesHoldRam, SameButPublic
<1>3. CASE ContactChanges
  <2>1. /\ contactRev' = contactRev + 1
        /\ UNCHANGED <<self_id, channels, files, wiped>>
    BY <1>3 DEF ContactChanges
  <2> QED BY <2>1 DEF FilesShape, FilesHoldRam, SameButPublic, LoadedChannels
<1>4. CASE SaveContacts
  <2>1. /\ files' = [files EXCEPT !.contacts = contactRev]
        /\ wiped' = wiped \ {"contacts"}
        /\ UNCHANGED <<self_id, channels, contactRev>>
    BY <1>4 DEF SaveContacts, Ram
  <2>2. FilesShape' /\ files'.id = files.id /\ files'.channels = files.channels
    BY <2>1 DEF FilesShape, NodeFileSets
  <2> QED BY <2>1, <2>2 DEF FilesHoldRam, SameButPublic, LoadedChannels
<1>5. ASSUME NEW id \in Identities, CmdImportPrivateKey(id)
      PROVE  FilesIInv'
  <2>1. channels' = channels
    BY <1>5 DEF CmdImportPrivateKey
  <2>2. CASE /\ files' = [files EXCEPT !.id = id]
             /\ self_id' = id /\ contactRev' = files.contacts
             /\ wiped' = wiped \ {"id"}
    <3>1. /\ FilesShape' /\ files'.id = id
          /\ files'.channels = files.channels
      BY <2>1, <2>2 DEF FilesShape, NodeFileSets
    <3> QED BY <2>1, <2>2, <3>1 DEF FilesHoldRam, SameButPublic, LoadedChannels
  <2>3. ASSUME NEW kept \in {files.id, NoIdentity},
               files' = [files EXCEPT !.id = kept],
               wiped' = wiped \union (IF files'.id = self_id THEN {} ELSE {"id"}),
               UNCHANGED <<self_id, contactRev>>
        PROVE  FilesIInv'
    <3>1. /\ FilesShape' /\ files'.channels = files.channels
      BY <2>1, <2>3 DEF FilesShape, NodeFileSets, FileNames
    <3>2. /\ "id" \notin wiped' => files'.id = self_id'
          /\ "channels" \in wiped' <=> "channels" \in wiped
      BY <2>3
    <3> QED BY <2>1, <3>1, <3>2 DEF FilesHoldRam, SameButPublic, LoadedChannels
  <2> QED BY <1>5, <2>2, <2>3 DEF CmdImportPrivateKey
<1>6. CASE NodeRestart
  BY <1>6, BegunNode DEF NodeRestart, FilesShape
<1>7. CASE CmdFactoryReset
  <2>1. CASE BeginWith(Erased)
    BY <2>1, BegunNode, ErasedFiles
  <2>2. CASE FormatFails /\ UNCHANGED Ram
    BY <2>2, FailedFormat
  <2> QED BY <1>7, <2>1, <2>2 DEF CmdFactoryReset
<1>8. CASE RescueErase
  <2>1. CASE files' = Erased /\ wiped' = FileNames /\ UNCHANGED Ram
    BY <2>1, ErasedFiles DEF Ram, FilesShape, FilesHoldRam, FileNames
  <2>2. CASE FormatFails /\ UNCHANGED Ram
    BY <2>2, FailedFormat
  <2> QED BY <1>8, <2>1, <2>2 DEF RescueErase
<1>9. CASE RescueRebuild
  <2> DEFINE whole == [id |-> self_id, channels |-> AllSlots(channels),
                       contacts |-> contactRev]
  <2>1. UNCHANGED Ram
    BY <1>9 DEF RescueRebuild
  <2>2. /\ whole \in NodeFileSets /\ whole.id = self_id
        /\ LoadedChannels(whole.channels) = channels
    BY TableIsFile, NodeFilesAssumption DEF FilesShape, NodeFileSets
  <2> HIDE DEF whole
  <2>3. ASSUME NEW lost \in SUBSET FileNames, NEW part1 \in CutChannels(channels),
               files' = [Without(whole, lost) EXCEPT
                           !.channels = IF "channels" \in lost THEN part1 ELSE @],
               wiped' = lost
        PROVE  FilesIInv'
    <3>1. /\ Without(whole, lost) \in NodeFileSets
          /\ "id" \notin lost => Without(whole, lost).id = self_id
          /\ "channels" \notin lost => Without(whole, lost).channels = whole.channels
      BY <2>2, WithoutFiles
    <3>2. part1 \in Seq(Channels) /\ Len(part1) <= MAX_GROUP_CHANNELS
      BY PartIsFile DEF CutChannels, FilesShape
    <3>3. /\ files' \in NodeFileSets
          /\ "id" \notin lost => files'.id = self_id
          /\ "channels" \notin lost => files'.channels = whole.channels
      BY <2>3, <3>1, <3>2 DEF NodeFileSets
    <3>4. FilesShape'
      BY <2>1, <2>3, <3>3 DEF Ram, FilesShape
    <3> QED BY <2>1, <2>2, <2>3, <3>3, <3>4
            DEF Ram, FilesHoldRam, SameButPublic, LoadedChannels
  <2>4. CASE files' = whole /\ wiped' = {}
    <3>1. FilesShape'
      BY <2>1, <2>2, <2>4 DEF Ram, FilesShape
    <3> QED BY <2>1, <2>2, <2>4, <3>1
            DEF Ram, FilesHoldRam, SameButPublic, LoadedChannels
  <2>5. CASE FormatFails
    BY <2>1, <2>5, FailedFormat
  <2>6. \/ files' = whole /\ wiped' = {}
        \/ \E lost \in SUBSET FileNames \ {{}}, part1 \in CutChannels(channels) :
             /\ files' = [Without(whole, lost) EXCEPT
                            !.channels = IF "channels" \in lost THEN part1 ELSE @]
             /\ wiped' = lost
        \/ FormatFails
    BY <1>9 DEF RescueRebuild, whole
  <2> QED BY <2>3, <2>4, <2>5, <2>6
<1>10. ASSUME NEW name \in FileNames, RescueRemove(name)
       PROVE  FilesIInv'
  <2>1. /\ files' = [files EXCEPT ![name] = Erased[name]]
        /\ wiped' = wiped \union {name} /\ UNCHANGED Ram
    BY <1>10 DEF RescueRemove
  <2>2. CASE name = "id"
    <3>1. FilesShape' /\ files'.channels = files.channels
      BY <2>1, <2>2, ErasedFiles DEF FilesShape, NodeFileSets, FileNames, Ram
    <3> QED BY <2>1, <2>2, <3>1
            DEF Ram, FilesHoldRam, SameButPublic, LoadedChannels
  <2>3. CASE name = "channels"
    <3>1. FilesShape' /\ files'.id = files.id
      BY <2>1, <2>3, ErasedFiles DEF FilesShape, NodeFileSets, FileNames, Ram
    <3> QED BY <2>1, <2>3, <3>1
            DEF Ram, FilesHoldRam, SameButPublic, LoadedChannels
  <2>4. CASE name = "contacts"
    <3>1. FilesShape' /\ files'.id = files.id /\ files'.channels = files.channels
      BY <2>1, <2>4, ErasedFiles DEF FilesShape, NodeFileSets, FileNames, Ram
    <3> QED BY <2>1, <2>4, <3>1
            DEF Ram, FilesHoldRam, SameButPublic, LoadedChannels
  <2> QED BY <2>2, <2>3, <2>4 DEF FileNames
<1> QED BY <1>1, <1>2, <1>3, <1>4, <1>5, <1>6, <1>7, <1>8, <1>9, <1>10
        DEF FilesNext

(* The node that FilesInit describes has its identity and the channel that
   setup() added. *)
LEMMA FilesStart ==
  ASSUME FilesInit
  PROVE  FilesIInv
<1>1. channels \in Tables
  BY DEF FilesInit, Tables, Channels
<1>2. /\ files \in NodeFileSets /\ files.id = self_id /\ files.channels = <<>>
  BY ErasedFiles DEF FilesInit, NodeFileSets
<1>3. FilesShape
  BY <1>1, <1>2 DEF FilesInit, FilesShape
<1>4. SameButPublic(channels, LoadedChannels(<<>>))
  BY DEF FilesInit, SameButPublic, LoadedChannels
<1> QED BY <1>2, <1>3, <1>4 DEF FilesIInv, FilesHoldRam

(* Identity and channels in RAM are those the files give back, but for what a
   save that failed or the console left behind, which the history names. *)
THEOREM FilesInvariant == FilesSpec => []FilesIInv
<1>1. FilesInit => FilesIInv
  BY FilesStart
<1>2. FilesIInv /\ [FilesNext]_fileVars => FilesIInv'
  BY FilesStep
<1> QED BY <1>1, <1>2, PTL DEF FilesSpec

(* Identity, channels and their files hold what they may. *)
THEOREM FilesTypeCorrect == FilesSpec => []FilesTypesOK
<1>1. FilesIInv => FilesTypesOK
  BY DEF FilesIInv, FilesShape, FilesTypesOK, NodeFileSets, Tables, Channels
<1> QED BY <1>1, FilesInvariant, PTL

(* A restart keeps the identity and every channel in its slot, but for the one
   that setup() adds and what the history of wiped files allows. *)
THEOREM RestartKeepsIdentityAndChannels == FilesSpec => RestartKeepsNode
<1>1. ASSUME FilesIInv, NodeRestart, "id" \notin wiped
      PROVE  self_id' = self_id
  <2>1. files.id = self_id /\ self_id \in Identities
    BY <1>1 DEF FilesIInv, FilesShape, FilesHoldRam
  <2>2. files.id # NoIdentity
    BY <2>1, NodeFilesAssumption
  <2> QED BY <1>1, <2>1, <2>2 DEF NodeRestart, BeginWith
<1>2. ASSUME FilesIInv, NodeRestart, "channels" \notin wiped
      PROVE  SameButPublic(channels, channels')
  <2>1. files.channels \in Seq(Channels)
    BY <1>2 DEF FilesIInv, FilesShape, NodeFileSets
  <2>2. \A i \in ChannelSlotNumbers :
          channels'[i] = PublicChannel
            \/ channels'[i] = LoadedChannels(files.channels)[i]
    BY <1>2, <2>1, StartedTables DEF NodeRestart, BeginWith
  <2>3. SameButPublic(channels, LoadedChannels(files.channels))
    BY <1>2 DEF FilesIInv, FilesHoldRam
  <2> QED BY <2>2, <2>3 DEF SameButPublic
<1>3. FilesIInv =>
        [fileVars' # fileVars /\ NodeRestart =>
           /\ "id" \notin wiped => self_id' = self_id
           /\ "channels" \notin wiped => SameButPublic(channels, channels')]_fileVars
  BY <1>1, <1>2
<1> QED BY <1>3, FilesInvariant, PTL DEF RestartKeepsNode

-----------------------------------------------------------------------------
(***************************************************************************)
(* Stored adverts, for any keys and any number of records.  A key has one  *)
(* record at most, and a key that has none was put no later than any that  *)
(* has: what gives way is the oldest record, and time does not go back.    *)
(***************************************************************************)

BlobSpec == BlobInit /\ [][BlobNext]_blobVars

BlobShape ==
  /\ fixedFile \in BOOLEAN
  /\ blobFiles \in [BlobKeys -> 1..MaxPuts \union {NoBlob}]
  /\ adv_blobs \in [Records -> [timestamp : 0..MaxBlobTime,
                                key : BlobKeys \union {NoBlob},
                                blob : 1..MaxPuts \union {NoBlob}]]
  /\ blobTime \in 0..MaxBlobTime /\ puts \in 0..MaxPuts
  /\ newest \in [BlobKeys -> [blob : 1..MaxPuts \union {NoBlob},
                              at : 0..MaxBlobTime]]
  /\ torn \subseteq BlobKeys

OneRecordEach ==
  \A i, j \in Records :
    adv_blobs[i].key \in BlobKeys /\ adv_blobs[i].key = adv_blobs[j].key => i = j

PastTimes ==
  /\ \A i \in Records : adv_blobs[i].timestamp <= blobTime
  /\ \A k \in BlobKeys : newest[k].at <= blobTime

FilesAreNewest ==
  \A k \in BlobKeys \ torn : blobFiles[k] \in {NoBlob, newest[k].blob}

RecordsAreNewest ==
  \A k \in BlobKeys, i \in Records : adv_blobs[i].key = k =>
    /\ newest[k].at <= adv_blobs[i].timestamp
    /\ k \notin torn => adv_blobs[i].blob = newest[k].blob

OldestGaveWay ==
  \A k \in BlobKeys : RecordsOf(k) = {} =>
    \A i \in Records : newest[k].at <= adv_blobs[i].timestamp

BlobIInv ==
  /\ BlobShape
  /\ OneRecordEach /\ PastTimes
  /\ ~fixedFile => FilesAreNewest
  /\ fixedFile => RecordsAreNewest /\ OldestGaveWay

(* A set of numbers that is not empty has a least one: induction over the data
   of a state, for the oldest record. *)
LEMMA LeastOf ==
  ASSUME NEW T, T \subseteq Nat, T # {}
  PROVE  \E x \in T : \A y \in T : x <= y
<1>1. \E x \in T : \A y \in T : ~(<<y, x>> \in OpToRel(<, Nat))
  BY NatLessThanWellFounded, WFMin
<1>2. PICK x \in T : \A y \in T : ~(<<y, x>> \in OpToRel(<, Nat))
  BY <1>1
<1>3. \A y \in T : ~(y < x)
  BY <1>2 DEF OpToRel
<1> QED BY <1>3

(* The record a put goes to is the key's, or the key has none and it is the
   oldest. *)
LEMMA RecordChosen ==
  ASSUME BlobShape, OneRecordEach, NEW key \in BlobKeys
  PROVE  /\ RecordFor(key) \in Records
         /\ \/ RecordsOf(key) = {RecordFor(key)}
            \/ /\ RecordsOf(key) = {}
               /\ \A j \in Records :
                    adv_blobs[RecordFor(key)].timestamp <= adv_blobs[j].timestamp
<1>1. Records \subseteq Nat /\ 1 \in Records
  BY BlobStoreAssumption DEF Records
<1>2. CASE RecordsOf(key) # {}
  <2>1. \E i \in RecordsOf(key) : \A j \in RecordsOf(key) : i <= j
    BY <1>1, <1>2, LeastOf DEF RecordsOf
  <2>2. RecordFor(key) \in RecordsOf(key)
    BY <1>2, <2>1 DEF RecordFor
  <2>3. \A i, j \in RecordsOf(key) : i = j
    BY DEF RecordsOf, OneRecordEach
  <2> QED BY <2>2, <2>3 DEF RecordsOf
<1>3. CASE RecordsOf(key) = {}
  <2> DEFINE time(i) == adv_blobs[i].timestamp
             Clocks == {time(i) : i \in Records}
  <2>1. \A i \in Records : time(i) \in Nat
    BY BlobStoreAssumption DEF BlobShape
  <2>2. Clocks \subseteq Nat /\ Clocks # {}
    BY <1>1, <2>1
  <2>3. PICK t \in Clocks : \A u \in Clocks : t <= u
    <3> HIDE DEF Clocks
    <3> QED BY <2>2, LeastOf
  <2> DEFINE Oldest == {i \in Records : time(i) = t}
  <2>4. Oldest \subseteq Nat /\ Oldest # {}
    BY <1>1, <2>3
  <2>5. PICK o \in Oldest : \A j \in Oldest : o <= j
    <3> HIDE DEF Oldest
    <3> QED BY <2>4, LeastOf
  <2>6. o \in Records /\ \A j \in Records : time(o) <= time(j)
                                /\ (time(o) = time(j) => o <= j)
    BY <2>3, <2>5
  <2>7. /\ RecordFor(key) \in Records
        /\ \A j \in Records : time(RecordFor(key)) <= time(j)
    BY <1>3, <2>6 DEF RecordFor
  <2> QED BY <1>3, <2>7
<1> QED BY <1>2, <1>3

(* Putting a record keeps what is known of the records. *)
LEMMA PutRecordKeeps ==
  ASSUME BlobIInv, fixedFile, NEW key \in BlobKeys, PutRecord(key),
         puts < MaxPuts, puts' = puts + 1, UNCHANGED <<fixedFile, blobTime>>
  PROVE  BlobIInv'
<1> DEFINE r == RecordFor(key)
           new == [timestamp |-> blobTime, key |-> key, blob |-> puts + 1]
<1>1. /\ MaxBlobTime \in Nat /\ MaxPuts \in Nat /\ NoBlob \notin BlobKeys
      /\ BlobShape /\ OneRecordEach /\ PastTimes
      /\ RecordsAreNewest /\ OldestGaveWay
  BY BlobStoreAssumption DEF BlobIInv
<1>2. /\ r \in Records
      /\ \/ RecordsOf(key) = {r}
         \/ /\ RecordsOf(key) = {}
            /\ \A j \in Records : adv_blobs[r].timestamp <= adv_blobs[j].timestamp
  BY <1>1, RecordChosen
<1>3. /\ adv_blobs' = [adv_blobs EXCEPT ![r] = new]
      /\ blobFiles' = blobFiles
      /\ \/ /\ newest' = [newest EXCEPT ![key] =
                            [blob |-> puts + 1, at |-> blobTime]]
            /\ torn' = torn \ {key}
         \/ newest' = newest /\ torn' = torn \union {key}
  BY DEF PutRecord
<1> HIDE DEF r
<1>4. /\ blobTime \in 0..MaxBlobTime /\ puts + 1 \in 1..MaxPuts /\ puts' \in 0..MaxPuts
      /\ \A i \in Records : adv_blobs[i].timestamp \in Nat
      /\ \A k \in BlobKeys : newest[k].at \in Nat
  BY <1>1 DEF BlobShape
<1>5. /\ adv_blobs'[r] = new
      /\ \A i \in Records \ {r} : adv_blobs'[i] = adv_blobs[i]
  BY <1>1, <1>2, <1>3 DEF BlobShape
<1>6. BlobShape'
  BY <1>1, <1>2, <1>3, <1>4 DEF BlobShape
<1>7. \A i \in Records \ {r} : adv_blobs[i].key # key
  BY <1>2 DEF RecordsOf
<1>8. OneRecordEach'
  BY <1>1, <1>5, <1>7 DEF OneRecordEach
<1>9. ASSUME NEW k \in BlobKeys, k # key
       PROVE  newest'[k] = newest[k] /\ (k \notin torn' => k \notin torn)
  BY <1>1, <1>3, <1>9 DEF BlobShape
<1>10. \/ /\ newest'[key].at = blobTime /\ newest'[key].blob = puts + 1
       \/ newest'[key] = newest[key] /\ key \in torn'
  BY <1>1, <1>3 DEF BlobShape
<1>11. PastTimes'
  <2>1. \A i \in Records : adv_blobs'[i].timestamp <= blobTime
    BY <1>1, <1>4, <1>5 DEF PastTimes
  <2>2. newest'[key].at <= blobTime
    BY <1>1, <1>4, <1>10 DEF PastTimes
  <2>3. \A k \in BlobKeys : newest'[k].at <= blobTime
    BY <1>1, <1>9, <2>2 DEF PastTimes
  <2> QED BY <2>1, <2>3 DEF PastTimes
<1>12. RecordsAreNewest'
  <2>1. ASSUME NEW k \in BlobKeys, NEW i \in Records \ {r}, adv_blobs'[i].key = k
        PROVE  /\ newest'[k].at <= adv_blobs'[i].timestamp
               /\ k \notin torn' => adv_blobs'[i].blob = newest'[k].blob
    <3>1. adv_blobs'[i] = adv_blobs[i] /\ k # key
      BY <1>5, <1>7, <2>1
    <3>2. newest'[k] = newest[k] /\ (k \notin torn' => k \notin torn)
      BY <1>9, <3>1
    <3> QED BY <1>1, <2>1, <3>1, <3>2 DEF RecordsAreNewest
  <2>2. /\ newest'[key].at <= adv_blobs'[r].timestamp
        /\ key \notin torn' => adv_blobs'[r].blob = newest'[key].blob
    BY <1>1, <1>4, <1>5, <1>10 DEF PastTimes
  <2> QED BY <1>5, <2>1, <2>2 DEF RecordsAreNewest
<1>13. OldestGaveWay'
  <2> SUFFICES ASSUME NEW k \in BlobKeys, RecordsOf(k)' = {}, NEW i \in Records
               PROVE  newest'[k].at <= adv_blobs'[i].timestamp
    BY DEF OldestGaveWay
  <2>1. \A j \in Records : adv_blobs'[j].key # k
    BY DEF RecordsOf
  <2>2. k # key
    BY <1>2, <1>5, <2>1
  <2>3. newest'[k] = newest[k] /\ newest[k].at <= blobTime
    BY <1>1, <1>9, <2>2 DEF PastTimes
  <2>4. CASE i = r
    BY <1>5, <2>3, <2>4
  <2>5. CASE i # r /\ adv_blobs[r].key = k
    <3>1. RecordsOf(key) # {r}
      BY <2>2, <2>5 DEF RecordsOf
    <3>2. newest[k].at <= adv_blobs[r].timestamp
      BY <1>1, <1>2, <2>5 DEF RecordsAreNewest
    <3>3. adv_blobs[r].timestamp <= adv_blobs[i].timestamp
      BY <1>2, <3>1
    <3> QED BY <1>2, <1>4, <1>5, <2>3, <2>5, <3>2, <3>3
  <2>6. CASE i # r /\ adv_blobs[r].key # k
    <3>1. RecordsOf(k) = {}
      BY <1>5, <2>1, <2>6 DEF RecordsOf
    <3> QED BY <1>1, <1>5, <2>3, <2>6, <3>1 DEF OldestGaveWay
  <2> QED BY <2>4, <2>5, <2>6
<1> QED BY <1>6, <1>8, <1>11, <1>12, <1>13 DEF BlobIInv

(* So does putting a file, where there is one for each key. *)
LEMMA PutFileKeeps ==
  ASSUME BlobIInv, ~fixedFile, NEW key \in BlobKeys, PutFile(key),
         puts < MaxPuts, puts' = puts + 1, UNCHANGED <<fixedFile, blobTime>>
  PROVE  BlobIInv'
<1> DEFINE new == [blob |-> puts + 1, at |-> blobTime]
<1>1. /\ MaxBlobTime \in Nat /\ MaxPuts \in Nat
      /\ BlobShape /\ OneRecordEach /\ PastTimes /\ FilesAreNewest
      /\ adv_blobs' = adv_blobs
  BY BlobStoreAssumption DEF BlobIInv, PutFile
<1>2. puts + 1 \in 1..MaxPuts /\ puts' \in 0..MaxPuts /\ blobTime \in 0..MaxBlobTime
  BY <1>1 DEF BlobShape
<1>3. \/ /\ blobFiles' = [blobFiles EXCEPT ![key] = puts + 1]
         /\ newest' = [newest EXCEPT ![key] = new]
         /\ torn' = torn \ {key}
      \/ /\ blobFiles' = [blobFiles EXCEPT ![key] = NoBlob]
         /\ newest' = newest /\ torn' = torn \ {key}
      \/ /\ blobFiles' = [blobFiles EXCEPT ![key] = puts + 1]
         /\ newest' = newest /\ torn' = torn \union {key}
  BY DEF PutFile
<1>4. BlobShape'
  BY <1>1, <1>2, <1>3 DEF BlobShape
<1>5. PastTimes' /\ OneRecordEach'
  <2>1. \A k \in BlobKeys : newest'[k].at <= blobTime
    BY <1>1, <1>2, <1>3 DEF BlobShape, PastTimes
  <2> QED BY <1>1, <2>1 DEF PastTimes, OneRecordEach
<1>6. ASSUME NEW k \in BlobKeys \ torn'
      PROVE  blobFiles'[k] \in {NoBlob, newest'[k].blob}
  <2>1. CASE k = key
    BY <1>1, <1>3, <1>6, <2>1 DEF BlobShape
  <2>2. CASE k # key
    <3>1. blobFiles'[k] = blobFiles[k] /\ newest'[k] = newest[k] /\ k \notin torn
      BY <1>1, <1>3, <1>6, <2>2 DEF BlobShape
    <3> QED BY <1>1, <3>1 DEF FilesAreNewest
  <2> QED BY <2>1, <2>2
<1> QED BY <1>4, <1>5, <1>6 DEF BlobIInv, FilesAreNewest

(* Every step keeps the invariant, one that exercises another part too. *)
LEMMA BlobStep ==
  ASSUME BlobIInv, [BlobNext]_blobVars
  PROVE  BlobIInv'
<1>1. CASE UNCHANGED blobVars
  BY <1>1 DEF blobVars, BlobIInv, BlobShape, OneRecordEach, PastTimes,
              FilesAreNewest, RecordsAreNewest, OldestGaveWay, RecordsOf
<1>2. ASSUME NEW key \in BlobKeys, putBlobByKey(key)
      PROVE  BlobIInv'
  BY <1>2, PutRecordKeeps, PutFileKeeps DEF putBlobByKey
<1>3. ASSUME NEW key \in BlobKeys, deleteBlobByKey(key)
      PROVE  BlobIInv'
  <2> DEFINE none == [blob |-> NoBlob, at |-> 0]
  <2>1. /\ ~fixedFile /\ BlobShape /\ OneRecordEach /\ PastTimes /\ FilesAreNewest
        /\ blobFiles' = [blobFiles EXCEPT ![key] = NoBlob]
        /\ newest' = [newest EXCEPT ![key] = none]
        /\ torn' = torn \ {key}
        /\ UNCHANGED <<fixedFile, adv_blobs, blobTime, puts>>
    BY <1>3 DEF deleteBlobByKey, BlobIInv
  <2>2. MaxBlobTime \in Nat /\ 0 \in 0..MaxBlobTime /\ blobTime \in Nat
    BY <2>1, BlobStoreAssumption DEF BlobShape
  <2>3. BlobShape'
    BY <2>1, <2>2 DEF BlobShape
  <2>4. PastTimes' /\ OneRecordEach'
    <3>1. \A k \in BlobKeys : newest'[k].at <= blobTime
      BY <2>1, <2>2 DEF BlobShape, PastTimes
    <3> QED BY <2>1, <3>1 DEF PastTimes, OneRecordEach
  <2>5. ASSUME NEW k \in BlobKeys \ torn'
        PROVE  blobFiles'[k] \in {NoBlob, newest'[k].blob}
    BY <2>1 DEF BlobShape, FilesAreNewest
  <2> QED BY <2>1, <2>3, <2>4, <2>5 DEF BlobIInv, FilesAreNewest
<1>4. CASE BlobTick
  <2>1. /\ BlobShape /\ blobTime < MaxBlobTime /\ blobTime' = blobTime + 1
        /\ UNCHANGED <<fixedFile, blobFiles, adv_blobs, puts, newest, torn>>
    BY <1>4 DEF BlobTick, BlobIInv
  <2>2. blobTime' \in 0..MaxBlobTime
    BY <2>1, BlobStoreAssumption DEF BlobShape
  <2>3. BlobShape'
    BY <2>1, <2>2 DEF BlobShape
  <2>4. PastTimes'
    <3>1. /\ \A i \in Records : adv_blobs[i].timestamp \in Nat
          /\ \A k \in BlobKeys : newest[k].at \in Nat
          /\ blobTime \in Nat
      BY <2>1, BlobStoreAssumption DEF BlobShape
    <3> QED BY <2>1, <3>1 DEF BlobIInv, PastTimes
  <2> QED BY <2>1, <2>3, <2>4 DEF BlobIInv, OneRecordEach, FilesAreNewest,
                                  RecordsAreNewest, OldestGaveWay, RecordsOf
<1> QED BY <1>1, <1>2, <1>3, <1>4 DEF BlobNext

(* Empty records and no files. *)
LEMMA BlobStart ==
  ASSUME BlobInit
  PROVE  BlobIInv
<1>1. /\ MaxBlobTime \in Nat /\ 1 \in 0..MaxBlobTime /\ 0 \in 0..MaxBlobTime
      /\ MaxPuts \in Nat /\ 0 \in 0..MaxPuts /\ NoBlob \notin BlobKeys
  BY BlobStoreAssumption
<1>2. BlobShape
  BY <1>1 DEF BlobInit, BlobShape
<1>3. /\ \A i \in Records : adv_blobs[i].timestamp = 0 /\ adv_blobs[i].key = NoBlob
      /\ \A k \in BlobKeys : newest[k].at = 0 /\ newest[k].blob = NoBlob
                             /\ blobFiles[k] = NoBlob
      /\ blobTime = 1
  BY DEF BlobInit
<1> QED BY <1>1, <1>2, <1>3
        DEF BlobIInv, OneRecordEach, PastTimes, FilesAreNewest,
            RecordsAreNewest, OldestGaveWay

(* Every advert stored is the newest of its key, one record each, and a key
   with no record gave way to newer ones (putBlobByKey of DataStore.cpp). *)
THEOREM BlobInvariant == BlobSpec => []BlobIInv
<1>1. BlobInit => BlobIInv
  BY BlobStart
<1>2. BlobIInv /\ [BlobNext]_blobVars => BlobIInv'
  BY BlobStep
<1> QED BY <1>1, <1>2, PTL DEF BlobSpec

(* Records, files and histories hold what they may. *)
THEOREM BlobTypeCorrect == BlobSpec => []BlobTypesOK
<1>1. BlobIInv => BlobTypesOK
  BY DEF BlobIInv, BlobShape, BlobTypesOK
<1> QED BY <1>1, BlobInvariant, PTL

(* What is read for a key is the advert stored last for it, or nothing, and
   only the oldest gave way. *)
THEOREM NewestBlobIsRead == BlobSpec => []BlobNewest
<1>1. ASSUME BlobIInv
      PROVE  BlobNewest
  <2> SUFFICES ASSUME NEW k \in BlobKeys \ torn
               PROVE  /\ getBlobByKey(k) \in {NoBlob, newest[k].blob}
                      /\ fixedFile /\ RecordsOf(k) = {} =>
                           \A i \in Records : newest[k].at <= adv_blobs[i].timestamp
    BY DEF BlobNewest
  <2>1. CASE fixedFile
    <3>1. RecordsOf(k) # {} => RecordFor(k) \in Records
                               /\ adv_blobs[RecordFor(k)].key = k
      <4>1. RecordsOf(k) # {} => RecordFor(k) \in RecordsOf(k)
        BY <1>1, RecordChosen DEF BlobIInv
      <4> QED BY <4>1 DEF RecordsOf
    <3>2. GetRecord(k) \in {NoBlob, newest[k].blob}
      BY <1>1, <2>1, <3>1 DEF BlobIInv, RecordsAreNewest, GetRecord
    <3> QED BY <1>1, <2>1, <3>2 DEF BlobIInv, OldestGaveWay, getBlobByKey
  <2>2. CASE ~fixedFile
    BY <1>1, <2>2 DEF BlobIInv, FilesAreNewest, getBlobByKey
  <2> QED BY <2>1, <2>2
<1> QED BY <1>1, BlobInvariant, PTL

-----------------------------------------------------------------------------
(***************************************************************************)
(* The move to a second file system, for any number of faults.  A file     *)
(* that was not hurt is, between moves, done or as it was to be moved;     *)
(* that power may fail anywhere but in a copy to the secondary is that     *)
(* every phase but this one leaves it so.                                  *)
(***************************************************************************)

MigrationSpec == MigrationInit /\ [][MigrationNext]_migrationVars

(* The move of a file is done, or still to be made with what is kept at its
   source. *)
MoveDone(f) ==
  /\ Target(f) = Kept(f)
  /\ f \notin Stays \/ Kept(f) = NoFile => Source(f) = NoFile

ToBeMoved(f) ==
  /\ Source(f) = Kept(f)
  /\ IF f \in Stays THEN Target(f) = NoFile ELSE Source(f) # NoFile

(* Where a move is, by its place among the moves. *)
MoveProgress(i) ==
  LET f == Moves[i] IN
  /\ step > i => MoveDone(f)
  /\ step < i \/ (step = i /\ phase = "look") => MoveDone(f) \/ ToBeMoved(f)
  /\ step = i /\ phase = "open" => ToBeMoved(f)
  /\ step = i /\ phase \in {"copy", "remove"} =>
       /\ Source(f) = Kept(f)
       /\ f \notin Stays => Source(f) # NoFile
  /\ step = i /\ phase = "remove" => Target(f) = Kept(f)

MigrationIInv ==
  /\ MigrationTypesOK
  /\ step = Running => \A f \in FilesToMove : Source(f) = NoFile
  /\ \A i \in 2..LastMove : Moves[i] \notin hurt => MoveProgress(i)

(* The five moves of migrateToSecondaryFS, in the order of its calls. *)
LEMMA MoveNames ==
  /\ LastMove = 5 /\ Running = 7 /\ DOMAIN Moves = 1..5
  /\ Moves[1] = "adv_blobs" /\ Moves[2] = "contacts3" /\ Moves[3] = "channels2"
  /\ Moves[4] = "_main.id" /\ Moves[5] = "new_prefs"
  /\ FilesToMove = {Moves[i] : i \in 1..5}
  /\ Stays = {"adv_blobs", "contacts3", "channels2"}
<1>1. /\ DOMAIN Moves = 1..5 /\ Len(Moves) = 5
      /\ Moves[1] = "adv_blobs" /\ Moves[2] = "contacts3"
      /\ Moves[3] = "channels2"
      /\ Moves[4] = "_main.id" /\ Moves[5] = "new_prefs"
  BY DEF Moves, ToSecondary, ToPrimary
<1>2. Stays = {"adv_blobs", "contacts3", "channels2"}
  BY DEF Stays, ToSecondary
<1> QED BY <1>1, <1>2 DEF LastMove, Running, FilesToMove

(* No file is moved twice. *)
LEMMA MovesDiffer ==
  ASSUME NEW i \in 1..5, NEW j \in 1..5, i # j
  PROVE  Moves[i] # Moves[j] /\ Moves[i] \in FilesToMove
  BY MoveNames

FileSystemsOK == {fs, fsExtra} \subseteq [FilesToMove -> Content]

(* Writing the target and removing the source touch nothing else. *)
LEMMA TargetSet ==
  ASSUME FileSystemsOK, NEW f \in FilesToMove, NEW c \in Content, SetTarget(f, c)
  PROVE  /\ FileSystemsOK'
         /\ Target(f)' = c /\ Source(f)' = Source(f)
         /\ \A g \in FilesToMove \ {f} :
              Target(g)' = Target(g) /\ Source(g)' = Source(g)
<1>1. CASE f \in Stays
  BY <1>1 DEF FileSystemsOK, SetTarget, Target, Source
<1>2. CASE f \notin Stays
  BY <1>2 DEF FileSystemsOK, SetTarget, Target, Source
<1> QED BY <1>1, <1>2

(* Removing the source of a file leaves its target and every other file. *)
LEMMA SourceRemoved ==
  ASSUME FileSystemsOK, NEW f \in FilesToMove, RemoveSource(f)
  PROVE  /\ FileSystemsOK'
         /\ Source(f)' = NoFile /\ Target(f)' = Target(f)
         /\ \A g \in FilesToMove \ {f} :
              Target(g)' = Target(g) /\ Source(g)' = Source(g)
<1>1. CASE f \in Stays
  BY <1>1 DEF FileSystemsOK, RemoveSource, Target, Source, Content
<1>2. CASE f \notin Stays
  BY <1>2 DEF FileSystemsOK, RemoveSource, Target, Source, Content
<1> QED BY <1>1, <1>2

(* A step that writes nothing leaves every file. *)
LEMMA FileSystemsKept ==
  ASSUME UNCHANGED <<fs, fsExtra>>
  PROVE  /\ FileSystemsOK => FileSystemsOK'
         /\ \A g \in FilesToMove : Target(g)' = Target(g) /\ Source(g)' = Source(g)
  BY DEF FileSystemsOK, Target, Source

(* A file that a step does not touch keeps its place among the moves. *)
LEMMA OtherProgress ==
  ASSUME NEW i \in 2..5, MoveProgress(i), step \in Nat, step' \in Nat,
         Source(Moves[i])' = Source(Moves[i]),
         Target(Moves[i])' = Target(Moves[i]), original' = original,
         \/ step > i /\ step' > i
         \/ step < i /\ (step' < i \/ (step' = i /\ phase' = "look"))
  PROVE  MoveProgress(i)'
<1> DEFINE f == Moves[i]
<1>1. Kept(f)' = Kept(f)
  BY DEF Kept
<1>2. (MoveDone(f) => MoveDone(f)') /\ (ToBeMoved(f) => ToBeMoved(f)')
  BY <1>1 DEF MoveDone, ToBeMoved
<1> QED BY <1>2 DEF MoveProgress

(* Wherever power fails but in a copy to the secondary, a file's move is done
   or is still to be made. *)
LEMMA Interrupted ==
  ASSUME MigrationTypesOK, NEW i \in 2..5, MoveProgress(i),
         ~(step = i /\ phase = "copy" /\ Moves[i] \in Stays)
  PROVE  MoveDone(Moves[i]) \/ ToBeMoved(Moves[i])
<1>1. step \in 0..7 /\ phase \in {"look", "open", "copy", "remove"}
  BY MoveNames DEF MigrationTypesOK
<1>2. CASE step # i
  BY <1>1, <1>2 DEF MoveProgress
<1>3. CASE step = i /\ phase \in {"look", "open"}
  BY <1>3 DEF MoveProgress
<1>4. CASE step = i /\ phase \in {"copy", "remove"}
  BY <1>4 DEF MoveProgress, MoveDone, ToBeMoved
<1> QED BY <1>1, <1>2, <1>3, <1>4

(* The file in the middle of its move, after a phase that leaves step at i, or
   takes it to the next. *)
LEMMA ProgressAfter ==
  ASSUME NEW i \in 2..5, step' \in Nat, phase' \in {"look", "open", "copy", "remove"},
         \/ step' = i + 1 /\ MoveDone(Moves[i])'
         \/ step' = i /\ phase' = "open" /\ ToBeMoved(Moves[i])'
         \/ /\ step' = i /\ phase' = "copy"
            /\ Source(Moves[i])' = Kept(Moves[i])'
            /\ Moves[i] \notin Stays => Source(Moves[i])' # NoFile
         \/ /\ step' = i /\ phase' = "remove"
            /\ Target(Moves[i])' = Kept(Moves[i])'
            /\ Source(Moves[i])' = Kept(Moves[i])'
            /\ Moves[i] \notin Stays => Source(Moves[i])' # NoFile
  PROVE  MoveProgress(i)'
  BY DEF MoveProgress

(* What the phases of move j have in common, and what is left to show of
   each: where the file that is moved, if it is not hurt, comes to be. *)
LEMMA OnePhase ==
  ASSUME MigrationIInv, NEW j \in 1..5, step = j,
         FileSystemsOK', original' = original,
         \A g \in FilesToMove \ {Moves[j]} :
            Target(g)' = Target(g) /\ Source(g)' = Source(g),
         hurt \subseteq hurt', hurt' \subseteq FilesToMove,
         phase' \in {"look", "open", "copy", "remove"},
         step' = j \/ (step' = j + 1 /\ phase' = "look"),
         j \in 2..5 /\ Moves[j] \notin hurt' => MoveProgress(j)'
  PROVE  MigrationIInv'
<1>1. /\ step' \in 0..7 /\ step' # 7 /\ step \in Nat /\ step' \in Nat
      /\ Running = 7 /\ LastMove = 5
  BY MoveNames
<1>2. MigrationTypesOK'
  BY <1>1 DEF MigrationTypesOK, FileSystemsOK
<1>3. ASSUME NEW i \in 2..5, Moves[i] \notin hurt'
      PROVE  MoveProgress(i)'
  <2>1. CASE i = j
    BY <1>3, <2>1
  <2>2. CASE i # j
    <3>1. MoveProgress(i)
      BY <1>1, <1>3 DEF MigrationIInv
    <3>2. Moves[i] \in FilesToMove \ {Moves[j]}
      BY <2>2, MovesDiffer
    <3>3. Source(Moves[i])' = Source(Moves[i]) /\ Target(Moves[i])' = Target(Moves[i])
      BY <3>2
    <3>4. \/ step > i /\ step' > i
          \/ step < i /\ (step' < i \/ (step' = i /\ phase' = "look"))
      BY <2>2
    <3> QED BY <1>1, <3>1, <3>3, <3>4, OtherProgress
  <2> QED BY <2>1, <2>2
<1> QED BY <1>1, <1>2, <1>3 DEF MigrationIInv

(* Looking whether there is something to move. *)
LEMMA LookStep ==
  ASSUME MigrationIInv, Look
  PROVE  MigrationIInv'
<1>1. PICK j \in 1..5 : step = j
  BY MoveNames DEF Look, InMove
<1> DEFINE f == Moves[j]
<1>2. f \in FilesToMove /\ moving = f /\ NoFile \in Content
  BY <1>1, MoveNames DEF moving, Content
<1>3. /\ phase = "look" /\ original' = original /\ hurt' = hurt
      /\ FileSystemsOK /\ hurt \subseteq FilesToMove
      /\ j \in 2..5 /\ f \notin hurt' => MoveDone(f) \/ ToBeMoved(f)
  BY <1>1, MoveNames
     DEF Look, InMove, NoFault, MigrationIInv, MigrationTypesOK, MoveProgress,
         FileSystemsOK
<1> HIDE DEF f
<1>4. Kept(f)' = Kept(f)
  BY <1>3 DEF Kept
<1>5. CASE f \in Stays /\ Target(f) = NoFile /\ Source(f) # NoFile
  <2>1. /\ step' = j /\ phase' = "open" /\ UNCHANGED <<fs, fsExtra>>
    BY <1>1, <1>2, <1>5 DEF Look, Then
  <2>2. FileSystemsOK' /\ \A g \in FilesToMove :
                            Target(g)' = Target(g) /\ Source(g)' = Source(g)
    BY <1>3, <2>1, FileSystemsKept
  <2>3. ASSUME j \in 2..5, f \notin hurt' PROVE MoveProgress(j)'
    <3>1. ToBeMoved(f)
      BY <1>3, <1>5, <2>3 DEF MoveDone, ToBeMoved, Kept
    <3>2. ToBeMoved(f)'
      BY <1>2, <1>4, <2>2, <3>1 DEF ToBeMoved
    <3> QED BY <2>1, <2>3, <3>2, ProgressAfter DEF f
  <2> QED BY <1>1, <1>3, <2>1, <2>2, <2>3, OnePhase DEF f
<1>6. CASE \/ f \in Stays /\ ~(Target(f) = NoFile /\ Source(f) # NoFile)
           \/ f \notin Stays /\ Source(f) = NoFile
  <2>1. /\ step' = j + 1 /\ phase' = "look" /\ UNCHANGED <<fs, fsExtra>>
    BY <1>1, <1>2, <1>6 DEF Look, NextStep
  <2>2. FileSystemsOK' /\ \A g \in FilesToMove :
                            Target(g)' = Target(g) /\ Source(g)' = Source(g)
    BY <1>3, <2>1, FileSystemsKept
  <2>3. ASSUME j \in 2..5, f \notin hurt' PROVE MoveProgress(j)'
    <3>1. MoveDone(f)
      BY <1>3, <1>6, <2>3 DEF MoveDone, ToBeMoved
    <3>2. MoveDone(f)'
      BY <1>2, <1>4, <2>2, <3>1 DEF MoveDone
    <3> QED BY <2>1, <2>3, <3>2, ProgressAfter DEF f
  <2> QED BY <1>1, <1>3, <2>1, <2>2, <2>3, OnePhase DEF f
<1>7. CASE f \notin Stays /\ Source(f) # NoFile
  <2>1. /\ step' = j /\ phase' = "open" /\ SetTarget(f, NoFile)
    BY <1>1, <1>2, <1>7 DEF Look, Then, SetTarget
  <2>2. /\ FileSystemsOK'
        /\ Source(f)' = Source(f)
        /\ \A g \in FilesToMove \ {f} :
             Target(g)' = Target(g) /\ Source(g)' = Source(g)
    BY <1>2, <1>3, <2>1, TargetSet
  <2>3. ASSUME j \in 2..5, f \notin hurt' PROVE MoveProgress(j)'
    <3>1. ToBeMoved(f)
      BY <1>3, <1>7, <2>3 DEF MoveDone, ToBeMoved
    <3>2. ToBeMoved(f)'
      BY <1>4, <1>7, <2>2, <3>1 DEF ToBeMoved
    <3> QED BY <2>1, <2>3, <3>2, ProgressAfter DEF f
  <2> QED BY <1>1, <1>3, <2>1, <2>2, <2>3, OnePhase DEF f
<1> QED BY <1>5, <1>6, <1>7

(* Opening both files of a move. *)
LEMMA OpenStep ==
  ASSUME MigrationIInv, OpenBoth
  PROVE  MigrationIInv'
<1>1. PICK j \in 1..5 : step = j
  BY MoveNames DEF OpenBoth, InMove
<1> DEFINE f == Moves[j]
<1>2. f \in FilesToMove /\ moving = f /\ "part" \in Content
  BY <1>1, MoveNames DEF moving, Content
<1>3. /\ phase = "open" /\ original' = original
      /\ FileSystemsOK /\ hurt \subseteq FilesToMove
      /\ j \in 2..5 /\ f \notin hurt => ToBeMoved(f)
  BY <1>1, MoveNames
     DEF OpenBoth, InMove, MigrationIInv, MigrationTypesOK, MoveProgress,
         FileSystemsOK
<1> HIDE DEF f
<1>4. Kept(f)' = Kept(f)
  BY <1>3 DEF Kept
<1>5. CASE SetTarget(f, "part") /\ Then("copy") /\ NoFault
  <2>1. /\ FileSystemsOK'
        /\ Source(f)' = Source(f)
        /\ \A g \in FilesToMove \ {f} :
             Target(g)' = Target(g) /\ Source(g)' = Source(g)
    BY <1>2, <1>3, <1>5, TargetSet
  <2>2. step' = j /\ phase' = "copy" /\ hurt' = hurt
    BY <1>1, <1>5 DEF Then, NoFault
  <2>3. ASSUME j \in 2..5, f \notin hurt' PROVE MoveProgress(j)'
    <3>1. /\ Source(f)' = Kept(f)'
          /\ f \notin Stays => Source(f)' # NoFile
      BY <1>3, <1>4, <2>1, <2>2, <2>3 DEF ToBeMoved
    <3> QED BY <2>2, <2>3, <3>1, ProgressAfter DEF f
  <2> QED BY <1>1, <1>3, <2>1, <2>2, <2>3, OnePhase DEF f
<1>6. CASE (SetTarget(f, "part") \/ UNCHANGED <<fs, fsExtra>>)
             /\ Then("remove") /\ Fault(f)
  <2>1. FileSystemsOK' /\ \A g \in FilesToMove \ {f} :
                            Target(g)' = Target(g) /\ Source(g)' = Source(g)
    BY <1>2, <1>3, <1>6, TargetSet, FileSystemsKept
  <2>2. step' = j /\ phase' = "remove" /\ hurt' = hurt \union {f}
    BY <1>1, <1>6 DEF Then, Fault
  <2> QED BY <1>1, <1>2, <1>3, <2>1, <2>2, OnePhase DEF f
<1> QED BY <1>2, <1>5, <1>6 DEF OpenBoth, SetTarget, Fault

(* Copying the file of a move. *)
LEMMA CopyStep ==
  ASSUME MigrationIInv, CopyFile
  PROVE  MigrationIInv'
<1>1. PICK j \in 1..5 : step = j
  BY MoveNames DEF CopyFile, InMove
<1> DEFINE f == Moves[j]
<1>2. f \in FilesToMove /\ moving = f
  BY <1>1, MoveNames DEF moving
<1>3. /\ phase = "copy" /\ original' = original
      /\ FileSystemsOK /\ hurt \subseteq FilesToMove
      /\ j \in 2..5 /\ f \notin hurt =>
           /\ Source(f) = Kept(f)
           /\ f \notin Stays => Source(f) # NoFile
      /\ step' = j /\ phase' = "remove"
  BY <1>1, MoveNames
     DEF CopyFile, InMove, Then, MigrationIInv, MigrationTypesOK, MoveProgress,
         FileSystemsOK
<1> HIDE DEF f
<1>4. Kept(f)' = Kept(f)
  BY <1>3 DEF Kept
<1>5. CASE SetTarget(f, Source(f)) /\ NoFault
  <2>1. PICK c \in Content : c = Source(f)
    BY <1>2, <1>3 DEF FileSystemsOK, Source
  <2>2. SetTarget(f, c)
    BY <1>5, <2>1 DEF SetTarget
  <2>3. /\ FileSystemsOK'
        /\ Target(f)' = Source(f) /\ Source(f)' = Source(f)
        /\ \A g \in FilesToMove \ {f} :
             Target(g)' = Target(g) /\ Source(g)' = Source(g)
    BY <1>2, <1>3, <2>1, <2>2, TargetSet
  <2>4. hurt' = hurt
    BY <1>5 DEF NoFault
  <2>5. ASSUME j \in 2..5, f \notin hurt' PROVE MoveProgress(j)'
    <3>1. /\ Target(f)' = Kept(f)'
          /\ Source(f)' = Kept(f)' /\ (f \notin Stays => Source(f)' # NoFile)
      BY <1>3, <1>4, <2>3, <2>4, <2>5
    <3> QED BY <1>3, <2>5, <3>1, ProgressAfter DEF f
  <2> QED BY <1>1, <1>3, <2>3, <2>4, <2>5, OnePhase DEF f
<1>6. CASE UNCHANGED <<fs, fsExtra>> /\ Fault(f)
  <2>1. FileSystemsOK' /\ \A g \in FilesToMove \ {f} :
                            Target(g)' = Target(g) /\ Source(g)' = Source(g)
    BY <1>3, <1>6, FileSystemsKept
  <2>2. hurt' = hurt \union {f}
    BY <1>6 DEF Fault
  <2> QED BY <1>1, <1>2, <1>3, <2>1, <2>2, OnePhase DEF f
<1> QED BY <1>2, <1>5, <1>6 DEF CopyFile, SetTarget, Fault

(* Removing the file that was copied. *)
LEMMA RemoveStep ==
  ASSUME MigrationIInv, RemoveOld
  PROVE  MigrationIInv'
<1>1. PICK j \in 1..5 : step = j
  BY MoveNames DEF RemoveOld, InMove
<1> DEFINE f == Moves[j]
<1>2. f \in FilesToMove /\ moving = f
  BY <1>1, MoveNames DEF moving
<1>3. /\ original' = original /\ hurt' = hurt
      /\ FileSystemsOK /\ hurt \subseteq FilesToMove
      /\ j \in 2..5 /\ f \notin hurt' => Target(f) = Kept(f)
      /\ step' = j + 1 /\ phase' = "look"
  BY <1>1, MoveNames
     DEF RemoveOld, InMove, NextStep, NoFault, MigrationIInv, MigrationTypesOK,
         MoveProgress, FileSystemsOK
<1>4. RemoveSource(f)
  BY <1>2 DEF RemoveOld, RemoveSource
<1> HIDE DEF f
<1>5. Kept(f)' = Kept(f)
  BY <1>3 DEF Kept
<1>6. /\ FileSystemsOK'
      /\ Source(f)' = NoFile /\ Target(f)' = Target(f)
      /\ \A g \in FilesToMove \ {f} :
           Target(g)' = Target(g) /\ Source(g)' = Source(g)
  BY <1>2, <1>3, <1>4, SourceRemoved
<1>7. ASSUME j \in 2..5, f \notin hurt' PROVE MoveProgress(j)'
  <2>1. MoveDone(f)'
    BY <1>3, <1>5, <1>6, <1>7 DEF MoveDone
  <2> QED BY <1>3, <1>7, <2>1, ProgressAfter DEF f
<1> QED BY <1>1, <1>3, <1>6, <1>7, OnePhase DEF f

(* checkAdvBlobFile, before the moves. *)
LEMMA BlobFileStep ==
  ASSUME MigrationIInv, checkAdvBlobFile
  PROVE  MigrationIInv'
<1>1. /\ step = 0 /\ step' = 1 /\ phase' = "look" /\ original' = original
      /\ FileSystemsOK /\ hurt \subseteq FilesToMove
      /\ "adv_blobs" \in FilesToMove /\ "fresh" \in Content
  BY MoveNames
     DEF checkAdvBlobFile, NextStep, MigrationIInv, MigrationTypesOK,
         FileSystemsOK, Content
<1>2. /\ SetTarget("adv_blobs", "fresh") \/ UNCHANGED <<fs, fsExtra>>
      /\ hurt' = hurt \/ hurt' = hurt \union {"adv_blobs"}
  BY DEF checkAdvBlobFile, Fault, NoFault
<1>3. FileSystemsOK' /\ \A g \in FilesToMove \ {"adv_blobs"} :
                          Target(g)' = Target(g) /\ Source(g)' = Source(g)
  BY <1>1, <1>2, TargetSet, FileSystemsKept
<1>4. ASSUME NEW i \in 2..5, Moves[i] \notin hurt'
      PROVE  MoveProgress(i)'
  <2>1. Moves[i] \in FilesToMove \ {"adv_blobs"}
    BY MoveNames, MovesDiffer
  <2>2. MoveProgress(i)
    BY <1>2, <1>4, MoveNames DEF MigrationIInv
  <2>3. Source(Moves[i])' = Source(Moves[i]) /\ Target(Moves[i])' = Target(Moves[i])
    BY <1>3, <2>1
  <2> QED BY <1>1, <2>2, <2>3, OtherProgress
<1>5. MigrationTypesOK'
  BY <1>1, <1>2, <1>3, MoveNames DEF MigrationTypesOK, FileSystemsOK
<1> QED BY <1>1, <1>4, <1>5, MoveNames DEF MigrationIInv

(* What is removed once the moves are over. *)
LEMMA CleanUpStep ==
  ASSUME MigrationIInv, CleanUp
  PROVE  MigrationIInv'
<1>1. /\ step = 6 /\ original' = original /\ hurt' = hurt
      /\ FileSystemsOK /\ MigrationTypesOK
      /\ DOMAIN Moves = 1..5 /\ Running = 7 /\ LastMove = 5
  BY MoveNames
     DEF CleanUp, NoFault, MigrationIInv, MigrationTypesOK, FileSystemsOK
<1>2. \A i \in 2..5 : Moves[i] \notin hurt => MoveDone(Moves[i])
  BY <1>1 DEF MigrationIInv, MoveProgress
<1> DEFINE misplaced == {i \in DOMAIN Moves : Source(Moves[i]) # NoFile}
<1>3. CASE misplaced = {}
  <2>1. /\ step' = 7 /\ phase' = "look" /\ UNCHANGED <<fs, fsExtra>>
    BY <1>1, <1>3 DEF CleanUp, NextStep
  <2>2. \A g \in FilesToMove : Source(g) = NoFile
    BY <1>1, <1>3, MoveNames
  <2>3. FileSystemsOK' /\ \A g \in FilesToMove :
                            Target(g)' = Target(g) /\ Source(g)' = Source(g)
    BY <1>1, <2>1, FileSystemsKept
  <2>4. ASSUME NEW i \in 2..5, Moves[i] \notin hurt'
        PROVE  MoveProgress(i)'
    <3>1. MoveProgress(i) /\ Moves[i] \in FilesToMove
      BY <1>1, <2>4, MoveNames DEF MigrationIInv
    <3> QED BY <1>1, <2>1, <2>3, <3>1, OtherProgress
  <2> QED BY <1>1, <2>1, <2>2, <2>3, <2>4
          DEF MigrationIInv, MigrationTypesOK, FileSystemsOK
<1>4. CASE misplaced # {}
  <2>1. PICK k \in 1..5 : /\ step' = step /\ phase' = phase
                           /\ RemoveSource(Moves[k])
    <3>1. misplaced \subseteq 1..5 /\ misplaced \subseteq Nat
      BY <1>1
    <3> DEFINE k == CHOOSE i \in misplaced : \A j \in misplaced : i <= j
    <3>2. RemoveSource(Moves[k]) /\ step' = step /\ phase' = phase
      BY <1>4 DEF CleanUp
    <3>3. \E i \in misplaced : \A j \in misplaced : i <= j
      <4> HIDE DEF misplaced
      <4> QED BY <1>4, <3>1, LeastOf
    <3>4. k \in misplaced
      <4> HIDE DEF misplaced
      <4> QED BY <3>3
    <3>5. PICK m \in 1..5 : m = k
      <4> HIDE DEF misplaced, k
      <4> QED BY <3>1, <3>4
    <3>6. RemoveSource(Moves[m])
      <4> HIDE DEF k
      <4> QED BY <3>2, <3>5 DEF RemoveSource
    <3> QED BY <3>2, <3>6
  <2> HIDE DEF misplaced
  <2>2. Moves[k] \in FilesToMove
    BY MoveNames
  <2>3. /\ FileSystemsOK'
        /\ Source(Moves[k])' = NoFile /\ Target(Moves[k])' = Target(Moves[k])
        /\ \A g \in FilesToMove \ {Moves[k]} :
             Target(g)' = Target(g) /\ Source(g)' = Source(g)
    BY <1>1, <2>1, <2>2, SourceRemoved
  <2>4. ASSUME NEW i \in 2..5, Moves[i] \notin hurt'
        PROVE  MoveProgress(i)'
    <3>1. MoveDone(Moves[i]) /\ Moves[i] \in FilesToMove
      BY <1>1, <1>2, <2>4, MoveNames
    <3>2. /\ Target(Moves[i])' = Target(Moves[i])
          /\ Source(Moves[i])' = NoFile \/ Source(Moves[i])' = Source(Moves[i])
          /\ Kept(Moves[i])' = Kept(Moves[i])
      BY <1>1, <2>3, <3>1 DEF Kept
    <3>3. MoveDone(Moves[i])'
      BY <3>1, <3>2 DEF MoveDone
    <3> QED BY <1>1, <2>1, <3>3 DEF MoveProgress
  <2> QED BY <1>1, <2>1, <2>3, <2>4
          DEF MigrationIInv, MigrationTypesOK, FileSystemsOK
<1> QED BY <1>3, <1>4

(* Power fails, and begin() starts over with what the file systems hold. *)
LEMMA PowerLossStep ==
  ASSUME MigrationIInv, MigrationPowerLoss
  PROVE  MigrationIInv'
<1>1. /\ step' = 0 /\ phase' = "look" /\ original' = original
      /\ UNCHANGED <<fs, fsExtra>> /\ MigrationTypesOK /\ FileSystemsOK
      /\ Running = 7 /\ LastMove = 5 /\ DOMAIN Moves = 1..5
  BY MoveNames
     DEF MigrationPowerLoss, Restart, MigrationIInv, MigrationTypesOK, FileSystemsOK
<1>2. FileSystemsOK' /\ \A g \in FilesToMove :
                          Target(g)' = Target(g) /\ Source(g)' = Source(g)
  BY <1>1, FileSystemsKept
<1>3. /\ hurt \subseteq hurt' /\ hurt' \subseteq FilesToMove
      /\ \A i \in 2..5 : step = i /\ phase = "copy" /\ Moves[i] \in Stays
                           => Moves[i] \in hurt'
  <2>1. CASE step = Running /\ NoFault
    BY <1>1, <2>1 DEF NoFault, MigrationTypesOK
  <2>2. CASE step \in DOMAIN Moves /\ Fault(moving)
    BY <1>1, <2>2, MoveNames DEF Fault, moving, MigrationTypesOK
  <2>3. CASE ~(step \in DOMAIN Moves /\ phase = "copy" /\ moving \in Stays)
               /\ hurt' = hurt
    BY <1>1, <2>3 DEF moving, MigrationTypesOK
  <2> QED BY <2>1, <2>2, <2>3 DEF MigrationPowerLoss
<1>4. ASSUME NEW i \in 2..5, Moves[i] \notin hurt'
      PROVE  MoveProgress(i)'
  <2> DEFINE f == Moves[i]
  <2>1. MoveProgress(i) /\ f \in FilesToMove
    BY <1>1, <1>3, <1>4, MoveNames DEF MigrationIInv
  <2>2. MoveDone(f) \/ ToBeMoved(f)
    BY <1>1, <1>3, <1>4, <2>1, Interrupted
  <2>3. /\ Target(f)' = Target(f) /\ Source(f)' = Source(f) /\ Kept(f)' = Kept(f)
    BY <1>1, <1>2, <2>1 DEF Kept
  <2>4. MoveDone(f)' \/ ToBeMoved(f)'
    BY <2>2, <2>3 DEF MoveDone, ToBeMoved
  <2> QED BY <1>1, <2>4 DEF MoveProgress
<1> QED BY <1>1, <1>2, <1>3, <1>4 DEF MigrationIInv, MigrationTypesOK, FileSystemsOK

(* Every step keeps the invariant, one that exercises another part too. *)
LEMMA MigrationStep ==
  ASSUME MigrationIInv, [MigrationNext]_migrationVars
  PROVE  MigrationIInv'
<1>1. CASE UNCHANGED migrationVars
  BY <1>1 DEF migrationVars, MigrationIInv, MigrationTypesOK, MoveProgress,
              MoveDone, ToBeMoved, Source, Target, Kept
<1> QED BY <1>1, BlobFileStep, LookStep, OpenStep, CopyStep, RemoveStep,
           CleanUpStep, PowerLossStep DEF MigrationNext

(* Before the first start every move is to be made, or needless. *)
LEMMA MigrationStart ==
  ASSUME MigrationInit
  PROVE  MigrationIInv
<1>1. /\ fs \in [FilesToMove -> {NoFile, "primary"}]
      /\ fsExtra \in [FilesToMove -> {NoFile, "secondary"}]
      /\ original[1] = fs /\ original[2] = fsExtra
      /\ step = 0 /\ phase = "look" /\ hurt = {}
  BY DEF MigrationInit
<1>2. MigrationTypesOK
  BY <1>1, MoveNames DEF MigrationTypesOK, Content
<1>3. ASSUME NEW i \in 2..5
      PROVE  MoveProgress(i)
  <2> DEFINE f == Moves[i]
  <2>1. MoveDone(f) \/ ToBeMoved(f)
    BY <1>1 DEF MoveDone, ToBeMoved, Source, Target, Kept
  <2> QED BY <1>1, <2>1 DEF MoveProgress
<1> QED BY <1>1, <1>2, <1>3, MoveNames DEF MigrationIInv

(* At any point of the migration, interrupted as often as it may be, each file
   that no fault hurt is whole, in its old place or in its new one. *)
THEOREM MigrationInvariant == MigrationSpec => []MigrationIInv
<1>1. MigrationInit => MigrationIInv
  BY MigrationStart
<1>2. MigrationIInv /\ [MigrationNext]_migrationVars => MigrationIInv'
  BY MigrationStep
<1> QED BY <1>1, <1>2, PTL DEF MigrationSpec

(* The two file systems hold what the files held, parts of it, or the records
   of a new blob file. *)
THEOREM MigrationTypeCorrect == MigrationSpec => []MigrationTypesOK
<1>1. MigrationIInv => MigrationTypesOK
  BY DEF MigrationIInv
<1> QED BY <1>1, MigrationInvariant, PTL

(* However often power failed, once the node runs, every file that was not
   hurt is where it belongs, whole, and nowhere else. *)
THEOREM MigrationKeepsFiles == MigrationSpec => []MigrationLosesOnlyHurt
<1>1. ASSUME MigrationIInv, step = Running, NEW f \in FilesToMove \ {"adv_blobs"}
      PROVE  Source(f) = NoFile /\ (f \notin hurt => Target(f) = Kept(f))
  <2>1. PICK i \in 2..5 : f = Moves[i]
    <3>1. PICK i \in 1..5 : f = Moves[i]
      BY MoveNames
    <3>2. i # 1
      BY <3>1, MoveNames
    <3> QED BY <3>1, <3>2
  <2>2. f \notin hurt => MoveProgress(i)
    BY <1>1, <2>1, MoveNames DEF MigrationIInv
  <2>3. f \notin hurt => Target(f) = Kept(f)
    BY <1>1, <2>1, <2>2, MoveNames DEF MoveProgress, MoveDone
  <2> QED BY <1>1, <2>3 DEF MigrationIInv
<1>2. MigrationIInv => MigrationLosesOnlyHurt
  BY <1>1 DEF MigrationLosesOnlyHurt
<1> QED BY <1>2, MigrationInvariant, PTL

-----------------------------------------------------------------------------
(***************************************************************************)
(* All of it in MCFoundations.                                             *)
(***************************************************************************)

(* Of each part, a step of the whole is a step or leaves it alone. *)
LEMMA StepsOfStorage ==
  ASSUME [Next]_foundationVars
  PROVE  /\ [SettingsNext]_settingsVars /\ [FilesNext]_fileVars
         /\ [BlobNext]_blobVars /\ [MigrationNext]_migrationVars
<1>1. CASE Next
  BY <1>1 DEF Next
<1>2. CASE UNCHANGED foundationVars
  BY <1>2 DEF foundationVars
<1> QED BY <1>1, <1>2

(* Whichever part is exercised, each runs as it does by itself, so that the
   theorems about the parts hold in every behaviour of the whole. *)
THEOREM StorageRunsAsByItself ==
  Spec => SettingsSpec /\ FilesSpec /\ BlobSpec /\ MigrationSpec
<1>1. Init => SettingsInit /\ FilesInit /\ BlobInit /\ MigrationInit
  BY DEF Init
<1>2. [Next]_foundationVars =>
        /\ [SettingsNext]_settingsVars /\ [FilesNext]_fileVars
        /\ [BlobNext]_blobVars /\ [MigrationNext]_migrationVars
  BY StepsOfStorage
<1> QED BY <1>1, <1>2, PTL
        DEF Spec, SettingsSpec, FilesSpec, BlobSpec, MigrationSpec

(* Files, tables and histories of the parts on flash hold what they may, and
   the radio runs with the settings. *)
THEOREM StorageTypeCorrect == Spec => []TypesOK
<1>1. SettingsTypesOK /\ FilesTypesOK /\ BlobTypesOK /\ MigrationTypesOK
        => TypesOK
  BY DEF TypesOK
<1> QED BY <1>1, StorageRunsAsByItself, SettingsTypeCorrect, FilesTypeCorrect,
           BlobTypeCorrect, MigrationTypeCorrect, PTL

=============================================================================
