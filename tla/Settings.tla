----------------------------- MODULE Settings -----------------------------
(***************************************************************************)
(* The node's preferences (src/NodePrefs.h; src/MyMesh.cpp: the commands   *)
(* that set them, begin; src/DataStore.cpp: loadPrefs, loadPrefsInt,       *)
(* savePrefs): set by commands, written to "/prefs.json" at once, the      *)
(* result of writing ignored; read, put right and given to the radio when  *)
(* the node starts.  "/new_prefs" is the file of an older firmware.        *)
(*                                                                         *)
(* Numbers are in the units of the commands: kHz, Hz, thousandths.  The    *)
(* floating point of the stored values is left out.  The file is written   *)
(* field by field in the order of NodePrefs::structure, after openWrite    *)
(* emptied it; the serializer is external, and of a file cut short it is   *)
(* assumed to read the fields that come before the cut.                    *)
(***************************************************************************)
EXTENDS Integers, Sequences

CONSTANTS
  Defaults,            \* the preferences begin() starts from
  NoPrefs,             \* there is no such file
  LegacyFiles,         \* what "/new_prefs" may hold, or NoPrefs
  AllowedRepeatFreq,   \* repeat_freq_ranges, in kHz
  MAX_LORA_TX_POWER,
  ENV_INCLUDE_GPS,     \* the build has a GPS
  RadioRequests,       \* bound: [freq, bw, sf, cr, repeat] the app asks for
  SmallValues,         \* bound: numbers other commands carry
  Cuts,                \* bound: after how many fields a file is cut
  MaxCommands,         \* bound: commands in one behaviour
  MaxSaveFaults        \* bound: saves that fail or are cut in one behaviour

\* NodePrefs::structure and the structures nested in it.
PositionFields == <<"node_name", "node_lat", "node_lon">>
RadioFields ==
  << "freq", "bw", "sf", "cr", "rx_boosted_gain", "tx_power_dbm",
     "airtime_factor", "rx_delay_base", "path_hash_mode", "multi_acks" >>
GPSFields == <<"gps_enabled", "gps_interval", "advert_loc_policy">>
RepeatFields == <<"disable_fwd">>
CompanionFields ==
  << "autoadd_max_hops", "default_scope_name", "default_scope_key",
     "ble_pin", "buzzer_quiet", "vibe_quiet", "autoadd_config",
     "manual_add_contacts", "telemetry_mode_base", "telemetry_mode_loc",
     "telemetry_mode_env" >>

\* Variant: the repeat setting is written before the radio's.
FileOrderRepeatFirst ==
  PositionFields \o RepeatFields \o RadioFields \o GPSFields \o CompanionFields

FileOrder ==
  PositionFields \o RadioFields \o GPSFields \o RepeatFields \o CompanionFields

\* The order of "/new_prefs", whose _client_repeat turns into disable_fwd.
LegacyOrder ==
  << "airtime_factor", "node_name", "node_lat", "node_lon", "freq", "sf",
     "cr", "disable_fwd", "manual_add_contacts", "bw", "tx_power_dbm",
     "telemetry_mode_base", "telemetry_mode_loc", "telemetry_mode_env",
     "rx_delay_base", "advert_loc_policy", "multi_acks", "path_hash_mode",
     "ble_pin", "buzzer_quiet", "gps_enabled", "gps_interval",
     "autoadd_config", "autoadd_max_hops", "rx_boosted_gain",
     "default_scope_name", "default_scope_key" >>

Fields == {FileOrder[i] : i \in DOMAIN FileOrder}

\* Values are numbers; so are names and keys here.
Preferences == [Fields -> Int]
PrefsFiles == [fields : 0..Len(FileOrder), prefs : Preferences]

\* The frequencies, in kHz, that a command and a start accept, the
\* bandwidths, in Hz, that a command does; the longest GPS interval, in
\* seconds.
MinFreq == 150000
MaxFreq == 2500000
MinBandwidth == 7000
MaxBandwidth == 500000
Day == 86400

MayRepeat(p) == p.disable_fwd = 0 => p.freq \in AllowedRepeatFreq

\* A node does not repeat unless a file or a command says so; an older firmware
\* turned that on under the same condition as this one.
ASSUME SettingsAssumption ==
  /\ NoPrefs \notin PrefsFiles
  /\ Defaults \in Preferences /\ Defaults.disable_fwd # 0
  /\ \A f \in LegacyFiles \ {NoPrefs} :
       f.fields \in Nat /\ f.prefs \in Preferences /\ MayRepeat(f.prefs)
  /\ \A f \in AllowedRepeatFreq : f \in Int /\ MinFreq <= f /\ f <= MaxFreq
  /\ MAX_LORA_TX_POWER \in Int /\ -9 <= MAX_LORA_TX_POWER
  /\ ENV_INCLUDE_GPS \in BOOLEAN
  /\ RadioRequests \subseteq
       [freq : Int, bw : Int, sf : Int, cr : Int, repeat : BOOLEAN]
  /\ SmallValues \subseteq Int
  /\ Cuts \subseteq 0..(Len(FileOrder) - 1)
  /\ MaxCommands \in Nat /\ MaxSaveFaults \in Nat

VARIABLES
  prefs,       \* _prefs, in RAM
  sensors,     \* the position the sensors tell, <<node_lat, node_lon>>
  radio,       \* what the radio was set to last
  prefsFile,   \* "/prefs.json": NoPrefs or [fields, prefs]: the first
               \* `fields' fields of prefs can be read from it
  legacyFile,  \* "/new_prefs", likewise
  unsaved,     \* history: the newest save failed
  commands,    \* history: commands so far
  saveFaults   \* history: saves that failed or were cut so far

settingsVars == <<prefs, sensors, radio, prefsFile, legacyFile, unsaved,
                  commands, saveFaults>>

RadioOf(p) == [freq |-> p.freq, bw |-> p.bw, sf |-> p.sf, cr |-> p.cr,
               tx |-> p.tx_power_dbm, gain |-> p.rx_boosted_gain]

-----------------------------------------------------------------------------
\* Writing the file.

Whole(p) == [fields |-> Len(FileOrder), prefs |-> p]

\* The file, not opened or cut at some field.
CutFiles(p) ==
  {prefsFile} \union {[fields |-> n, prefs |-> p] : n \in Cuts}

\* DataStore::savePrefs
SavePrefs(p) ==
  \/ /\ prefsFile' = Whole(p)
     /\ unsaved' = FALSE
     /\ UNCHANGED saveFaults
  \/ /\ saveFaults < MaxSaveFaults
     /\ saveFaults' = saveFaults + 1
     /\ prefsFile' \in CutFiles(p)
     /\ unsaved' = TRUE

\* MyMesh::savePrefs: the position is taken from the sensors.
WithPosition(p, position) ==
  [p EXCEPT !.node_lat = position[1], !.node_lon = position[2]]

-----------------------------------------------------------------------------
\* Starting.

FirstFields(order, n) == {order[i] : i \in DOMAIN order \intersect 1..n}

Overlay(base, order, file) ==
  [f \in Fields |-> IF f \in FirstFields(order, file.fields)
                    THEN file.prefs[f] ELSE base[f]]

\* constrain(x, low, high)
constrain(x, low, high) ==
  IF x < low THEN low ELSE IF x > high THEN high ELSE x

\* What begin() keeps each setting between.
Limits ==
  [rx_delay_base |-> <<0, 20000>>, airtime_factor |-> <<0, 9000>>,
   freq |-> <<MinFreq, MaxFreq>>, bw |-> <<7800, MaxBandwidth>>,
   sf |-> <<5, 12>>, cr |-> <<5, 8>>,
   tx_power_dbm |-> <<-9, MAX_LORA_TX_POWER>>,
   gps_enabled |-> <<0, 1>>, gps_interval |-> <<0, Day>>]

Sanitised(p) ==
  [f \in Fields |-> IF f \in DOMAIN Limits
                    THEN constrain(p[f], Limits[f][1], Limits[f][2])
                    ELSE p[f]]

Apply(loaded) ==
  /\ prefs' = Sanitised(loaded)
  /\ sensors' = <<loaded.node_lat, loaded.node_lon>>
  /\ radio' = RadioOf(prefs')

\* loadPrefs, begin, when the file holds `file'.  The old file is read only
\* where there is no new one, however little the new one holds.
BeginFrom(file) ==
  IF file # NoPrefs
  THEN /\ Apply(Overlay(Defaults, FileOrder, file))
       /\ prefsFile' = file
       /\ unsaved' = FALSE /\ UNCHANGED saveFaults
  ELSE IF legacyFile # NoPrefs
  THEN LET loaded == Overlay(Defaults, LegacyOrder, legacyFile) IN
       /\ Apply(loaded)
       /\ SavePrefs(loaded)
  ELSE /\ Apply(Defaults)
       /\ prefsFile' = file
       /\ unsaved' = FALSE /\ UNCHANGED saveFaults

-----------------------------------------------------------------------------
\* Commands.

\* A command makes of the preferences p, saves them and answers OK.
SetPrefs(p) ==
  LET saved == WithPosition(p, sensors) IN
  /\ commands < MaxCommands
  /\ commands' = commands + 1
  /\ prefs' = saved
  /\ SavePrefs(saved)
  /\ UNCHANGED legacyFile

SetInRam(p) ==
  /\ commands < MaxCommands
  /\ commands' = commands + 1
  /\ prefs' = p
  /\ UNCHANGED <<prefsFile, legacyFile, unsaved, saveFaults>>

Quietly == UNCHANGED <<sensors, radio>>

CmdSetAdvertName(name) == SetPrefs([prefs EXCEPT !.node_name = name]) /\ Quietly

\* The sensors hold the position; savePrefs takes it from there.
CmdSetAdvertLatLon(lat, lon) ==
  /\ commands < MaxCommands
  /\ commands' = commands + 1
  /\ sensors' = <<lat, lon>>
  /\ prefs' = WithPosition(prefs, sensors')
  /\ SavePrefs(prefs')
  /\ UNCHANGED <<legacyFile, radio>>

isValidClientRepeatFreq(f) == f \in AllowedRepeatFreq

CmdSetRadioParams(freq, bw, sf, cr, repeat) ==
  /\ repeat => isValidClientRepeatFreq(freq)
  /\ MinFreq <= freq /\ freq <= MaxFreq
  /\ MinBandwidth <= bw /\ bw <= MaxBandwidth
  /\ 5 <= sf /\ sf <= 12 /\ 5 <= cr /\ cr <= 8
  /\ SetPrefs([prefs EXCEPT !.freq = freq, !.bw = bw, !.sf = sf, !.cr = cr,
                       !.disable_fwd = IF repeat THEN 0 ELSE 1])
  /\ radio' = [radio EXCEPT !.freq = freq, !.bw = bw, !.sf = sf, !.cr = cr]
  /\ UNCHANGED sensors

\* Variant: the radio keeps its power until the next start.
CmdSetRadioTxPowerLater(power) ==
  /\ -9 <= power /\ power <= MAX_LORA_TX_POWER
  /\ SetPrefs([prefs EXCEPT !.tx_power_dbm = power]) /\ Quietly

CmdSetRadioTxPower(power) ==
  /\ -9 <= power /\ power <= MAX_LORA_TX_POWER
  /\ SetPrefs([prefs EXCEPT !.tx_power_dbm = power])
  /\ radio' = [radio EXCEPT !.tx = power]
  /\ UNCHANGED sensors

CmdSetTuningParams(rx, af) ==
  SetPrefs([prefs EXCEPT !.rx_delay_base = rx, !.airtime_factor = af]) /\ Quietly

\* Longer frames carry more of the fields.
CmdSetOtherParams(add, telemetry, policy, acks, len) ==
  /\ SetPrefs([prefs EXCEPT
       !.manual_add_contacts = add,
       !.telemetry_mode_base = IF len >= 3 THEN telemetry % 4 ELSE @,
       !.telemetry_mode_loc = IF len >= 3 THEN (telemetry \div 4) % 4 ELSE @,
       !.telemetry_mode_env = IF len >= 3 THEN (telemetry \div 16) % 4 ELSE @,
       !.advert_loc_policy = IF len >= 4 THEN policy ELSE @,
       !.multi_acks = IF len >= 5 THEN acks ELSE @])
  /\ Quietly

CmdSetPathHashMode(mode) ==
  mode < 3 /\ SetPrefs([prefs EXCEPT !.path_hash_mode = mode]) /\ Quietly

\* Variant: the pin is not saved.
CmdSetDevicePinUnsaved(pin) ==
  /\ pin = 0 \/ (100000 <= pin /\ pin <= 999999)
  /\ SetInRam([prefs EXCEPT !.ble_pin = pin])
  /\ Quietly

CmdSetDevicePin(pin) ==
  /\ pin = 0 \/ (100000 <= pin /\ pin <= 999999)
  /\ SetPrefs([prefs EXCEPT !.ble_pin = pin])
  /\ Quietly

\* "set pin" of the rescue console takes any number.
RescueSetPin(pin) == SetPrefs([prefs EXCEPT !.ble_pin = pin]) /\ Quietly

\* CMD_SET_CUSTOM_VAR; without a GPS the variables are the sensors' own.
CmdSetGps(enabled, interval) ==
  /\ ENV_INCLUDE_GPS
  /\ \/ SetPrefs([prefs EXCEPT !.gps_enabled = enabled])
     \/ SetPrefs([prefs EXCEPT !.gps_interval = constrain(interval, 0, Day)])
  /\ Quietly

\* A scope's name and key, or none.
CmdSetDefaultFloodScope(name, key) ==
  /\ SetPrefs([prefs EXCEPT !.default_scope_name = name,
                       !.default_scope_key = key])
  /\ Quietly

CmdSetAutoaddConfig(config, hops, len) ==
  /\ SetPrefs([prefs EXCEPT !.autoadd_config = config,
                       !.autoadd_max_hops =
                          IF len >= 3 THEN constrain(hops, 0, 64) ELSE @])
  /\ Quietly

\* The GPS moves the node; nothing is saved.
GpsFix(lat, lon) ==
  /\ ENV_INCLUDE_GPS /\ prefs.gps_enabled = 1
  /\ sensors' = <<lat, lon>>
  /\ UNCHANGED <<prefs, radio, prefsFile, legacyFile, unsaved, commands,
                 saveFaults>>

\* CMD_REBOOT, "reboot" of the rescue console, the watchdog, or power that
\* fails; during a save that is a save that is cut, and then this.
Reboot == BeginFrom(prefsFile) /\ UNCHANGED <<legacyFile, commands>>

-----------------------------------------------------------------------------

\* A node that has started; it may come from an older firmware, whose file
\* was then read and written anew, or was to be.
SettingsInit ==
  /\ legacyFile \in LegacyFiles
  /\ LET loaded == IF legacyFile = NoPrefs THEN Defaults
                   ELSE Overlay(Defaults, LegacyOrder, legacyFile) IN
     /\ prefs = Sanitised(loaded)
     /\ sensors = <<loaded.node_lat, loaded.node_lon>>
     /\ radio = RadioOf(prefs)
     /\ prefsFile \in IF legacyFile = NoPrefs THEN {NoPrefs}
                      ELSE {NoPrefs, Whole(loaded)} \union
                             {[fields |-> n, prefs |-> loaded] : n \in Cuts}
     /\ unsaved = (legacyFile # NoPrefs /\ prefsFile # Whole(loaded))
  /\ commands = 0 /\ saveFaults = 0

SettingsCommand ==
  \/ \E r \in RadioRequests :
       CmdSetRadioParams(r.freq, r.bw, r.sf, r.cr, r.repeat)
  \/ \E v, w \in SmallValues :
       \/ CmdSetAdvertLatLon(v, w)
       \/ CmdSetTuningParams(v, w)
       \/ \E len \in 2..5 : CmdSetOtherParams(v, w, w, v, len)
       \/ CmdSetGps(IF v = 1 THEN 1 ELSE 0, w)
       \/ CmdSetDefaultFloodScope(v, v)
       \/ \E len \in 2..3 : CmdSetAutoaddConfig(v, w, len)
       \/ GpsFix(v, w)
  \/ \E v \in SmallValues :
       \/ CmdSetAdvertName(v) \/ CmdSetRadioTxPower(v)
       \/ CmdSetPathHashMode(v) \/ CmdSetDevicePin(v) \/ RescueSetPin(v)

SettingsNext == SettingsCommand \/ Reboot

-----------------------------------------------------------------------------
\* Properties.

SettingsTypesOK ==
  /\ prefs \in Preferences
  /\ sensors \in Int \X Int
  /\ radio = RadioOf(prefs)
  /\ prefsFile \in PrefsFiles \union {NoPrefs}
  /\ legacyFile \in LegacyFiles
  /\ commands \in 0..MaxCommands /\ saveFaults \in 0..MaxSaveFaults

(* The node repeats only on a frequency where that is allowed, whichever
   saves failed or were cut and whichever file the settings came from: the
   file keeps the frequency before the switch, so no cut leaves the switch
   on and the frequency behind. *)
RepeatOnAllowedFreq == MayRepeat(prefs)

\* What a command accepts and the next start puts right.
PutRight == {"bw", "rx_delay_base", "airtime_factor"}

(* A restart keeps every setting the app was told was taken, unless the save
   failed unseen; only a bandwidth below 7.8 kHz and the tuning parameters,
   which no command checks, are put right then. *)
RebootKeepsSettings ==
  [][~unsaved /\ commands' = commands /\ prefs' # prefs /\ Reboot =>
       \A f \in Fields \ PutRight : prefs'[f] = prefs[f]]_settingsVars

=============================================================================
