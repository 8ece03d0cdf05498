------------------------------- MODULE Storage ------------------------------
(***************************************************************************)
(* All that the device keeps in flash (storage.c, and the handlers of      *)
(* serial_proto.c that change it): the event log of EventLog, whose        *)
(* actions are conjoined, the configuration and the PIN, with one mount,   *)
(* one CLEAR and one start for the three.  The power may go between any    *)
(* two of the deletes of a CLEAR.                                          *)
(*                                                                         *)
(* A section of the configuration is at its default, as somebody chose it, *)
(* or empty; left out are the timing, the applications (HelloDetector) and *)
(* the device string, which main() sets anew.  External, LittleFS: a write *)
(* that fails, or that fails to be committed at the close, leaves the old  *)
(* file, or an empty one if there was none.                                *)
(***************************************************************************)
EXTENDS EventLog

VARIABLES
  config,      \* g_state.config
  configFile,  \* /config.json: {configuration}, or {} if missing or empty
  pinStored,   \* g_state.pin_stored
  pinFile,     \* /pin.enc: "none", "empty" or "pin"
  deletes,     \* what storage_clear_all deletes next, or "nothing"
  unsaved,     \* history: the last save or delete of the configuration failed
  pinFaults    \* history: writes and deletes of the PIN that have failed

configVars == <<config, configFile, unsaved>>
pinVars == <<pinStored, pinFile, pinFaults>>
storageVars == <<vars, configVars, pinVars, deletes>>

Sections == {"locale", "time", "days", "ssid", "password"}
Config == [Sections -> {"default", "chosen", "none"}]

(* config_set_defaults                                                     *)
Default == [s \in Sections |-> "default"]

(* config_from_json: the sections it finds, over the defaults.             *)
Parsed(payload) ==
  [s \in Sections |-> IF s \in DOMAIN payload THEN payload[s] ELSE "default"]

(* config_to_json: all but the WiFi password.                              *)
Written(c) == [c EXCEPT !["password"] = "default"]

(* storage_save_config over the file f.  A close that fails is not noticed *)
(* and a write that fails is answered, but both leave f.                   *)
Save(f) ==
  \/ mounted' /\ configFile' = {Written(config')} /\ unsaved' = FALSE
  \/ configFile' = f /\ unsaved' = TRUE

StorageInit ==
  /\ Init
  /\ config = Default
  /\ \/ mounted /\ configFile = {Default} /\ unsaved = FALSE
     \/ configFile = {} /\ unsaved = TRUE
  /\ pinStored = FALSE /\ pinFile = "none" /\ pinFaults = {}
  /\ deletes = "nothing"

-----------------------------------------------------------------------------
(* The start                                                               *)

(* storage_load_config takes a file that cannot be read for one that is    *)
(* not there and writes the defaults over it.                              *)
LoadConfig(f) ==
  \/ mounted' /\ config' \in f /\ configFile' = f /\ unsaved' = FALSE
  \/ config' = Default /\ Save(f)

\* Mutant: the PIN of the last power cycle is taken to be there still.
FindPin_Trusting(f) ==
  /\ pinFile' = f /\ pinStored' = (mounted' /\ (pinStored \/ f # "none"))
  /\ pinFaults' = IF f = "empty" THEN pinFaults \cap {"write"} ELSE {}

(* storage_has_pin: that the file can be opened.                           *)
FindPin(f) ==
  /\ pinFile' = f /\ pinStored' = (mounted' /\ f # "none")
  /\ pinFaults' = IF f = "empty" THEN pinFaults \cap {"write"} ELSE {}

Start ==
  /\ \/ RestoredBoot /\ LoadConfig(configFile) /\ FindPin(pinFile)
     \/ \E kept \in BOOLEAN :
          /\ EmptyBoot(kept)
          /\ LoadConfig(IF kept THEN configFile ELSE {})
          /\ FindPin(IF kept THEN pinFile ELSE "none")
  /\ deletes' = "nothing"

-----------------------------------------------------------------------------
(* The handlers                                                            *)

Idle == deletes = "nothing" /\ ~clearing

\* Mutant: the configuration is only kept in memory.
SetConfig_RamOnly(payload) ==
  /\ Idle /\ config' = Parsed(payload)
  /\ UNCHANGED <<configFile, unsaved, vars, pinVars, deletes>>

(* storage_set_config_json: memory is changed even if the save fails.      *)
SetConfig(payload) ==
  /\ Idle /\ config' = Parsed(payload)
  /\ UNCHANGED <<vars, pinVars, deletes>>
  /\ Save(configFile)

(* storage_save_pin.  Of what may fail, the close is not noticed.          *)
SetupPin ==
  /\ Idle
  /\ \/ mounted /\ pinStored' = TRUE /\ pinFile' = "pin" /\ pinFaults' = {}
     \/ /\ pinStored' \in {pinStored, mounted \/ pinStored}
        /\ pinFile' \in {pinFile} \cup (IF mounted /\ pinFile = "none" THEN {"empty"} ELSE {})
        /\ pinFaults' = pinFaults \cup {"write"}
  /\ UNCHANGED <<vars, configVars, deletes>>

(* LogEvent of EventLog, for the handlers that log.                        *)
Logs == Idle /\ LogEvent /\ UNCHANGED <<configVars, pinVars, deletes>>

(* handle_clear.  Deletes that fail are not noticed.                       *)
Deleted(f, none) == {f} \cup (IF mounted THEN {none} ELSE {})

DeletePin ==
  /\ Idle /\ deletes' = "config"
  /\ pinFile' \in Deleted(pinFile, "none")
  /\ UNCHANGED <<vars, configVars, pinStored, pinFaults>>

DeleteConfig ==
  /\ deletes = "config" /\ deletes' = "log"
  /\ configFile' \in Deleted(configFile, {})
  /\ UNCHANGED <<vars, config, unsaved, pinVars>>

DeleteLog ==
  /\ deletes = "log" /\ deletes' = "nothing"
  /\ ClearFiles
  /\ config' = Default /\ unsaved' = (configFile # {})
  /\ pinStored' = FALSE
  /\ pinFaults' = IF pinFile = "none" THEN {} ELSE pinFaults \cup {"delete"}
  /\ UNCHANGED <<configFile, pinFile>>

EmptyLog == deletes = "nothing" /\ ClearLog /\ UNCHANGED <<configVars, pinVars, deletes>>

Clear == DeletePin \/ DeleteConfig \/ DeleteLog \/ EmptyLog

-----------------------------------------------------------------------------
(* What the PC sends                                                       *)

(* The settings panel: the schedule names its days, of which the device    *)
(* reads none; the timing has no section of its own, so nothing is read,   *)
(* and the applications are no section of this model.                      *)
SavesSchedule == SetConfig([time |-> "chosen", days |-> "none"])
SavesTiming   == SetConfig(<<>>)
SavesApps     == SetConfig(<<>>)
ChangesPin    == SetupPin
ClearsAll     == Clear

(* The language button of the App.                                         *)
SavesLocale == \E locale \in {"default", "chosen"} : SetConfig([locale |-> locale])

(* No program sends the WiFi section: somebody at a terminal.              *)
SavesWifi == SetConfig([ssid |-> "chosen", password |-> "chosen"])

StorageNext ==
  \/ Start \/ Logs
  \/ SavesSchedule \/ SavesTiming \/ SavesApps \/ SavesLocale \/ SavesWifi
  \/ ChangesPin \/ ClearsAll

StorageSpec == StorageInit /\ [][StorageNext]_storageVars

-----------------------------------------------------------------------------
(* Properties                                                              *)

(* Every variable has its type, those of EventLog too.                     *)
StorageTypeOK ==
  /\ TypeOK
  /\ config \in Config /\ configFile \in SUBSET Config
  /\ pinFile \in {"none", "empty", "pin"} /\ pinFaults \subseteq {"write", "delete"}
  /\ {pinStored, unsaved} \subseteq BOOLEAN
  /\ deletes \in {"nothing", "config", "log"}

(* The device runs with what it would load at its next start, except for   *)
(* the WiFi password, which is not written: through torn CLEARs, starts    *)
(* that cannot read the file or have formatted it, and handlers that       *)
(* replace everything; unless the last save or delete of the file failed,  *)
(* noticed or not.                                                         *)
StoredIsRunning ==
  deletes = "nothing" /\ ~unsaved =>
    IF configFile = {} THEN config = Default ELSE configFile = {Written(config)}

(* pin_stored, which STATUS reports and boot unlock goes by, and the PIN   *)
(* that UNLOCK finds in flash part only in two ways.  One that is reported *)
(* and not there: a SETUP_PIN failed, in this power cycle or, leaving an   *)
(* empty file, before.  One that is there and not reported: a CLEAR failed *)
(* to delete it in this power cycle, or there is no file system.  A start  *)
(* and a CLEAR that is cut short never part them.                          *)
PinAgrees ==
  deletes = "nothing" =>
    /\ pinStored /\ pinFile # "pin" => "write" \in pinFaults
    /\ ~pinStored /\ pinFile = "pin" => "delete" \in pinFaults \/ ~mounted
=============================================================================
