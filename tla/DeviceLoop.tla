----------------------------- MODULE DeviceLoop -----------------------------
(***************************************************************************)
(* The firmware's super-loop (firmware/src/main.c) with the three parties  *)
(* that may type the PIN on the host's keyboard port: the boot-unlock      *)
(* state machine, the serial command handlers and the scheduled wake.      *)
(*                                                                         *)
(* The firmware is single-threaded.  One iteration of the loop is          *)
(*     tud -> serial -> (lines)* -> boot -> sched -> tud                   *)
(* and "loc" is the place it has reached; a handler that sleeps while it   *)
(* types has a place of its own, because the host, the clock and a power   *)
(* cut may act during the sleep.  Time is abstract: a boot timer has or    *)
(* has not expired when its test is reached, and the wall clock advances   *)
(* in slots, one of which stands for the schedule's minute.                *)
(***************************************************************************)
EXTENDS Naturals, Sequences

CONSTANTS
  Configs,        \* config_t as the loop reads it: [retry, days, at]
  DefaultConfig,  \* config_set_defaults()
  SlotsPerDay,    \* clock slots in a day (1440 minutes in the code)
  DayModulus,     \* the day number is kept in a byte: 256 in the code
  MaxWall,        \* bound: the clock stops here
  WireCap,        \* bound: lines written by the host, not yet in the device
  FifoCap,        \* lines that fit in the CDC receive FIFO
  MaxCuts,        \* bound: power cuts
  FsMayFail       \* whether flash reads, writes and deletes may fail

DayOfWeek == 0..6

ConfigType == [retry : 0..255, days : SUBSET DayOfWeek, at : 0..(SlotsPerDay - 1)]

ASSUME ConfigAssumption == /\ Configs \subseteq ConfigType
                           /\ DefaultConfig \in ConfigType
ASSUME BoundAssumption  == /\ SlotsPerDay \in Nat \ {0}
                           /\ DayModulus  \in Nat \ {0}
                           /\ MaxWall \in Nat
                           /\ WireCap \in Nat
                           /\ FifoCap \in Nat \ {0}
                           /\ MaxCuts \in Nat
                           /\ FsMayFail \in BOOLEAN

VARIABLES
  loc,          \* where the loop is
  wire,         \* lines the host has written and USB has not delivered
  fifo,         \* complete lines in the CDC receive FIFO
  connected,    \* the host has the port open (DTR)
  flashMode,    \* _flash_mode: the FIFO holds firmware bytes, not lines
  bootState,    \* _boot_state
  attempt,      \* _boot_attempt
  cancelled,    \* g_state.boot_unlock_cancelled
  done,         \* g_state.boot_unlock_done
  config,       \* g_state.config
  pinStored,    \* g_state.pin_stored
  synced,       \* NTP answered during this boot: wifi_get_epoch() > 0
  active,       \* scheduler's _active
  wakeFired,    \* _wake_fired_today
  lastWakeDay,  \* _last_wake_day
  pinFile,      \* flash: /pin.enc exists
  configFile,   \* flash: /config.json
  wall,         \* the wall clock, in slots since the epoch
  cuts,         \* power cuts so far
  heard,        \* history: a known command was dispatched since power-up
  bootTypings,  \* history: times boot unlock typed the PIN since power-up
  wakeDays      \* history: days on which a wake fired since power-up

hostVars  == <<wire, connected>>
bootVars  == <<bootState, attempt, done, bootTypings>>
schedVars == <<active, wakeFired, lastWakeDay, wakeDays>>
fileVars  == <<pinFile, configFile>>
envVars   == <<wall, cuts, synced>>
vars == <<loc, wire, fifo, connected, flashMode, bootState, attempt,
          cancelled, done, config, pinStored, synced, active, wakeFired,
          lastWakeDay, pinFile, configFile, wall, cuts, heard, bootTypings,
          wakeDays>>

(* The command lines.  QUERY stands for the commands that change nothing   *)
(* here (PING, GET_CONFIG, GET_LOG, STATUS, TYPE, PRESS, BOOT_OK), NOISE   *)
(* for a line parse_command does not know.                                 *)
Lines == {"UNLOCK", "HELLO", "SETUP_PIN", "CLEAR", "SET_CONFIG", "FLASH",
          "QUERY", "NOISE"}
Known(line) == line # "NOISE"

Locs == {"tud", "serial", "lines", "unlock", "hello",
         "boot", "bootEnter", "sched", "wake", "wakeEnter"}
BootStates == {"WAITING", "SHIFT_1", "SHIFT_2", "TYPING", "RETRY_WAIT", "DONE"}

(* The outcomes of an operation on the file system.                        *)
FsOutcomes == IF FsMayFail THEN BOOLEAN ELSE {TRUE}

(* storage_load_pin reads and decrypts /pin.enc; storage_has_pin opens it. *)
LoadPinOutcomes == IF pinFile THEN FsOutcomes ELSE {FALSE}

Today == wall \div SlotsPerDay
Slot  == wall % SlotsPerDay
\* 1970-01-01 was a Thursday
DayOfWeekToday == (Today + 4) % 7

-----------------------------------------------------------------------------
(* Power-up: the RAM is cleared, the files survive, main() runs its        *)
(* initialisation up to the loop.  A configuration that cannot be read is  *)
(* replaced by the defaults, in RAM and, if the write succeeds, in flash.  *)
(* WiFi and NTP answer or they do not; if not now, wifi_task never tries   *)
(* again.                                                                  *)

ConfigRead == IF FsMayFail THEN {configFile, DefaultConfig} ELSE {configFile}

BootUnlockStart ==
  /\ bootState' = IF pinStored' THEN "WAITING" ELSE "DONE"
  /\ attempt' = 0
  /\ cancelled' = FALSE
  /\ done' = FALSE
  /\ bootTypings' = 0

SchedulerInit ==
  /\ active' = (synced' /\ config'.days # {})
  /\ wakeFired' = FALSE
  /\ lastWakeDay' = DayModulus - 1
  /\ wakeDays' = {}

PowerUp ==
  /\ loc' = "tud"
  /\ fifo' = << >> /\ wire' = << >> /\ connected' = FALSE
  /\ flashMode' = FALSE
  /\ config' \in ConfigRead
  /\ configFile' \in {configFile, config'}
  /\ pinStored' \in LoadPinOutcomes
  /\ synced' \in BOOLEAN
  /\ BootUnlockStart
  /\ SchedulerInit
  /\ heard' = FALSE
  /\ UNCHANGED <<pinFile, wall>>

Init ==
  /\ loc = "tud"
  /\ fifo = << >> /\ wire = << >> /\ connected = FALSE
  /\ flashMode = FALSE
  /\ pinFile \in BOOLEAN /\ configFile \in Configs \cup {DefaultConfig}
  /\ config \in ConfigRead /\ pinStored \in LoadPinOutcomes
  /\ bootState = (IF pinStored THEN "WAITING" ELSE "DONE")
  /\ attempt = 0 /\ cancelled = FALSE /\ done = FALSE
  /\ synced \in BOOLEAN
  /\ active = (synced /\ config.days # {})
  /\ wakeFired = FALSE /\ lastWakeDay = DayModulus - 1
  /\ wall = 0 /\ cuts = 0
  /\ heard = FALSE /\ bootTypings = 0 /\ wakeDays = {}

-----------------------------------------------------------------------------
(* tud_task: USB moves the lines that fit into the receive FIFO.  The loop *)
(* calls it at its top, and a handler calls it again while it waits for a  *)
(* key report or for room to answer.                                       *)

\* Mutant: delivers everything, whether or not the FIFO has room.
UsbDelivers_NoRoom ==
  /\ fifo' = fifo \o wire
  /\ wire' = << >>
  /\ UNCHANGED <<bootVars, schedVars, fileVars, envVars, connected,
                 flashMode, cancelled, config, pinStored, heard>>

UsbDelivers ==
  LET n == IF Len(wire) <= FifoCap - Len(fifo)
             THEN Len(wire) ELSE FifoCap - Len(fifo)
  IN /\ fifo' = fifo \o SubSeq(wire, 1, n)
     /\ wire' = SubSeq(wire, n + 1, Len(wire))
     /\ UNCHANGED <<bootVars, schedVars, fileVars, envVars, connected,
                    flashMode, cancelled, config, pinStored, heard>>

UsbTask ==
  /\ loc = "tud" /\ loc' = "serial"
  /\ UsbDelivers

UsbNested ==
  /\ loc \in {"lines", "unlock", "hello", "bootEnter", "wake", "wakeEnter"}
  /\ UsbDelivers
  /\ UNCHANGED loc

-----------------------------------------------------------------------------
(* serial_task                                                             *)

SerialIdle ==
  /\ loc = "serial"
  /\ ~connected \/ fifo = << >>
  /\ loc' = "boot"
  /\ UNCHANGED <<bootVars, schedVars, fileVars, envVars, hostVars, fifo,
                 flashMode, cancelled, config, pinStored, heard>>

SerialText ==
  /\ loc = "serial"
  /\ connected /\ fifo # << >> /\ ~flashMode
  /\ loc' = "lines"
  /\ UNCHANGED <<bootVars, schedVars, fileVars, envVars, hostVars, fifo,
                 flashMode, cancelled, config, pinStored, heard>>

(* process_flash_data takes up to 512 bytes; the bytes are firmware,       *)
(* whatever the host meant them to be.  Flash mode goes on, or ends with   *)
(* an error.                                                               *)
FlashBytes ==
  /\ loc = "serial"
  /\ connected /\ fifo # << >> /\ flashMode
  /\ fifo' = << >>
  /\ flashMode' \in BOOLEAN
  /\ loc' = "boot"
  /\ UNCHANGED <<bootVars, schedVars, fileVars, envVars, hostVars,
                 cancelled, config, pinStored, heard>>

(* The last byte of a firmware that verifies: bootloader_finalize reboots. *)
FlashReboot ==
  /\ loc = "serial"
  /\ connected /\ fifo # << >> /\ flashMode
  /\ cuts < MaxCuts
  /\ cuts' = cuts + 1
  /\ PowerUp

LinesDone ==
  /\ loc = "lines"
  /\ fifo = << >>
  /\ loc' = "boot"
  /\ UNCHANGED <<bootVars, schedVars, fileVars, envVars, hostVars, fifo,
                 flashMode, cancelled, config, pinStored, heard>>

(* dispatch_command: a known command cancels boot unlock before its        *)
(* handler runs.                                                           *)
Dispatch(line) ==
  /\ loc = "lines"
  /\ fifo # << >> /\ Head(fifo) = line
  /\ fifo' = Tail(fifo)
  /\ cancelled' = (cancelled \/ Known(line))
  /\ heard' = (heard \/ Known(line))
  /\ UNCHANGED <<hostVars, bootVars, schedVars, envVars>>

(* handle_unlock and handle_hello: load the PIN, type it (this takes the   *)
(* handler a while), press Enter after dialog_wait for UNLOCK.             *)
TypingLine(line, place) ==
  /\ Dispatch(line)
  /\ \E ok \in LoadPinOutcomes : loc' = IF ok THEN place ELSE "lines"
  /\ UNCHANGED <<fileVars, flashMode, config, pinStored>>

Unlock == TypingLine("UNLOCK", "unlock")
Hello  == TypingLine("HELLO", "hello")

(* The handler returns, whether or not every key went out.                 *)
HandlerReturns ==
  /\ loc \in {"unlock", "hello"}
  /\ loc' = "lines"
  /\ UNCHANGED <<bootVars, schedVars, fileVars, envVars, hostVars, fifo,
                 flashMode, cancelled, config, pinStored, heard>>

(* handle_setup_pin: a refused PIN changes nothing; a write that fails may *)
(* have created the file.                                                  *)
SetupPin ==
  /\ Dispatch("SETUP_PIN")
  /\ \E ok \in BOOLEAN :
       /\ pinStored' = (pinStored \/ ok)
       /\ pinFile' \in {pinFile \/ ok} \cup (IF FsMayFail THEN {TRUE} ELSE {})
  /\ loc' = "lines"
  /\ UNCHANGED <<configFile, flashMode, config>>

(* storage_clear_all ignores the result of every delete; without           *)
(* /config.json the next boot starts from the defaults.                    *)
Clear ==
  /\ Dispatch("CLEAR")
  /\ \E pinGone, configGone \in FsOutcomes :
       /\ pinFile' = (pinFile /\ ~pinGone)
       /\ configFile' = IF configGone THEN DefaultConfig ELSE configFile
  /\ pinStored' = FALSE
  /\ config' = DefaultConfig
  /\ loc' = "lines"
  /\ UNCHANGED flashMode

(* storage_set_config_json installs the new configuration, then saves it;  *)
(* a failed save leaves the two apart.                                     *)
SetConfig ==
  /\ Dispatch("SET_CONFIG")
  /\ \E c \in Configs, saved \in FsOutcomes :
       /\ config' = c
       /\ configFile' = IF saved THEN c ELSE configFile
  /\ loc' = "lines"
  /\ UNCHANGED <<pinFile, flashMode, pinStored>>

(* handle_flash: an invalid size is refused.  The lines that are already   *)
(* in the FIFO are still read as lines.                                    *)
Flash ==
  /\ Dispatch("FLASH")
  /\ flashMode' \in {flashMode, TRUE}
  /\ loc' = "lines"
  /\ UNCHANGED <<fileVars, config, pinStored>>

OtherLine ==
  /\ Dispatch("QUERY") \/ Dispatch("NOISE")
  /\ loc' = "lines"
  /\ UNCHANGED <<fileVars, flashMode, config, pinStored>>

SerialTask ==
  \/ SerialIdle \/ SerialText \/ FlashBytes \/ FlashReboot \/ LinesDone
  \/ Unlock \/ Hello \/ HandlerReturns \/ SetupPin \/ Clear \/ SetConfig
  \/ Flash \/ OtherLine

-----------------------------------------------------------------------------
(* boot_unlock_task: one call per iteration.                               *)

BootStep(next) ==
  /\ loc = "boot" /\ loc' = next
  /\ UNCHANGED <<schedVars, fileVars, envVars, hostVars, fifo, flashMode,
                 cancelled, config, pinStored, heard>>

BootIdle ==
  /\ bootState = "DONE"
  /\ BootStep("sched")
  /\ UNCHANGED bootVars

BootCancel ==
  /\ bootState # "DONE" /\ cancelled
  /\ BootStep("sched")
  /\ bootState' = "DONE" /\ done' = TRUE
  /\ UNCHANGED <<attempt, bootTypings>>

\* Mutant: the cancel flag is obeyed only before the first Shift.
BootPending_IfNotFired == bootState # "DONE" /\ ~(cancelled /\ bootState = "WAITING")

BootPending == bootState # "DONE" /\ ~cancelled

(* The step's timer has not expired.                                       *)
BootNotYet ==
  /\ BootPending
  /\ BootStep("sched")
  /\ UNCHANGED bootVars

(* boot_wait or the retry interval is over: the first Shift.               *)
BootShift1 ==
  /\ BootPending /\ bootState \in {"WAITING", "RETRY_WAIT"}
  /\ BootStep("sched")
  /\ bootState' = "SHIFT_1"
  /\ UNCHANGED <<attempt, done, bootTypings>>

\* Mutant: the second Shift arms the first wait again.
BootShift2_Rearms ==
  /\ BootPending /\ bootState = "SHIFT_1"
  /\ BootStep("sched")
  /\ bootState' = "WAITING"
  /\ UNCHANGED <<attempt, done, bootTypings>>

BootShift2 ==
  /\ BootPending /\ bootState = "SHIFT_1"
  /\ BootStep("sched")
  /\ bootState' = "SHIFT_2"
  /\ UNCHANGED <<attempt, done, bootTypings>>

BootType ==
  /\ BootPending /\ bootState = "SHIFT_2"
  /\ TRUE \in LoadPinOutcomes
  /\ BootStep("bootEnter")
  /\ bootTypings' = bootTypings + 1
  /\ UNCHANGED <<bootState, attempt, done>>

(* The PIN cannot be loaded: nothing is typed, the attempt counts.         *)
BootNoPin ==
  /\ BootPending /\ bootState = "SHIFT_2"
  /\ FALSE \in LoadPinOutcomes
  /\ BootStep("sched")
  /\ bootState' = "TYPING"
  /\ UNCHANGED <<attempt, done, bootTypings>>

(* After dialog_wait: Enter, and the rest of the loop's iteration.         *)
BootEnter ==
  /\ loc = "bootEnter" /\ loc' = "sched"
  /\ bootState' = "TYPING"
  /\ UNCHANGED <<attempt, done, bootTypings, schedVars, fileVars, envVars,
                 hostVars, fifo, flashMode, cancelled, config, pinStored,
                 heard>>

\* Mutant: one attempt too many.
BootJudge_OffByOne ==
  /\ BootPending /\ bootState = "TYPING"
  /\ BootStep("sched")
  /\ attempt' = attempt + 1
  /\ bootState' = IF attempt + 1 <= config.retry THEN "RETRY_WAIT" ELSE "DONE"
  /\ done' = (done \/ attempt + 1 > config.retry)
  /\ UNCHANGED bootTypings

(* Five seconds after Enter nobody has spoken: another attempt, or give up.*)
BootJudge ==
  /\ BootPending /\ bootState = "TYPING"
  /\ BootStep("sched")
  /\ attempt' = attempt + 1
  /\ bootState' = IF attempt + 1 < config.retry THEN "RETRY_WAIT" ELSE "DONE"
  /\ done' = (done \/ attempt + 1 >= config.retry)
  /\ UNCHANGED bootTypings

BootFires == BootShift1 \/ BootShift2 \/ BootType \/ BootNoPin \/ BootJudge
BootTask  == BootIdle \/ BootCancel \/ BootNotYet \/ BootFires \/ BootEnter

-----------------------------------------------------------------------------
(* scheduler_task                                                          *)

SchedStep(next) ==
  /\ loc = "sched" /\ loc' = next
  /\ UNCHANGED <<bootVars, fileVars, envVars, hostVars, fifo, flashMode,
                 config, pinStored, heard>>

SchedActive == active \/ (synced /\ config.days # {})

SchedIdle ==
  /\ ~SchedActive
  /\ SchedStep("tud")
  /\ UNCHANGED <<schedVars, cancelled>>

FiredToday == wakeFired /\ Today % DayModulus = lastWakeDay
WakeDue    == /\ ~FiredToday
              /\ DayOfWeekToday \in config.days
              /\ Slot = config.at

SchedNotDue ==
  /\ SchedActive /\ ~WakeDue
  /\ SchedStep("tud")
  /\ active' = TRUE
  /\ wakeFired' = FiredToday
  /\ lastWakeDay' = Today % DayModulus
  /\ UNCHANGED <<wakeDays, cancelled>>

\* Mutant: the wake is not recorded as fired.
SchedWake_Unrecorded ==
  /\ SchedActive /\ WakeDue
  /\ SchedStep("wake")
  /\ active' = TRUE
  /\ wakeFired' = FiredToday
  /\ lastWakeDay' = Today % DayModulus
  /\ cancelled' = FALSE
  /\ wakeDays' = wakeDays \cup {Today}

(* The minute has come: the cancel flag is lowered for the new wake and    *)
(* scheduler_do_wake runs to its end before the loop goes on.              *)
SchedWake ==
  /\ SchedActive /\ WakeDue
  /\ SchedStep("wake")
  /\ active' = TRUE
  /\ wakeFired' = TRUE
  /\ lastWakeDay' = Today % DayModulus
  /\ cancelled' = FALSE
  /\ wakeDays' = wakeDays \cup {Today}

\* Mutant: waits for a command without a time limit.
WakeWaitOver_NoTimeout ==
  /\ loc = "wake" /\ cancelled
  /\ loc' = "tud"
  /\ UNCHANGED <<bootVars, schedVars, fileVars, envVars, hostVars, fifo,
                 flashMode, cancelled, config, pinStored, heard>>

(* do_wake has waked the host, slept, and polled the cancel flag for 30s   *)
(* without running tud_task or serial_task; then it types the PIN blindly. *)
WakeWaitOver ==
  /\ loc = "wake"
  /\ loc' \in {IF ok /\ ~cancelled /\ pinStored THEN "wakeEnter" ELSE "tud" :
                 ok \in LoadPinOutcomes}
  /\ UNCHANGED <<bootVars, schedVars, fileVars, envVars, hostVars, fifo,
                 flashMode, cancelled, config, pinStored, heard>>

WakeEnter ==
  /\ loc = "wakeEnter" /\ loc' = "tud"
  /\ UNCHANGED <<bootVars, schedVars, fileVars, envVars, hostVars, fifo,
                 flashMode, cancelled, config, pinStored, heard>>

SchedTask == SchedIdle \/ SchedNotDue \/ SchedWake \/ WakeWaitOver \/ WakeEnter

-----------------------------------------------------------------------------
(* The environment: the host's port, the clock, the power.                 *)

devVars == <<loc, fifo, flashMode, bootVars, schedVars, fileVars, cancelled,
             config, pinStored, heard, synced>>

HostSends ==
  /\ connected /\ Len(wire) < WireCap
  /\ \E line \in Lines : wire' = Append(wire, line)
  /\ UNCHANGED <<devVars, connected, wall, cuts>>

HostOpens ==
  /\ ~connected /\ connected' = TRUE
  /\ UNCHANGED <<devVars, wire, wall, cuts>>

(* What the host's driver has not delivered is dropped with the port.      *)
HostCloses ==
  /\ connected /\ connected' = FALSE
  /\ wire' = << >>
  /\ UNCHANGED <<devVars, wall, cuts>>

Tick ==
  /\ wall < MaxWall
  /\ wall' = wall + 1
  /\ UNCHANGED <<devVars, hostVars, cuts>>

PowerCut ==
  /\ cuts < MaxCuts
  /\ cuts' = cuts + 1
  /\ PowerUp

Environment == HostSends \/ HostOpens \/ HostCloses \/ Tick \/ PowerCut

Firmware == UsbTask \/ UsbNested \/ SerialTask \/ BootTask \/ SchedTask

Next == Firmware \/ Environment

Spec == Init /\ [][Next]_vars

(* The loop never stops.  Time passes, so a boot timer that is tested over *)
(* and over is found expired: strong fairness of BootFires.  The host does *)
(* not flood: of the times serial_task has emptied the FIFO, it also finds *)
(* it empty.                                                               *)
FairSpec == Spec /\ WF_vars(Firmware) /\ SF_vars(BootFires) /\ SF_vars(LinesDone)
-----------------------------------------------------------------------------
(* Properties                                                              *)

AttemptLimit(retry) == IF retry = 0 THEN 1 ELSE retry

FlagsOK ==
  {connected, flashMode, cancelled, done, pinStored, pinFile, synced,
   active, wakeFired, heard} \subseteq BOOLEAN

DataOK ==
  /\ loc \in Locs
  /\ wire \in Seq(Lines)
  /\ fifo \in Seq(Lines) /\ Len(fifo) <= FifoCap
  /\ bootState \in BootStates
  /\ attempt \in 0..255
  /\ config \in ConfigType /\ configFile \in ConfigType
  /\ lastWakeDay \in 0..(DayModulus - 1)
  /\ wall \in Nat /\ cuts \in Nat
  /\ bootTypings \in Nat /\ wakeDays \subseteq Nat

(* Every variable has its type; in particular the receive FIFO never holds *)
(* more lines than it has room for, and the attempt counter fits its byte. *)
TypeOK == FlagsOK /\ DataOK

(* Once a known command has been dispatched, boot unlock makes no further  *)
(* move in this power cycle except to its end: no Shift, no PIN, no Enter  *)
(* (dispatch_command cancels, boot_unlock_task obeys).  The scheduler      *)
(* lowers the same cancel flag for its own wake, and must not revive it.   *)
BootQuietOnceHeard ==
  [][heard /\ heard' => /\ bootState' \in {bootState, "DONE"}
                       /\ bootTypings' = bootTypings]_vars

(* Boot unlock types the PIN at most retry_count times in a power cycle,   *)
(* and once if retry_count is 0: a host whose PIN is wrong is not locked   *)
(* out by more attempts than were configured.                              *)
BootTypingsWithinRetry ==
  [][bootTypings' > bootTypings => bootTypings' <= AttemptLimit(config.retry)]_vars

(* In one power cycle a wake fires at most once a day, although the test   *)
(* of the minute succeeds in many iterations of the loop, the wake itself  *)
(* outlasts the minute and the configuration may change between them.      *)
OneWakePerDay ==
  [][loc' = "wake" /\ loc # "wake" => Today \notin wakeDays]_vars

(* Boot unlock comes to its end, cancelled or out of attempts, or a known  *)
(* command has silenced it: whatever the host sends and however long the   *)
(* wakes block the loop, it does not go on for ever.  (A host that never   *)
(* lets serial_task empty the FIFO keeps boot_unlock_task from running and *)
(* so from noticing that it has been cancelled.)                           *)
BootUnlockFinishes == <>[](bootState = "DONE" \/ heard)

(* A line that has reached the device is consumed (or lost with the power) *)
(* unless the host closes the port: no other party of the loop starves     *)
(* serial_task.                                                            *)
LinesServed == (connected /\ fifo # << >>) ~> (fifo = << >> \/ ~connected)

=============================================================================
