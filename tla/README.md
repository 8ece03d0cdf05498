# pywinhello: TLA+ models, checks and proofs

pywinhello unlocks a Windows PC with a Raspberry Pi Pico that acts as a USB
keyboard. The Pico keeps the PIN; a monitor on the PC tells it over a serial
port when to type. The firmware (`src/firmware`, C) is a single-threaded
super-loop; the monitor (`src/pc/src/pywinhello`, Python) is a handful of
threads that share one serial port.

This directory models, of the firmware, its loop with the three parties that may type
the PIN, its update over the serial port, and what it keeps in flash, the event log, the
configuration and the PIN; of the PC, the monitor (arming and disarming, the serial link
its threads share, the lock detector, the hello detector, the push of a firmware, the
auto-updater) and the settings program with its wizard. What is left is in section 6.

## 1. Inventory

### The device (`src/firmware/src`)

| Component | State | Operations | What must hold |
|---|---|---|---|
| Main loop, boot unlock (`main.c`) | `_boot_state`, `_boot_attempt`, timers, `g_state` | `boot_unlock_task`, once per iteration | silent once the host has spoken; bounded attempts; it ends |
| Serial commands (`serial_proto.c`) | `_line_buf`, `_flash_mode` | `serial_task`, `dispatch_command`, 13 handlers, `process_flash_data` | every delivered line is consumed; a known command cancels boot unlock |
| Scheduled wake (`scheduler.c`) | `_active`, `_wake_fired_today`, `_last_wake_day` | `scheduler_task`, `scheduler_do_wake`, `scheduler_next_wake_sec` | once a day; types blindly only if nobody answers |
| Event log (`log.c`, `storage.c`) | ring buffer, `_dirty`, `/log.bin` | `log_event`, `log_read_all`, `log_flush`, `log_clear`, `log_init` | a bounded history in order, also over restarts |
| Bootloader (`bootloader.c`) | boot flags in RAM and flash, partition B, `_flash_received` | FLASH, data, verify and swap, BOOT_OK, rollback | nothing unverified is selected; nothing confirmed is rolled back |
| Storage (`storage.c`) | `/config.json`, `/pin.enc`, `g_state.config`, `g_state.pin_stored` | load, save, JSON in and out, CLEAR | RAM and flash part only where a write or delete failed; what is written is what is read |
| WiFi and clock (`wifi.c`) | link state, epoch at last sync | connect, NTP, `wifi_task` | the clock is right, and comes to be right |
| Keyboard (`hid.c`), crypto (`crypto.c`), descriptors | – | key reports, AES, SHA-256 | – |

The parts interact by calls in one thread and by shared state: `dispatch_command`
sets `g_state.boot_unlock_cancelled`, which both `boot_unlock_task` and
`scheduler_do_wake` read and `scheduler_task` lowers; `SET_CONFIG` and `CLEAR`
change `g_state.config` under everybody. What is concurrent is outside the
thread: the host writes and closes the port while a handler sleeps, the clock
advances, flash operations fail, and the power goes.

### The PC (`src/pc/src/pywinhello`)

| Component | State | Operations | What must hold |
|---|---|---|---|
| Serial link (`serial/protocol.py`, `serial/device.py`) | the port, one lock, connection state | `send` with a time limit per command, `connect`, `reconnect` | an answer belongs to its command |
| Firmware push (`serial/flasher.py`) | progress of the stream | FLASH, stream in pieces that each take the lock, read the result, PING | it ends; the device comes back to taking commands |
| Monitor service (`monitor/service.py`) with USB watcher | `_armed`, the subsystems, the device | arm on connect, disarm on disconnect or stop | armed only with an open port, nothing left over from before; stopped means stopped |
| Lock detector (`monitor/lock_detector.py`) | `_was_locked` | poll, UNLOCK with retries | types only into a locked desktop |
| Hello detector (`monitor/hello_detector.py`, `dialog.py`) | whitelist, the service's copy of the configuration | find the dialog and its owner, note a new application, focus, HELLO, ESCAPE | types only into an allowed dialog, again only after an ESCAPE; the device learns what was noted |
| Schedule (`monitor/scheduler_sync.py`) | the scheduled task | create, delete | the task is that of the device |
| Updater (`monitor/updater.py`) | ETag cache, staged executable, the one moved aside | check, download, stage, rename at the next start | a whole executable is always there; no release is missed in silence |
| Settings program (`gui/app.py`, `gui/wizard`, `gui/settings`) | `_PicoConnection`, screen, the wizard's steps | poll and step threads that post to the main loop, buttons, SET_CONFIG, CLEAR | the screen follows the device; the device runs what it has stored |
| First set-up (`setup/`), tray, log view | – | straight-line sequences | – |

The monitor's threads meet at the link's lock and in the service, whose fields
nothing guards. The threads of the settings program meet at the port, which one of
them at a time can open, and in the queue of its main loop. The programs meet the
device in its configuration: each SET_CONFIG starts from the defaults.

Hard here: a stopped service against a watcher still arming it, time limits
racing late answers, retries of what was done, one step of several failing, a
window that changes between a test and the keys, a command that lands in the middle
of a firmware, a process that ends between two renames, a callback that comes after
what it is about has changed.

`PROJECT.json` lists the components with their status, and every hazard at its
line with the property that covers it.

## 2. Modules

| Module | Models | State and actions |
|---|---|---|
| `DeviceLoop` | `main.c`, `serial_proto.c`, `scheduler.c`, the PIN and configuration files as far as typing depends on them | below |
| `EventHistory` | what `log.h` promises | `history`, `saved`; record, clear, restart |
| `EventLog` | `log.c` and its file in `storage.c` | `entries`, `writeIdx`, `count`, `dirty`, `file`; one action per operation |
| `Storage` | `storage.c`, `storage_init` and the handlers that change configuration and PIN, composed with `EventLog` (it extends it and conjoins its actions) | RAM and flash of log, configuration (section by section) and PIN; one mount, one CLEAR |
| `Bootloader` | `bootloader.c` and its callers in `serial_proto.c` | `flags`, `cells` (partition B), `flashMode`, `received`; one action per outcome |
| `MonitorService` | `service.py`, `usb_watcher.py`, the handshake of `device.py`, the task of `scheduler_sync.py` | the two threads' places, references, running parts, task |
| `SerialLink` | `SerialProtocol.send` and the order in which the device serves | lock, commands and answers under way |
| `LockDetector` | `lock_detector.py`, composed with `SerialLink` (it extends it and conjoins its actions) | the loop's place, `attempt`, `_was_locked`, the desktop |
| `HelloDetector` | `hello_detector.py`, `dialog.py`, `_on_new_app_discovered` of `service.py`, composed with `SerialLink` | the loop's place, the whitelist and its copies, the dialog and its focus |
| `FirmwarePush` | `flasher.py`, `write_raw`, `read_line`, against `serial_task` and `process_flash_data`, composed with `SerialLink` | the push's place, what the writes are, the device's flash mode |
| `AutoUpdate` | `updater.py` | the updater's place, the ETag, three files, the process |
| `SettingsApp` | `gui/app.py`, `gui/wizard` | polls, threads of steps, posted callbacks, screen, the wizard's buttons |
| `MCDeviceLoop`, `MCBootloader`, `MCMonitorService`, `MCHelloDetector` | the instances TLC checks, where a cfg alone cannot name the values | values of the constants |
| `DeviceLoop_proofs`, `Storage_proofs`, `Bootloader_proofs`, `MonitorService_proofs`, `SerialLink_proofs`, `LockDetector_proofs` | theorems about the module they are named after, `Storage_proofs` also about `EventLog` | – |
| `LinkClients_proofs` | theorems about `HelloDetector` and `FirmwarePush`, from those about `SerialLink` | – |
| `PCPrograms_proofs` | theorems about `AutoUpdate` and `SettingsApp` | – |

**DeviceLoop.** `loc` is the place the loop has reached:
`tud -> serial -> lines* -> boot -> sched -> tud`. A handler that sleeps while it
types has a place of its own (`unlock`, `hello`, `bootEnter`, `wake`,
`wakeEnter`), because the host, the clock and a power cut act during the sleep,
and `UsbNested` delivers during it, as the nested `tud_task` calls of `hid.c`
and `cdc_write` do. The action `Dispatch` is `dispatch_command`; each handler that
changes state is an action that conjoins it. A boot timer is abstract: when its
test is reached it has expired (`BootFires`) or not (`BootNotYet`). The wall clock
advances in slots, `SlotsPerDay` to a day. A command line is its name; `NOISE` is
a line `parse_command` does not know, `QUERY` one whose handler changes nothing
here. History variables (`heard`, `bootTypings`, `wakeDays`) are read by
properties only.

**EventLog.** `Capacity` is `LOG_MAX_ENTRIES`, an entry is a model value. CLEAR is
two actions here, because the power may go after the file is deleted and before the
buffer is emptied. A mount, read, delete or write may fail; `CloseMayFail` says
whether `lfs_file_close`, whose result `fs_write_file` ignores, may fail too.

**Storage.** A section of the configuration is at its default, chosen, or empty.
`SetConfig` overlays what the payload has on the defaults, as `config_from_json` does;
which payloads there are is read off the panels, and one with the WiFi section off the
parser. `Written` is `config_to_json`: all but the WiFi password. `Start` is one mount
with all that is then loaded, `DeletePin`, `DeleteConfig`, `DeleteLog` and `EmptyLog`
are the steps of CLEAR, with a possible power cut between any two; `DeleteLog` also
resets the memory, which nothing can tell from the delete before it. A write fails, or
its close fails and nobody notices: both leave the old file, or an empty one where
there was none, and an empty PIN file is a stored PIN for `storage_has_pin`. A
configuration file that is empty cannot be parsed and stands as a missing one.
`unsaved` and `pinFaults` (what has failed and not been made up for) are read by
properties only.

**Bootloader.** A page of partition B is erased, code of a firmware, its hash, the
flags, or junk; the 32 bytes of the hash stand as a page. `WriteFlags` erases the
flag sector and `ProgramFlags` writes its first page, with a possible power cut in
between. Verification compares pages as SHA-256 compares contents: a collision is
left out. The repository holds no boot selector: "selected" is what a selector
reading `active_part` would take, and nothing is assumed about what runs.
PROGRESS lines are not modelled as answers. The history variables `boots`,
`confirmed` and `fromB` are read by properties only.

**MonitorService.** `pc` is where the watcher's thread and the main thread are; each
step is what one of them does between two accesses to what they share, since nothing is
locked. The parts that are armed (lock detector, hello detector, updater) are numbered
in the order of `_arm`; `ref` holds the instance the service refers to, `running` and
`lingering` the threads, as pairs of part and instance, so that a part whose reference
is lost is still seen. A part may fail to be made or to be started (`PartsMayFail`):
arming goes on and the service is armed without it. Devices are numbered in the order in
which they are plugged in and `link` is the one whose port was opened. `Crash` ends the
process and starts it again; Windows keeps the task. `Stops` is how often `stop` is
called: `__main__` calls it twice and `atexit` adds `_cleanup`.

**SerialLink.** A call of `send` is: test of the port, lock and clearing of the
input buffer, write, read. Commands and answers carry the call they belong to, a
pair of client and number, which the clients never look at. `wire` is what the
device has not read yet, `busy` what it executes, `input` what the PC has not read.
`Close` stands for `close` in another thread and for a device that is unplugged;
opening again makes a new link. A line is written whole or not at all.

**LockDetector.** `loc` is the place in `_detection_loop` and `_perform_unlock`.
The waits are not modelled: a wait may take any time. The device types when it
takes an UNLOCK, so an UNLOCK that has timed out still types. What
`is_waking_from_sleep` says is a choice. `sent` is read by properties only.

**HelloDetector.** `loc` is the place in `_handle_next` and `_handle_dialog`; the dialog
is shown, closed and loses the focus between any two of them, and what `dialog.py`
answers is read off the window as it is by then. The device keeps the enabled
applications in `deviceApps`, the service in `noted`, the detector in `whitelist`: three
copies that `_on_new_app_discovered` is to keep together. `noted` is in the order in
which applications were added, since the device keeps the first it has room for (`Room`:
`CONFIG_MAX_APPS` less the entries it has, two in the defaults) and drops the rest
without telling (`Kept`). The PIN is typed into the window that has the focus when the
device takes HELLO. `steady` (the dialog that was looked at is there and has kept the
focus), `pins` and `escapes` (for the dialog that is shown) and `unsent` (what was noted
when a SET_CONFIG raised) are read by properties only; `escapes` counts every ESCAPE
that the device takes, also one that went elsewhere, as the code tests no focus for it.
Other applications' windows, the class names and titles that find the dialog, and the
pauses are left out; a pause may take any time.

**FirmwarePush.** Data is counted in units; a chunk and a command take one each,
and the hash is `Hash` units long. `kinds` says what each write of the pusher is,
which the device does not know: in flash mode it takes everything for data, else
everything for text. `Reset` is a device that restarts. A PROGRESS line is an
answer to no call. What the firmware does to the flash is `Bootloader`'s.

**AutoUpdate.** A release is a number, which is also its version. `image` says
which file the running image has: Windows lets it be renamed and not deleted.
`Exit` may come at any step; `Start` needs a whole executable in place. The network
fails where it can, a copy may be left unfinished (`Part`), a download that was cut
short is staged as it is and counts as its release. `tried` is read by properties only.

**SettingsApp.** `holder` is who has the port open, `conn` what `_PicoConnection`
believes. A poll and a thread of a step post their results to `queue`, from which
the main loop takes them; a callback of a wizard that was destroyed becomes
"stale" in the queue and does nothing when it is taken (`StaleResult`), one of the
wizard that is shown acts on whatever step it shows by then. Pages that
no sequence of steps can reach are left out (section 5), and with them all that could
change the device but its language: that is `Storage`'s. A device that is there answers
a detection; one that did not would only be found by a later poll.

## 3. Runs

| Run | Question | Result |
|---|---|---|
| `loop_safety` | may boot unlock, a handler and the wake disturb each other, over two days, with failing flash? | no: `BootQuietOnceHeard`, `BootTypingsWithinRetry`, `OneWakePerDay` |
| `loop_live` | does boot unlock end, is every line consumed, with a power cut? | yes, under `FairSpec` |
| `storage` | through failures, restarts and a CLEAR that is cut short: is the ring buffer with its file a bounded history, is a clean log in flash, does the device run with the configuration it would load, and is the PIN where it is reported? | yes; yes, if its file closes as asked; yes but for the WiFi password, until a save or delete fails; yes, unless a SETUP_PIN failed (also unnoticed) or a CLEAR failed in this power cycle |
| `boot` | do torn flag writes roll back a confirmed firmware, or let an unconfirmed one run on; is the selected partition whole? | no; yes, until an update begins from partition B |
| `monitor_safety` | can a part that runs be lost, anything be left over from an earlier arming, or a service that is not armed have parts, with anything failing and a crash? | no, while `stop` is not called; that an armed service has every part is true only if no part fails (section 5) |
| `monitor_exit` | is a device that stays served, does everything end once it has gone, does the process leave a wake task behind? | yes, for the first device; yes; no |
| `lock_safety` | how many UNLOCKs does one lock bring? | at most `retry_count` |
| `lock_live` | does a locked desktop get an UNLOCK, and do retries stop when it is unlocked? | yes, if the device is in time |
| `hello` | which dialog gets the PIN and how often, what does the device learn of a new application, whose answer does a call return? | only one that is not disabled, if it kept the focus; once per ESCAPE while calls are in time; what was noted, as far as it has room, unless sending it raised; its own, until a time limit passes, and again after a pause |
| `push` | how long is the device deaf after a firmware, and do the push and all calls come back? | for as many commands as the hash is long, and data is never complete without them; yes |
| `update` | is a whole executable left whenever the process ends, and what becomes of a release whose ETag is cached? | yes; it is running, in place or staged, or something failed with it |
| `gui` | does the screen follow the device in spite of late callbacks and the fight for the port? | yes, once the device stays or stays away |

Bounds. *DeviceLoop*: a line in the host and one in the FIFO are enough for every order
of two commands, since a handler sees one line and what a queue adds is only delay; two
slots a day and three slots of clock give two wakes on different days and one in which
the minute is tested many times; `retry` is 2 (one retry) or 0 (the byte's edge). The
day number is compared modulo `DayModulus` = 256 as in the code; days that far apart are
not reached. `loop_safety` has no power cut because it resets every history variable: a
power cycle is a new behaviour from `Init`, whose files are arbitrary. *Storage*:
capacity 2 with 2 events lets the buffer be empty, partly filled, full and come round,
also while the rest of the storage fails; the proofs are for every capacity. Nothing
bounds the number of steps. The file of the log closes as asked in the run (those of
configuration and PIN do not), since `WrittenSurvives` is false otherwise; the proof of
`RefinesHistory` has no such condition. *Bootloader*: six pages in three sectors, the
last that of the flags; two firmwares of different size, both below the flags with their
hashes; three power cuts, so that a cut can hit an update, its first boot and its
rollback. *MonitorService*: three devices one after the other let a third arrive while
the parts of the first are being stopped; one crash may come at any step; the two
configurations differ in everything the service decides by. In `monitor_exit` handshakes
fail only if the device has gone, and schtasks, which would leave the task by itself,
works; with a join of the watcher that times out (`WatcherMayLinger`) the task may stay.
*SerialLink* has no run of its own: its properties are checked in `hello` and `push`,
which conjoin every action of it, and proved. *LockDetector*: two locks and two attempts
show a series that runs over from one lock into the next; another client calls once in
between. *HelloDetector*: two dialogs, of a disabled and of two unknown applications, so
that one may take the place of the other under every test and both new ones can be
noted; the device has room for one, so that its limit is reached and passed; another
thread calls once. No dialog is handled after three calls (`MaxAsked`), so that one
gets its PIN, an ESCAPE and its PIN again, or a new one is noted before either; once a time limit has passed,
after two (`MaxLate`), so that another handling begins while the late answer is still to
come. Nothing tells the two new applications apart and only safety is checked, so the
run takes them as symmetric; the proofs have any number of applications and any room.
*FirmwarePush*: two chunks, a hash of two units, a second thread with three calls: its
commands can land before, between and after the chunks, fill the hash, and end flash
mode while a chunk is still to come. One push; a second would find the device as the
first left it. *AutoUpdate*: three releases and two ends of the process: one release can
be staged while the next is published, and the process can end in an update and in the
cleanup of the one before. *SettingsApp*: two polls, so that a late one crosses the
next, two threads of steps, so that one may outlive its wizard and meet the next one's;
a bound counts a thread with the results it has posted that are not yet taken; the
device is plugged in three times.

Fairness. `WF(Firmware)`: the loop never stops while the power is on.
`SF(BootFires)`: a boot timer compares elapsed milliseconds with a constant, so a
test that is reached over and over does not fail for ever. `SF(LinesDone)`:
`serial_task` reads until the FIFO is empty, and the monitor waits for an answer
before it sends again, so it is found empty; a host that floods the port does
starve the rest of the loop. Nothing is assumed of the host, the clock or the
power. In the monitor: `WF(Watcher)`, which looks every two seconds whatever
happens; `WF(PartEnds)`, since all a part waits for has a time limit; `WF(Send(t))`
for each client and nothing for the device in `push`, where also `WF(PushGoesOn)`: the
pusher's thread runs; in `lock_live`, whose device
is always in time (`TimeoutsHappen = FALSE`), also that the device takes commands
and answers them. In `gui`: `WF(Callback)`, the main loop takes what is posted;
`WF` of some poll and of some step's thread: the timer polls every two seconds, and a
thread that waits for the port or the device has a time limit; nothing is assumed
of the user. Deadlock is checked in every run but those in which the process
may exit (`monitor_exit`, `update`, `gui`), the bounded calls run out (`hello`,
`push`) or the detector is stopped (`lock_*`).

## 4. Proofs

All are for every value of the constants, from the named assumptions
(`ConfigAssumption`, `BoundAssumption`, `EventAssumption`, `CapacityAssumption`,
`CloseAssumption`, `LayoutAssumption`, `SizeAssumption`, `DetectorAssumption`,
`ModeAssumption`, `RetryAssumption`, `ClientAssumption`, `TimeoutAssumption`,
`HelloAssumption`, `PushAssumption`, `PlugsAssumption`); where a theorem needs more, it
is said here and stands in its ASSUME. Every safety property that a run checks is also
proved.

* **DeviceLoop_proofs**: `TypeOK`, `BootQuietOnceHeard`, `BootTypingsWithinRetry`,
  `OneWakePerDay`. The properties are not inductive. The invariant adds why boot unlock
  is silenced although the wake lowers the flag it obeys: between `dispatch_command` and
  the next `boot_unlock_task` the flag is up (the loop runs boot before sched), and
  after it boot unlock is done. It adds that `bootTypings` is at most `attempt + 1` and
  which states still precede the typing of the current attempt, and that until something
  is heard the attempt is below the limit of the configuration in RAM, which only a
  command changes. For the wake it adds that every day in `wakeDays` is in the past, or
  is today with `_wake_fired_today` up and the day recorded.
* **Storage_proofs**, the log: `TypeOK`; `CleanMeansSaved` (proved only) and
  `WrittenSurvives` if its file closes as asked; and the refinement `Spec => H!Spec`
  whatever fails. The invariant says that while the buffer is not full its index is its
  count, in RAM and in the file: without it a buffer that fills up would not be read out
  in order. `LogOnReads` is the heart: adding at the index appends to what is read, or
  appends and drops the oldest.
* **Storage_proofs**, the rest: every step is one of the log or leaves the log alone
  (`ImplementsLog`), by which the theorems about the log hold of the storage;
  `StorageTypeOK`, `StoredIsRunning`, `PinAgrees`, whatever fails. For the configuration
  the invariant adds that the file holds at most one, which is such as could have been
  written (`c = Written(c)`): a configuration that is read back is taken as it is, and
  with a password in the file the next start would run with something else. For the
  PIN it adds that an empty file, which a start takes for a PIN, is remembered in
  `pinFaults` as long as it is there. Both parts hold in the middle of CLEAR too, since
  a start may come between any two deletes.
* **Bootloader_proofs**: `TypeOK`, `RollbackOnlyUnconfirmed`, `UnconfirmedRunsOnce`
  and `IntactUnlessFromB`. The invariant `FlagsFollow` relates the flags in flash,
  those in RAM while their sector is erased, and the history: flags that await
  BOOT_OK imply that none has come, a positive count implies a boot, and a rollback
  implies two. `UnconfirmedRunsOnce` is proved as long as the power was cut fewer
  than 255 times, which is necessary: `boot_count` is a byte, and a device whose
  power goes in every rollback counts until it wraps (TLC finds that run with 256
  cuts). `Counted` says how the count in flash, the place of the boot and the boots
  of the history belong together below the wrap. `IntactUnlessFromB` is proved for
  firmwares that end below the sector of the flags (`FitsBelowFlags`; a larger one is
  damaged by the flags, section 5). Its invariant says that, until an update begins
  from B, B is selected only after a verification (`Swapped`), and that flags which
  select B, in flash or on their way to it, find B whole (`Whole`).
* **MonitorService_proofs**: `TypeOK`; `RunningIsHeld`, `RunningHasPort` (proved only)
  and `ArmedTells` if `Stops = 0`: with `stop` in a second thread they are false
  (section 5). The invariant says, for each place of arming and disarming, which
  parts the service refers to, each made in this arming or, if parts fail, missing
  (`Made`), and that what runs is among them.
  `ExitLeavesNoTask` if `stop` is called twice or more, tasks can be deleted and the
  watcher ends in time, which is what the run assumes: `Joined` says that after the
  first `stop` has joined the watcher nothing creates a task, so that the next
  deletes it, whatever an earlier process left and whenever the parts end.
* **SerialLink_proofs**: `LinkTypeOK`, `OwnUntilOverdue`, `OwnWhenAlone`. The
  invariants say what is under way: while nothing is overdue, exactly the call that
  is being read (`InStep`), and after a call that began alone, only that call
  (`StaysAlone`); `OneCaller` is the mutual exclusion both rest on.
* **LockDetector_proofs**: `TypeOK`, `UnlocksWithinRetry`, and that every step is one
  of the link (`ImplementsLink`), by which the link's type invariant is reused. The
  invariant counts the UNLOCKs at each place of the loop (`Counted`) and says why a
  series starts only for a lock that has brought none (`Fresh`): what the loop
  remembers when it starts one is a desktop that was found unlocked, and a new lock
  starts the count again. `RetriesOnlyIfLocked` if no time limit passes and nobody
  else unlocks: without a look at the desktop a retry is right only because what the
  device answers is about the call before it (`InStep` of the link) and an UNLOCK
  that was not accepted has unlocked nothing (`StillLocked`).
* **LinkClients_proofs**, the hello detector: it implements the link, and by the link's
  invariants calls return their own answers among dialogs and threads too; `TypeOK`,
  `PinForAllowed`, `NotedReachesDevice`, `PinsWithinEscapes`, without further
  hypotheses. `Numbered` and `Asking` say that what is on the wire was asked for, and
  which call belongs to which place of the loop. For `PinForAllowed`, `LookedAt` carries
  the owner that was looked up along the loop as long as the dialog keeps the focus. For
  `NotedReachesDevice`, `Covers` says that the last SET_CONFIG on the wire, or if there
  is none the device, has all that was noted and that there is room for, but what
  `unsent` names; each SET_CONFIG carries the whole list, by which one that is answered
  makes up for those before it. For `PinsWithinEscapes`, the induction needs that one
  command at most is under way while nothing is overdue (`OneInFlight`) and, at every
  place of the loop, whether the PIN of this round has been typed and been made up for
  (`Answered`, `Settled`).
* **LinkClients_proofs**, the push: `PushTypeOK` and `DeafForAHash`, for every length of
  a firmware and of its hash. A chunk that was written is on the wire, counted as
  data, or gone as text (`Conserved`); this is counted over the sequence of writes on
  the wire (`CountAppend`, `CountSplit`, `CountRest`), of which the device knows no
  kinds, and rests on the pusher's numbering (`Given`, `Placed`), by which a write
  keeps its kind whatever is written after it.
* **PCPrograms_proofs**, the updater: `UpdateTypeOK`, `WholeCopy`, `TakenOrFailed`, and
  that what is in place or staged is never older than the process. The invariant says
  that the file of the running image is whole, wherever it has been moved
  (`ImageIsWhole`); that versions only go up (`Ordered`); what a check in progress has
  found (`CheckIsLatest`); and, for the release of the cached ETag, at every place and
  not only between two checks, that it is taken or something failed with it
  (`SeenIsTaken`), for which a copy that was left unfinished must have been counted
  (`PartWasTried`).
* **PCPrograms_proofs**, the settings program: `TypeOK`, by which no late callback
  takes it to a step that cannot be reached, through every interleaving of the threads,
  the user and the device.

Model-checked only: liveness (`BootUnlockFinishes`, `LinesServed`,
`UnpluggedIsDisarmed`, `PluggedIsServed`, `CallsReturn`, `LockGetsUnlock`, `PushEnds`,
`ScreenFollowsDevice`), which rests on fairness and so on ENABLED, out of the
prover's reach. No module declares a recursive operator, and no theorem is about one.

## 5. Differences

Where the code does something else than its docs and comments say, or than one part
of it expects of another. The models have what the code does, and the properties
are stated where it holds.

The device:

* `scheduler.c:119`: the wake waits 30 s for a command (`scheduler.h:42`) with a loop
  that reads no serial data, so the command it waits for cannot arrive; the PIN is
  typed twice.
* `bootloader.c:156`: FLASH always erases partition B, also when it is the selected
  one, so a failed update does not leave the current firmware (`bootloader.h:58`).
  This is why `IntactUnlessFromB` has its antecedent.

* `storage.c:112`: the result of `lfs_file_close`, which commits the file, is
  ignored; `log_flush` reports success for events that are not in flash
  (`CloseMayFail`), SETUP_PIN and SET_CONFIG answer OK and the old file, or an empty one,
  is in flash. An empty PIN file is reported as a stored PIN, over restarts too.
* `storage.c:198`: the JSON that is saved has no WiFi password: the one that SET_CONFIG
  takes into memory is gone at the next start.
* `storage.c:296`: a ninth application (`CONFIG_MAX_APPS`, `pywinhello.h:77`) is dropped
  and SET_CONFIG answers OK; the monitor takes it for stored, and only its own whitelist
  has it until it ends.
* `serial_proto.c:417`: the condition is inverted, a failed verification is not
  answered. `bootloader.c:222`: the swap toggles the partition, although the data is
  always in B. `bootloader.c:137`: the largest accepted firmware overlaps the sector
  of the flags.
* `storage.c:516`: memory is changed even if the save fails. `storage.c:489`: a
  configuration that cannot be read is taken for a missing one and overwritten with
  the defaults. `storage.c:563`: CLEAR does not notice deletes that fail.

The monitor:

* `lock_detector.py:284`: after a failed UNLOCK the next one follows without a look
  at the desktop.
* `service.py:104`: `stop` disarms before it stops the watcher, which may arm
  afterwards; detectors then run in a service that has been stopped.
* `usb_watcher.py:177`: a device that is plugged in again between two looks is not
  noticed, and the service keeps the port of the one that has gone.
  `service.py:156`: a handshake that fails once is not tried again.
* `service.py:203`, `:219`, `:235`: a part whose import, configuration or constructor
  fails is left out and `_armed` is set all the same, also if none is left, although
  `is_armed` says "Whether automation subsystems are active" (`service.py:60`). Nothing
  tries again before the device is plugged in anew.
* `service.py:99`: a monitor that is killed while armed leaves the wake task, and
  one that starts without a device does not delete it.
* `protocol.py:273`: a late answer is returned as that of a later command, also to
  another thread (why `OwnUntilOverdue` and `OwnWhenAlone` have antecedents).
* `lock_detector.py:216`: what is remembered as the last state was read before the
  unlock; a lock that follows at once is missed. `lock_detector.py:201`: in the mode
  `scheduled_only` the time is looked at only when the lock begins.
* `hello_detector.py:243`: an owner that was looked up is not looked up again before
  the keys, and a HELLO that has timed out may be typed into the next dialog.
  `service.py:286`: an application found while the device is away is not noted.
  New applications are enabled whatever `auto_discover` says. `hello_detector.py:263`:
  the ESCAPE that is to close the dialog ("caller will retry", line 259) is sent
  without a test of the focus, so that a dialog in the background may get the PIN
  again without it (why `PinsWithinEscapes` counts the ESCAPEs that were typed).

The updates:

* `flasher.py:113`: the PC never sends the 32 bytes of the hash the device waits for,
  so the device stays in flash mode and takes the commands that follow for the hash;
  the verification then fails without an answer. The first PROGRESS line is read as
  success (`flasher.py:125`), and the PING after it finds the old version or nothing:
  an update over the serial port cannot be confirmed.
* `protocol.py:349`: the lock is taken for each piece; commands of other threads land
  in the firmware, and what is left of it after flash mode is read as text.
* `updater.py:206`: the ETag is saved before the release is read, so one that fails
  to be read or installed is not seen again until the next. `updater.py:331`: between
  the two renames there is no executable under its own name, and nothing starts the
  one beside it. `_firmware_version` is read once and not after an update.
  A download that was cut short is staged as it is. The assets looked for
  (`pywinhello-monitor.exe`) are not those the release workflow ships.

The settings program:

* GET_CONFIG has no `pin_set`, so the settings panel is never shown. The wizard is
  shown only while the program holds the port, so that the port its first step
  opens is normally taken.
* Its second step uses commands that `Command` does not have; it fails whatever the
  device does, and the steps after it are never reached. The flash button stays
  disabled after its first use.
* The language button sends a configuration of the locale only, by which the device
  sets everything else to its defaults; the panel's schedule names days as the device
  does not read them, its timing has keys the device does not look for, and nothing
  sends the WiFi's.

## 6. What is left

Not modelled, and why:

* The clock of `wifi.c` (NTP, the millisecond counter, hazard at `wifi.c:223` with
  `wifi.c:203`): `DeviceLoop` has a clock that only advances and is synchronised or
  not. `WakeClock` would replace it.
* A host that keeps the port open and does not read (`serial_proto.c:36`). Lines longer
  than `SERIAL_LINE_MAX`, of which `serial_task` discards the beginning.
* Bytes that are in the FIFO behind a FLASH line: `serial_task` does not look at
  `_flash_mode` again before it has emptied it and reads them as text. The pusher waits
  for the answer before it sends data, so only a command that follows one given up can
  be there.
* A firmware that reaches the sector of the flags (`bootloader.c:137`): `Bootloader`'s
  `SizeAssumption` keeps firmwares below it.
* The computation of `scheduler_next_wake_sec`, day numbers, base64, padding and
  versions: pure functions, to be checked against reference definitions.
* `setup/`, the tray, the log view, the version page: straight-line sequences without
  state of their own. The steps for PIN and schedule of the wizard and the settings
  panel are never shown (section 5); what their handlers send is in `Storage`.
* Two updater threads at once, after a `stop` whose join has timed out.
* Key codes and USB reports, cryptography, texts of answers and log lines, widgets,
  installer and build scripts: they keep no state whose interleavings matter, or are
  the business of a library.

Next, in this order: an abstract specification of the monitor as the one owner of a
device, armed or not, and the proof that `MonitorService` implements it while nobody
calls `stop`; then `WakeClock`; then the pure functions.
