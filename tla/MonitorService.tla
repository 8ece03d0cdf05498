--------------------------- MODULE MonitorService ---------------------------
(***************************************************************************)
(* The monitor on the PC (monitor/service.py) with its USB watcher         *)
(* (monitor/usb_watcher.py), its device handle (serial/device.py) and the  *)
(* wake task it keeps in the Windows Task Scheduler (scheduler_sync.py).   *)
(*                                                                         *)
(* Two threads work on the service: the watcher's, which arms it when a    *)
(* device appears and disarms it when the device has gone, and the main    *)
(* one, which disarms it in stop().  Nothing is locked, so a step here is  *)
(* what one of them does between two reads or writes of what they share.   *)
(* The parts they start and stop (lock detector, hello detector, updater)  *)
(* have threads of their own, which end some time after they are asked to. *)
(***************************************************************************)
EXTENDS Naturals

CONSTANTS
  Configs,             \* configurations of devices, as the service reads them
  MaxPlugs,            \* bound: how often a device is plugged in
  MaxCrashes,          \* bound: how often the process is killed and restarted
  Stops,               \* calls of stop(): 0 never stops, __main__ makes 2
  HandshakeMayFail,    \* whether a device that is there may fail to answer
  TasksMayFail,        \* whether schtasks.exe may fail
  PartsMayFail,        \* whether a part may fail to be made or started
  PartsMayLinger,      \* whether the join of a part may time out
  WatcherMayLinger     \* whether the join of the watcher may time out

(* What the service does with a configuration: does it name a wake time,   *)
(* is the lock detector enabled.                                           *)
ConfigType == [wake : BOOLEAN, lock : BOOLEAN]
EmptyConfig == [wake |-> FALSE, lock |-> TRUE]

ASSUME ConfigAssumption == Configs \subseteq ConfigType
ASSUME BoundAssumption  == /\ {MaxPlugs, MaxCrashes, Stops} \subseteq Nat
                           /\ {HandshakeMayFail, TasksMayFail, PartsMayFail,
                               PartsMayLinger, WatcherMayLinger} \subseteq BOOLEAN

(* The parts, in the order in which _arm starts them.                      *)
Part == 1..3
Lock == 1     \* Hello == 2, Updater == 3
Last == 3

Threads == {"watcher", "main"}

VARIABLES
  pc,          \* where each thread is
  sub,         \* the part it is at, in _arm or _disarm
  held,        \* the instance it waits for
  dev,         \* the device that is plugged in: its number, or 0
  plugs,       \* devices plugged in so far
  lastPort,    \* _last_port is not None
  link,        \* _device: the device to which its port was opened, or 0
  config,      \* _config
  armed,       \* _armed
  ref,         \* _lock_detector, _hello_detector, _updater: instance, or 0
  arms,        \* instances made so far
  running,     \* threads of parts, <<part, instance>>, not asked to stop
  lingering,   \* threads of parts that have been asked to stop
  task,        \* the task pywinhello-wake exists
  watching,    \* _usb_watcher is not None
  stopWatch,   \* the watcher's _stop_event
  stops,       \* calls of stop() so far
  crashes      \* crashes so far

envVars   == <<dev, plugs, crashes>>
partVars  == <<ref, arms, running, lingering>>
mainVars  == <<watching, stopWatch, stops>>
vars == <<pc, sub, held, dev, plugs, lastPort, link, config, armed, ref, arms,
          running, lingering, task, watching, stopWatch, stops, crashes>>

(* Thread t is at a place; a process that has exited has no threads.       *)
At(t, place) == pc["main"] # "exited" /\ pc[t] = place
Goto(t, place) == pc' = [pc EXCEPT ![t] = place]

-----------------------------------------------------------------------------
(* The process starts: start() has made the watcher, whose first act is to *)
(* look for a device.                                                      *)

Begin == [t \in Threads |-> IF t = "watcher" THEN "check" ELSE "run"]

Init ==
  /\ pc = Begin
  /\ sub = [t \in Threads |-> 1] /\ held = [t \in Threads |-> 0]
  /\ lastPort = FALSE /\ link = 0 /\ config = EmptyConfig /\ armed = FALSE
  /\ ref = [k \in Part |-> 0] /\ arms = 0 /\ running = {} /\ lingering = {}
  /\ watching = TRUE /\ stopWatch = FALSE /\ stops = 0
  /\ dev \in {0, 1} /\ plugs = dev /\ dev <= MaxPlugs
  /\ task = FALSE /\ crashes = 0

(* The process is killed, with all its threads, and started again.  Windows*)
(* keeps the task.                                                         *)
Crash ==
  /\ pc["main"] # "exited" /\ crashes < MaxCrashes
  /\ crashes' = crashes + 1
  /\ pc' = Begin
  /\ sub' = [t \in Threads |-> 1] /\ held' = [t \in Threads |-> 0]
  /\ lastPort' = FALSE /\ link' = 0 /\ config' = EmptyConfig /\ armed' = FALSE
  /\ ref' = [k \in Part |-> 0] /\ arms' = 0
  /\ running' = {} /\ lingering' = {}
  /\ watching' = TRUE /\ stopWatch' = FALSE /\ stops' = 0
  /\ UNCHANGED <<dev, plugs, task>>

-----------------------------------------------------------------------------
(* The watcher's loop                                                      *)

WatcherTop ==
  /\ At("watcher", "top")
  /\ Goto("watcher", IF stopWatch THEN "dead" ELSE "check")
  /\ UNCHANGED <<sub, held, envVars, lastPort, link, config, armed, partVars,
                 task, mainVars>>

(* _check_and_notify finds what it knows: a device was there and is there, *)
(* though perhaps not the same one.                                        *)
NothingNew ==
  /\ At("watcher", "check") /\ lastPort = (dev # 0)
  /\ Goto("watcher", "top")
  /\ UNCHANGED <<sub, held, envVars, lastPort, link, config, armed, partVars,
                 task, mainVars>>

Appears ==
  /\ At("watcher", "check") /\ dev # 0 /\ ~lastPort
  /\ lastPort' = TRUE
  /\ Goto("watcher", "open")
  /\ UNCHANGED <<sub, held, envVars, link, config, armed, partVars, task,
                 mainVars>>

Disappears ==
  /\ At("watcher", "check") /\ dev = 0 /\ lastPort
  /\ lastPort' = FALSE
  /\ sub' = [sub EXCEPT !["watcher"] = Last]
  /\ Goto("watcher", "stop")
  /\ UNCHANGED <<held, envVars, link, config, armed, partVars, task, mainVars>>

-----------------------------------------------------------------------------
(* _on_pico_connect.  An exception anywhere in it is logged, and that is   *)
(* all: the watcher has already noted the port.                            *)

DropOld ==
  /\ At("watcher", "open")
  /\ link' = 0
  /\ Goto("watcher", "connect")
  /\ UNCHANGED <<sub, held, envVars, lastPort, config, armed, partVars, task,
                 mainVars>>

Handshake ==
  /\ At("watcher", "connect") /\ dev # 0
  /\ link' = dev
  /\ Goto("watcher", "config")
  /\ UNCHANGED <<sub, held, envVars, lastPort, config, armed, partVars, task,
                 mainVars>>

HandshakeFails ==
  /\ At("watcher", "connect") /\ (dev = 0 \/ HandshakeMayFail)
  /\ Goto("watcher", "top")
  /\ UNCHANGED <<sub, held, envVars, lastPort, link, config, armed, partVars,
                 task, mainVars>>

\* Mutant: a device with protocol 1 is not armed.
ReadConfig_NotProtocol1 ==
  /\ At("watcher", "config")
  /\ \/ dev = link /\ config' \in Configs /\ Goto("watcher", "sync")
     \/ config' = EmptyConfig /\ Goto("watcher", "top")
  /\ UNCHANGED <<sub, held, envVars, lastPort, link, armed, partVars, task,
                 mainVars>>

(* GET_CONFIG; a device with protocol 1 is not asked.                      *)
ReadConfig ==
  /\ At("watcher", "config")
  /\ \/ dev = link /\ config' \in Configs
     \/ config' = EmptyConfig
  /\ Goto("watcher", "sync")
  /\ UNCHANGED <<sub, held, envVars, lastPort, link, armed, partVars, task,
                 mainVars>>

ReadConfigFails ==
  /\ At("watcher", "config") /\ (dev # link \/ HandshakeMayFail)
  /\ Goto("watcher", "top")
  /\ UNCHANGED <<sub, held, envVars, lastPort, link, config, armed, partVars,
                 task, mainVars>>

-----------------------------------------------------------------------------
(* _arm.  Its test of _armed never succeeds (ArmedTells), so it is left    *)
(* out.  It goes on whichever part fails, and sets _armed in the end.      *)

TaskDeleted == task' \in {FALSE} \cup (IF TasksMayFail THEN {task} ELSE {})

(* sync_schedule deletes the old task, then creates the new one.           *)
SyncSchedule ==
  /\ At("watcher", "sync")
  /\ TaskDeleted
  /\ sub' = [sub EXCEPT !["watcher"] = 1]
  /\ arms' = arms + 1
  /\ Goto("watcher", IF config.wake THEN "create" ELSE "new")
  /\ UNCHANGED <<held, envVars, lastPort, link, config, armed, ref, running,
                 lingering, mainVars>>

CreateTask ==
  /\ At("watcher", "create")
  /\ task' \in {TRUE} \cup (IF TasksMayFail THEN {task} ELSE {})
  /\ Goto("watcher", "new")
  /\ UNCHANGED <<sub, held, envVars, lastPort, link, config, armed, partVars,
                 mainVars>>

NewPart ==
  /\ At("watcher", "new")
  /\ ref' = [ref EXCEPT ![sub["watcher"]] = arms]
  /\ Goto("watcher", "start")
  /\ UNCHANGED <<sub, held, envVars, lastPort, link, config, armed, arms,
                 running, lingering, task, mainVars>>

NextPart ==
  LET k == sub["watcher"]
  IN /\ sub' = [sub EXCEPT !["watcher"] = IF k < Last THEN k + 1 ELSE k]
     /\ Goto("watcher", IF k < Last THEN "new" ELSE "flag")

(* The import, the reading of the configuration or the constructor raises. *)
NewPartFails ==
  /\ At("watcher", "new") /\ PartsMayFail
  /\ NextPart
  /\ UNCHANGED <<held, envVars, lastPort, link, config, armed, partVars, task,
                 mainVars>>

(* start() of the part that the service refers to now, if any.  It lowers  *)
(* the part's stop flag.  A lock detector that is disabled has no thread,  *)
(* and neither has a part whose thread cannot be made.                     *)
StartPart ==
  LET k == sub["watcher"]
      started == IF ref[k] # 0 /\ (k = Lock => config.lock)
                   THEN {<<k, ref[k]>>} ELSE {}
  IN /\ At("watcher", "start")
     /\ \/ running' = running \cup started
        \/ PartsMayFail /\ running' = running
     /\ NextPart
     /\ UNCHANGED <<held, envVars, lastPort, link, config, armed, ref, arms,
                    lingering, task, mainVars>>

SetArmed ==
  /\ At("watcher", "flag")
  /\ armed' = TRUE
  /\ Goto("watcher", "top")
  /\ UNCHANGED <<sub, held, envVars, lastPort, link, config, partVars, task,
                 mainVars>>

-----------------------------------------------------------------------------
(* _disarm, in either thread, from the last part to the first              *)

\* Mutant: goes on past the first part.
Onward_PastFirst(t) ==
  /\ sub' = [sub EXCEPT ![t] = sub[t] - 1]
  /\ Goto(t, IF sub[t] > 1 THEN "stop" ELSE "tasks")

Onward(t) ==
  /\ sub' = [sub EXCEPT ![t] = IF sub[t] > 1 THEN sub[t] - 1 ELSE 1]
  /\ Goto(t, IF sub[t] > 1 THEN "stop" ELSE "tasks")

NothingToStop(t) ==
  /\ At(t, "stop") /\ ref[sub[t]] = 0
  /\ Onward(t)
  /\ UNCHANGED <<held, envVars, lastPort, link, config, armed, partVars, task,
                 mainVars>>

\* Mutant: the part is forgotten without being asked to stop.
StopPart_NotAsked(t) ==
  /\ At(t, "stop") /\ ref[sub[t]] # 0
  /\ held' = [held EXCEPT ![t] = ref[sub[t]]]
  /\ Goto(t, "join")
  /\ UNCHANGED <<sub, envVars, lastPort, link, config, armed, partVars, task,
                 mainVars>>

StopPart(t) ==
  LET thread == <<sub[t], ref[sub[t]]>>
  IN /\ At(t, "stop") /\ ref[sub[t]] # 0
     /\ held' = [held EXCEPT ![t] = ref[sub[t]]]
     /\ running' = running \ {thread}
     /\ lingering' = lingering \cup ({thread} \cap running)
     /\ Goto(t, "join")
     /\ UNCHANGED <<sub, envVars, lastPort, link, config, armed, ref, arms,
                    task, mainVars>>

(* The join returns, and the reference is cleared: whichever it is by now. *)
JoinPart(t) ==
  /\ At(t, "join")
  /\ <<sub[t], held[t]>> \notin lingering \/ PartsMayLinger
  /\ ref' = [ref EXCEPT ![sub[t]] = 0]
  /\ Onward(t)
  /\ UNCHANGED <<held, envVars, lastPort, link, config, armed, arms, running,
                 lingering, task, mainVars>>

\* Mutant: the tasks are deleted only if the service is armed.
DeleteTasks_IfArmed(t) ==
  /\ At(t, "tasks")
  /\ IF armed THEN TaskDeleted ELSE UNCHANGED task
  /\ Goto(t, "disarmed")
  /\ UNCHANGED <<sub, held, envVars, lastPort, link, config, armed, partVars,
                 mainVars>>

DeleteTasks(t) ==
  /\ At(t, "tasks")
  /\ TaskDeleted
  /\ Goto(t, "disarmed")
  /\ UNCHANGED <<sub, held, envVars, lastPort, link, config, armed, partVars,
                 mainVars>>

AfterDisarm(t) == IF t = "watcher" THEN "drop"
                  ELSE IF stops > Stops THEN "close" ELSE "unwatch"

\* Mutant: the flag stays up.
ClearArmed_Kept(t) ==
  /\ At(t, "disarmed")
  /\ Goto(t, AfterDisarm(t))
  /\ UNCHANGED <<sub, held, envVars, lastPort, link, config, armed, partVars,
                 task, mainVars>>

ClearArmed(t) ==
  /\ At(t, "disarmed")
  /\ armed' = FALSE
  /\ Goto(t, AfterDisarm(t))
  /\ UNCHANGED <<sub, held, envVars, lastPort, link, config, partVars, task,
                 mainVars>>

(* The end of _on_pico_disconnect.                                         *)
DropDevice ==
  /\ At("watcher", "drop")
  /\ link' = 0 /\ config' = EmptyConfig
  /\ Goto("watcher", "top")
  /\ UNCHANGED <<sub, held, envVars, lastPort, armed, partVars, task, mainVars>>

Disarm(t) == NothingToStop(t) \/ StopPart(t) \/ JoinPart(t) \/ DeleteTasks(t)
             \/ ClearArmed(t)

Watcher ==
  \/ WatcherTop \/ NothingNew \/ Appears \/ Disappears
  \/ DropOld \/ Handshake \/ HandshakeFails \/ ReadConfig \/ ReadConfigFails
  \/ SyncSchedule \/ CreateTask \/ NewPart \/ NewPartFails \/ StartPart
  \/ SetArmed \/ Disarm("watcher") \/ DropDevice

-----------------------------------------------------------------------------
(* The main thread: stop() disarms first and stops the watcher after that. *)

Stop ==
  /\ At("main", "run") \/ At("main", "stopped")
  /\ stops < Stops
  /\ stops' = stops + 1
  /\ sub' = [sub EXCEPT !["main"] = Last]
  /\ Goto("main", "stop")
  /\ UNCHANGED <<held, envVars, lastPort, link, config, armed, partVars, task,
                 watching, stopWatch>>

StopWatcher ==
  /\ At("main", "unwatch")
  /\ stopWatch' = (stopWatch \/ watching)
  /\ Goto("main", IF watching THEN "joinWatcher" ELSE "stopped")
  /\ UNCHANGED <<sub, held, envVars, lastPort, link, config, armed, partVars,
                 task, watching, stops>>

JoinWatcher ==
  /\ At("main", "joinWatcher")
  /\ pc["watcher"] = "dead" \/ WatcherMayLinger
  /\ watching' = FALSE
  /\ Goto("main", "stopped")
  /\ UNCHANGED <<sub, held, envVars, lastPort, link, config, armed, partVars,
                 task, stopWatch, stops>>

(* The interpreter ends after the last stop(); atexit calls _cleanup while *)
(* the other threads, all daemons, still run.                              *)
Cleanup ==
  /\ At("main", "stopped") /\ stops = Stops
  /\ stops' = stops + 1
  /\ sub' = [sub EXCEPT !["main"] = Last]
  /\ Goto("main", IF armed THEN "stop" ELSE "close")
  /\ UNCHANGED <<held, envVars, lastPort, link, config, armed, partVars, task,
                 watching, stopWatch>>

Exit ==
  /\ At("main", "close")
  /\ link' = 0
  /\ Goto("main", "exited")
  /\ UNCHANGED <<sub, held, envVars, lastPort, config, armed, partVars, task,
                 mainVars>>

Main == Stop \/ Disarm("main") \/ StopWatcher \/ JoinWatcher \/ Cleanup \/ Exit

-----------------------------------------------------------------------------
(* The environment: a part that was asked to stop ends; the device.        *)

PartEnds ==
  /\ pc["main"] # "exited"
  /\ \E thread \in lingering : lingering' = lingering \ {thread}
  /\ UNCHANGED <<pc, sub, held, envVars, lastPort, link, config, armed, ref,
                 arms, running, task, mainVars>>

Plug ==
  /\ dev = 0 /\ plugs < MaxPlugs
  /\ plugs' = plugs + 1 /\ dev' = plugs + 1
  /\ UNCHANGED <<pc, sub, held, lastPort, link, config, armed, partVars, task,
                 mainVars, crashes>>

Unplug ==
  /\ dev # 0 /\ dev' = 0
  /\ UNCHANGED <<pc, sub, held, plugs, lastPort, link, config, armed, partVars,
                 task, mainVars, crashes>>

Next == Watcher \/ Main \/ PartEnds \/ Plug \/ Unplug \/ Crash

Spec == Init /\ [][Next]_vars

(* The watcher looks again every two seconds, and the time limits of what  *)
(* a part may wait for end its thread once it has been asked to stop.      *)
FairSpec == Spec /\ WF_vars(Watcher) /\ WF_vars(PartEnds)
-----------------------------------------------------------------------------
(* Properties                                                              *)

Places == {"top", "check", "dead", "open", "connect", "config", "sync",
           "create", "new", "start", "flag", "stop", "join", "tasks",
           "disarmed", "drop", "run", "unwatch", "joinWatcher", "stopped",
           "close", "exited"}

FlagsOK == {lastPort, armed, task, watching, stopWatch} \subseteq BOOLEAN

DataOK ==
  /\ pc \in [Threads -> Places]
  /\ sub \in [Threads -> Part] /\ held \in [Threads -> Nat]
  /\ dev \in Nat /\ plugs \in Nat /\ link \in Nat /\ arms \in Nat
  /\ stops \in Nat /\ crashes \in Nat
  /\ config \in ConfigType
  /\ ref \in [Part -> Nat]
  /\ running \subseteq Part \X Nat /\ lingering \subseteq Part \X Nat

(* Every variable has its type; in particular neither thread leaves the    *)
(* list of parts at its ends.                                              *)
TypeOK == FlagsOK /\ DataOK

(* No detector is lost: every one that runs, and has not been asked to     *)
(* stop, is the one the service refers to and will ask (_disarm).  One     *)
(* that is lost would type the PIN for as long as the process lives.       *)
RunningIsHeld == \A thread \in running : ref[thread[1]] = thread[2]

(* No detector that runs has had its port closed behind its back           *)
(* (_on_pico_disconnect stops the parts, then closes the port).            *)
RunningHasPort == running # {} => link # 0

(* Between two callbacks is_armed tells what is there, whatever failed on  *)
(* the way.  Not armed: no part runs and none is referred to.  Armed: the  *)
(* port is open, and what the service refers to is of its last arming,     *)
(* never left over from an earlier one.  (Not that it has every part: _arm *)
(* sets _armed also when some, or all, of them failed; it has every one    *)
(* unless parts fail.)  And _arm never finds the service armed.            *)
ArmedTells ==
  /\ At("watcher", "top") \/ At("watcher", "check") =>
       IF armed
         THEN /\ lastPort /\ link # 0
              /\ \A k \in Part : ref[k] = arms \/ (PartsMayFail /\ ref[k] = 0)
         ELSE running = {} /\ (\A k \in Part : ref[k] = 0)
  /\ At("watcher", "sync") => ~armed

(* "Unplug -> automation OFF" (README.md:105): once the device has gone    *)
(* for good, a service that goes on comes to be disarmed, no part runs on  *)
(* and Windows is no longer told to wake up.                               *)
UnpluggedIsDisarmed ==
  [](stops = 0) /\ <>[](dev = 0) =>
    <>[](~armed /\ running = {} /\ lingering = {} /\ ~task)

(* A process that ends the way __main__ does leaves no wake task behind,   *)
(* although its first stop() may disarm before the watcher has armed.      *)
ExitLeavesNoTask == pc["main"] = "exited" => ~task

(* "Plug in -> automation ON" (README.md:104): a device that is plugged in *)
(* and stays comes to be served through its own port.  It does not hold of *)
(* one that was away between two looks of the watcher, so of plugs > 1,    *)
(* nor of one that fails to answer when it is first seen.                  *)
PluggedIsServed ==
  [](stops = 0 /\ plugs <= 1) /\ <>[](dev # 0) => <>[](armed /\ link = dev)
=============================================================================
