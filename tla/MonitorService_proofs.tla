------------------------ MODULE MonitorService_proofs -----------------------
(***************************************************************************)
(* Proofs about a MonitorService that is not being stopped (Stops = 0),    *)
(* for any number of devices, crashes and failures; and, at the end, about *)
(* one that is stopped twice or more.                                      *)
(***************************************************************************)
EXTENDS MonitorService, TLAPS

W == pc["watcher"]
S == sub["watcher"]

Settled    == {"top", "check"}
Connecting == {"open", "connect", "config", "sync", "create"}
Arming     == {"new", "start", "flag"}
Disarming  == {"stop", "join", "tasks", "disarmed", "drop"}

NoRefs == \A k \in Part : ref[k] = 0

(* Part k is of this arming, or has failed to be made.                     *)
Made(k) == ref[k] = arms \/ (PartsMayFail /\ ref[k] = 0)

(* The parts that run are held, and an instance has a number.              *)
HeldOK == \A th \in running : ref[th[1]] = th[2] /\ th[2] # 0

(* What the service refers to while the watcher goes through the parts.    *)
RefsOK ==
  /\ W \in Connecting => NoRefs
  /\ W \in Arming => arms # 0
  /\ W = "create" => arms # 0 /\ (\A k \in Part : k >= S)
  /\ W = "new"   => \A k \in Part : IF k < S THEN Made(k) ELSE ref[k] = 0
  /\ W = "start" => \A k \in Part : IF k <= S THEN Made(k) ELSE ref[k] = 0
  /\ W = "flag"  => \A k \in Part : Made(k)
  /\ W \in {"stop", "join"} => \A k \in Part : k > S => ref[k] = 0
  /\ W = "join" => \A th \in running : th[1] # S
  /\ W \in {"tasks", "disarmed", "drop"} => NoRefs

(* Whether it is armed, and has a port, at each place.                     *)
ArmedOK ==
  /\ W \in Connecting \cup Arming => ~armed /\ lastPort
  /\ W = "drop" => ~armed
  /\ W \in Settled /\ armed => lastPort /\ (\A k \in Part : Made(k))
  /\ W \in Settled /\ ~armed => NoRefs

LinkOK ==
  /\ W \in {"config", "sync", "create"} \cup Arming => link # 0
  /\ W \in Settled /\ armed => link # 0
  /\ running # {} => link # 0

(* Nobody has called stop(), and the watcher is alive.                     *)
NotStopped ==
  /\ pc["main"] = "run" /\ ~stopWatch
  /\ W \in Settled \cup Connecting \cup Arming \cup Disarming

IInv == TypeOK /\ NotStopped /\ HeldOK /\ RefsOK /\ ArmedOK /\ LinkOK

(* Whatever happens before the second call of stop(): it is made after the *)
(* watcher has been joined, so nobody creates a task that it deletes, nor  *)
(* the cleanup that follows it.                                            *)
M == pc["main"]

Joined ==
  /\ ~watching => W = "dead"
  /\ M = "run" => stops = 0
  /\ M = "stopped" \/ stops >= 2 => ~watching
  /\ M \in {"close", "exited"} => stops >= 2
  /\ stops >= 2 /\ M \notin {"stop", "join", "tasks"} => ~task

-----------------------------------------------------------------------------

LEMMA GoesTo ==
  ASSUME DataOK, pc["main"] = "run", NEW place \in Places, Goto("watcher", place)
  PROVE  pc' \in [Threads -> Places] /\ W' = place /\ pc'["main"] = "run"
BY DEF DataOK, Goto, Threads, W

LEMMA NoneRuns == ASSUME DataOK, HeldOK, NoRefs PROVE running = {}
BY DEF DataOK, HeldOK, NoRefs, Part

LEMMA InitIInv == Init => IInv
<1> SUFFICES ASSUME Init PROVE IInv
  OBVIOUS
<1>1. pc["main"] = "run" /\ W = "check" /\ pc \in [Threads -> Places]
  BY DEF Init, Begin, Threads, Places, W
<1>2. FlagsOK
  BY Zenon DEF Init, FlagsOK
<1>3. DataOK
  BY <1>1 DEF Init, DataOK, EmptyConfig, ConfigType, Part
<1> QED
  BY <1>1, <1>2, <1>3 DEF Init, IInv, TypeOK, HeldOK, RefsOK, ArmedOK, LinkOK, NoRefs,
     NotStopped, Settled, Connecting, Arming, Disarming

-----------------------------------------------------------------------------
(* Types, with any number of calls of stop()                               *)

LEMMA FlagsStep == FlagsOK /\ [Next]_vars => FlagsOK'
<1> SUFFICES ASSUME FlagsOK, [Next]_vars PROVE FlagsOK'
  OBVIOUS
<1>1. CASE UNCHANGED vars
  BY <1>1, Zenon DEF vars, FlagsOK
<1>2. CASE Watcher
  <2>1. ASSUME TaskDeleted PROVE task' \in BOOLEAN
    BY <2>1, Zenon DEF TaskDeleted, FlagsOK
  <2>2. CASE \/ WatcherTop \/ NothingNew \/ Disappears \/ DropOld \/ Handshake
             \/ HandshakeFails \/ ReadConfig \/ ReadConfigFails
    BY <2>2, Zenon DEF WatcherTop, NothingNew, Disappears, DropOld, Handshake,
       HandshakeFails, ReadConfig, ReadConfigFails, FlagsOK, mainVars
  <2>3. CASE Appears \/ NewPart \/ NewPartFails \/ StartPart \/ SetArmed \/ DropDevice
    BY <2>3, Zenon DEF Appears, NewPart, NewPartFails, StartPart, SetArmed, DropDevice,
       FlagsOK, mainVars
  <2>4. CASE SyncSchedule
    BY <2>1, <2>4, Zenon DEF SyncSchedule, FlagsOK, mainVars
  <2>5. CASE CreateTask
    BY <2>5, Zenon DEF CreateTask, FlagsOK, mainVars
  <2>6. CASE Disarm("watcher")
    BY <2>1, <2>6, Zenon DEF Disarm, NothingToStop, StopPart, JoinPart,
       DeleteTasks, ClearArmed, FlagsOK, mainVars
  <2> QED BY <1>2, <2>2, <2>3, <2>4, <2>5, <2>6 DEF Watcher
<1>3. CASE Main
  <2>1. CASE Disarm("main")
    BY <2>1, Zenon DEF Disarm, NothingToStop, StopPart, JoinPart, DeleteTasks,
       ClearArmed, TaskDeleted, FlagsOK, mainVars
  <2>2. CASE StopWatcher
    <3>1. stopWatch' \in BOOLEAN
      BY <2>2, Zenon DEF StopWatcher
    <3> QED BY <2>2, <3>1, Zenon DEF StopWatcher, FlagsOK
  <2>3. CASE Stop \/ JoinWatcher \/ Cleanup \/ Exit
    BY <2>3, Zenon DEF Stop, JoinWatcher, Cleanup, Exit, FlagsOK, mainVars
  <2> QED BY <1>3, <2>1, <2>2, <2>3 DEF Main
<1>4. CASE PartEnds \/ Plug \/ Unplug \/ Crash
  BY <1>4, Zenon DEF PartEnds, Plug, Unplug, Crash, FlagsOK, mainVars
<1> QED BY <1>1, <1>2, <1>3, <1>4 DEF Next

LEMMA DisarmData ==
  ASSUME DataOK, NEW t \in Threads, Disarm(t)
  PROVE  DataOK'
<1> USE DEF envVars, partVars, mainVars
<1>a. ASSUME NEW place \in Places, Goto(t, place)
      PROVE  pc' \in [Threads -> Places]
  BY <1>a DEF DataOK, Goto
<1>b. sub[t] \in Part /\ ref[sub[t]] \in Nat
  BY DEF DataOK
<1>c. ASSUME Onward(t)
      PROVE  sub' \in [Threads -> Part] /\ pc' \in [Threads -> Places]
  <2>1. \E place \in Places : Goto(t, place)
    BY <1>c DEF Onward, Places
  <2>2. (IF sub[t] > 1 THEN sub[t] - 1 ELSE 1) \in Part
    BY <1>b DEF Part
  <2> QED BY <1>a, <1>c, <2>1, <2>2 DEF Onward, DataOK
<1>1. CASE NothingToStop(t)
  BY <1>1, <1>c DEF NothingToStop, DataOK
<1>2. CASE StopPart(t)
  <2>1. pc' \in [Threads -> Places]
    BY <1>2, <1>a DEF StopPart, Places
  <2> QED BY <1>2, <1>b, <2>1 DEF StopPart, DataOK
<1>3. CASE JoinPart(t)
  BY <1>3, <1>b, <1>c DEF JoinPart, DataOK
<1>4. CASE DeleteTasks(t)
  BY <1>4, <1>a DEF DeleteTasks, DataOK, Places
<1>5. CASE ClearArmed(t)
  <2>1. AfterDisarm(t) \in Places
    BY DEF AfterDisarm, Places
  <2> QED BY <1>5, <1>a, <2>1 DEF ClearArmed, DataOK
<1> QED BY <1>1, <1>2, <1>3, <1>4, <1>5 DEF Disarm

LEMMA DataStep == DataOK /\ [Next]_vars => DataOK'
<1> SUFFICES ASSUME DataOK, [Next]_vars PROVE DataOK'
  OBVIOUS
<1> USE DEF envVars, partVars, mainVars
<1>a. ASSUME NEW t \in Threads, NEW place \in Places, Goto(t, place)
      PROVE  pc' \in [Threads -> Places]
  BY <1>a DEF DataOK, Goto
<1>1. CASE UNCHANGED vars
  BY <1>1 DEF vars, DataOK
<1>2. CASE Watcher
  <2>1. CASE \/ WatcherTop \/ NothingNew \/ Appears \/ DropOld
             \/ HandshakeFails \/ ReadConfigFails \/ SetArmed
    BY <2>1, <1>a DEF WatcherTop, NothingNew, Appears, DropOld, HandshakeFails,
       ReadConfigFails, SetArmed, DataOK, Threads, Places
  <2>2. CASE Disappears
    BY <2>2, <1>a DEF Disappears, DataOK, Threads, Places, Part, Last
  <2>3. CASE Handshake
    BY <2>3, <1>a DEF Handshake, DataOK, Threads, Places
  <2>4. CASE ReadConfig \/ DropDevice
    <3>1. EmptyConfig \in ConfigType
      BY DEF EmptyConfig, ConfigType
    <3>2. config' \in ConfigType
      BY <2>4, <3>1, ConfigAssumption DEF ReadConfig, DropDevice
    <3>3. \E place \in Places : Goto("watcher", place)
      BY <2>4 DEF ReadConfig, DropDevice, Places
    <3> QED
      BY <2>4, <1>a, <3>2, <3>3 DEF ReadConfig, DropDevice, DataOK, Threads
  <2>5. CASE SyncSchedule
    <3>1. \E place \in Places : Goto("watcher", place)
      BY <2>5 DEF SyncSchedule, Places
    <3>2. 1 \in Part
      BY DEF Part
    <3> QED
      BY <2>5, <1>a, <3>1, <3>2 DEF SyncSchedule, DataOK, Threads
  <2>9. CASE CreateTask
    BY <2>9, <1>a DEF CreateTask, DataOK, Threads, Places
  <2>6. CASE NewPart
    BY <2>6, <1>a DEF NewPart, DataOK, Threads, Places
  <2>b. ASSUME NextPart
        PROVE  sub' \in [Threads -> Part] /\ pc' \in [Threads -> Places]
    <3>1. \E place \in Places : Goto("watcher", place)
      BY <2>b DEF NextPart, Places
    <3>2. S \in Part /\ (IF S < Last THEN S + 1 ELSE S) \in Part
      BY DEF DataOK, S, Threads, Part, Last
    <3> QED BY <2>b, <1>a, <3>1, <3>2 DEF NextPart, S, DataOK, Threads
  <2>7. CASE StartPart
    <3>1. S \in Part /\ ref[S] \in Nat
      BY DEF DataOK, S, Threads
    <3>2. running' \subseteq Part \X Nat
      BY <2>7, <3>1 DEF StartPart, S, DataOK
    <3> QED BY <2>7, <2>b, <3>2 DEF StartPart, DataOK
  <2>10. CASE NewPartFails
    BY <2>10, <2>b DEF NewPartFails, DataOK
  <2>8. CASE Disarm("watcher")
    BY <2>8, DisarmData DEF Threads
  <2> QED BY <1>2, <2>1, <2>2, <2>3, <2>4, <2>5, <2>6, <2>7, <2>8, <2>9, <2>10 DEF Watcher
<1>3. CASE Main
  <2>1. CASE Disarm("main")
    BY <2>1, DisarmData DEF Threads
  <2>2. CASE Stop
    BY <2>2, <1>a DEF Stop, DataOK, Threads, Places, Part, Last
  <2>3. CASE StopWatcher \/ JoinWatcher
    <3>1. \E place \in Places : Goto("main", place)
      BY <2>3 DEF StopWatcher, JoinWatcher, Places
    <3> QED BY <2>3, <1>a, <3>1 DEF StopWatcher, JoinWatcher, DataOK, Threads
  <2>4. CASE Cleanup
    <3>1. \E place \in Places : Goto("main", place)
      BY <2>4 DEF Cleanup, Places
    <3> QED BY <2>4, <1>a, <3>1 DEF Cleanup, DataOK, Threads, Part, Last
  <2>5. CASE Exit
    BY <2>5, <1>a DEF Exit, DataOK, Threads, Places
  <2> QED BY <1>3, <2>1, <2>2, <2>3, <2>4, <2>5 DEF Main
<1>4. CASE PartEnds \/ Plug \/ Unplug
  BY <1>4 DEF PartEnds, Plug, Unplug, DataOK
<1>5. CASE Crash
  BY <1>5 DEF Crash, Begin, DataOK, EmptyConfig, ConfigType, Part, Threads, Places
<1> QED BY <1>1, <1>2, <1>3, <1>4, <1>5 DEF Next

(* Every variable keeps its type, for every bound and however stop() and   *)
(* the watcher interleave.                                                 *)
THEOREM TypeCorrect == Spec => []TypeOK
<1>1. Init => TypeOK
  BY InitIInv DEF IInv
<1>2. TypeOK /\ [Next]_vars => TypeOK'
  BY FlagsStep, DataStep DEF TypeOK
<1> QED BY <1>1, <1>2, PTL DEF Spec

-----------------------------------------------------------------------------
(* The invariant                                                           *)

LEMMA WatcherStep ==
  ASSUME Stops = 0, IInv, Watcher, DataOK'
  PROVE  NotStopped' /\ HeldOK' /\ RefsOK' /\ ArmedOK' /\ LinkOK'
<1> USE DEF IInv, TypeOK, NotStopped, envVars, partVars, mainVars, At, Settled, Connecting,
            Arming, Disarming, RefsOK, ArmedOK, LinkOK, HeldOK, NoRefs, Made
<1>1. CASE WatcherTop
  <2>1. W = "top" /\ W' = "check" /\ pc'["main"] = "run"
    BY <1>1, GoesTo DEF WatcherTop, Places, W
  <2> QED BY <1>1, <2>1 DEF WatcherTop, DataOK
<1>2. CASE NothingNew
  <2>1. W = "check" /\ W' = "top" /\ pc'["main"] = "run"
    BY <1>2, GoesTo DEF NothingNew, Places, W
  <2> QED BY <1>2, <2>1 DEF NothingNew, DataOK
<1>3. CASE Appears
  <2>1. W = "check" /\ W' = "open" /\ pc'["main"] = "run"
    BY <1>3, GoesTo DEF Appears, Places, W
  <2> QED BY <1>3, <2>1 DEF Appears, DataOK
<1>4. CASE Disappears
  <2>1. W = "check" /\ W' = "stop" /\ pc'["main"] = "run"
    BY <1>4, GoesTo DEF Disappears, Places, W
  <2>2. \A k \in Part : ~(k > S')
    BY <1>4 DEF Disappears, DataOK, S, Last, Part, Threads
  <2> QED BY <1>4, <2>1, <2>2 DEF Disappears
<1>5. CASE DropOld
  <2>1. W = "open" /\ W' = "connect" /\ pc'["main"] = "run"
    BY <1>5, GoesTo DEF DropOld, Places, W
  <2> QED BY <1>5, <2>1 DEF DropOld, DataOK
<1>6. CASE Handshake
  <2>1. W = "connect" /\ W' = "config" /\ pc'["main"] = "run"
    BY <1>6, GoesTo DEF Handshake, Places, W
  <2> QED BY <1>6, <2>1 DEF Handshake, DataOK
<1>7. CASE HandshakeFails
  <2>1. W = "connect" /\ W' = "top" /\ pc'["main"] = "run"
    BY <1>7, GoesTo DEF HandshakeFails, Places, W
  <2> QED BY <1>7, <2>1 DEF HandshakeFails, DataOK
<1>8. CASE ReadConfig
  <2>1. W = "config" /\ W' = "sync" /\ pc'["main"] = "run"
    BY <1>8, GoesTo DEF ReadConfig, Places, W
  <2> QED BY <1>8, <2>1 DEF ReadConfig, DataOK
<1>9. CASE ReadConfigFails
  <2>1. W = "config" /\ W' = "top" /\ pc'["main"] = "run"
    BY <1>9, GoesTo DEF ReadConfigFails, Places, W
  <2> QED BY <1>9, <2>1 DEF ReadConfigFails, DataOK
<1>10. CASE SyncSchedule
  <2>1. W = "sync" /\ W' \in {"create", "new"} /\ pc'["main"] = "run"
    BY <1>10, GoesTo DEF SyncSchedule, Places, W
  <2>2. arms' # 0 /\ ref' = ref /\ (\A k \in Part : k >= S')
    BY <1>10 DEF SyncSchedule, DataOK, S, Part, Threads
  <2>3. \A k \in Part : ~(k < S')
    BY <1>10, <2>2 DEF SyncSchedule, DataOK, S, Part, Threads
  <2> QED BY <1>10, <2>1, <2>2, <2>3 DEF SyncSchedule
<1>11. CASE CreateTask
  <2>1. W = "create" /\ W' = "new" /\ pc'["main"] = "run"
    BY <1>11, GoesTo DEF CreateTask, Places, W
  <2>2. \A k \in Part : k >= S => ~(k < S)
    BY DEF DataOK, S, Threads, Part
  <2> QED BY <1>11, <2>1, <2>2 DEF CreateTask, S
<1>a. ASSUME NextPart
      PROVE  /\ W' = (IF S < Last THEN "new" ELSE "flag") /\ pc'["main"] = "run"
             /\ S' = (IF S < Last THEN S + 1 ELSE S)
  BY <1>a, GoesTo DEF NextPart, Places, S, DataOK, Threads
<1>b. S \in Part
  BY DEF DataOK, S, Threads
<1>12. CASE NewPart
  <2>1. W = "new" /\ W' = "start" /\ pc'["main"] = "run"
    BY <1>12, GoesTo DEF NewPart, Places, W
  <2>2. S' = S /\ ref' = [ref EXCEPT ![S] = arms] /\ arms' = arms
    BY <1>12 DEF NewPart, DataOK, S, Threads
  <2>3. \A k \in Part : IF k <= S THEN Made(k)' ELSE ref'[k] = 0
    BY <1>b, <2>1, <2>2 DEF DataOK, Part, Made
  <2>4. HeldOK'
    BY <1>12, <1>b, <2>1, <2>2 DEF NewPart, DataOK, Part
  <2> QED BY <1>12, <2>1, <2>2, <2>3, <2>4 DEF NewPart
<1>13. CASE StartPart
  <2>1. W = "start" /\ ref' = ref /\ arms' = arms /\ link' = link
    BY <1>13 DEF StartPart, W
  <2>2. HeldOK'
    BY <1>13 DEF StartPart, S
  <2>3. \A k \in Part : IF S < Last THEN IF k < S' THEN Made(k)' ELSE ref'[k] = 0
                         ELSE Made(k)'
    BY <1>13, <1>a, <1>b, <2>1 DEF StartPart, Part, Last, Made
  <2> QED BY <1>13, <1>a, <2>1, <2>2, <2>3 DEF StartPart
<1>21. CASE NewPartFails
  <2>1. W = "new" /\ PartsMayFail /\ ref' = ref /\ arms' = arms /\ running' = running
    BY <1>21 DEF NewPartFails, W
  <2>2. \A k \in Part : IF S < Last THEN IF k < S' THEN Made(k)' ELSE ref'[k] = 0
                         ELSE Made(k)'
    BY <1>21, <1>a, <1>b, <2>1 DEF NewPartFails, Part, Last, Made
  <2> QED BY <1>21, <1>a, <2>1, <2>2 DEF NewPartFails
<1>14. CASE SetArmed
  <2>1. W = "flag" /\ W' = "top" /\ pc'["main"] = "run"
    BY <1>14, GoesTo DEF SetArmed, Places, W
  <2> QED BY <1>14, <2>1 DEF SetArmed, DataOK
<1>15. CASE NothingToStop("watcher")
  <2>1. W = "stop" /\ W' = (IF S > 1 THEN "stop" ELSE "tasks") /\ pc'["main"] = "run"
    BY <1>15, GoesTo DEF NothingToStop, Onward, Places, W, S
  <2>2. S \in Part /\ S' = (IF S > 1 THEN S - 1 ELSE 1) /\ ref' = ref
    BY <1>15 DEF NothingToStop, Onward, DataOK, S, Threads
  <2>3. \A k \in Part : k > S \/ k = S => ref'[k] = 0
    BY <1>15, <2>1, <2>2 DEF NothingToStop, S
  <2>4. \A k \in Part : IF S > 1 THEN k > S' => ref'[k] = 0 ELSE ref'[k] = 0
    BY <2>2, <2>3 DEF Part
  <2> QED BY <1>15, <2>1, <2>2, <2>4 DEF NothingToStop
<1>16. CASE StopPart("watcher")
  <2>1. W = "stop" /\ W' = "join" /\ pc'["main"] = "run"
    BY <1>16, GoesTo DEF StopPart, Places, W
  <2>2. S \in Part /\ S' = S /\ ref' = ref /\ running' = running \ {<<S, ref[S]>>}
    BY <1>16 DEF StopPart, DataOK, S, Threads
  <2>3. \A th \in running' : th[1] # S
    BY <2>2 DEF DataOK
  <2> QED BY <1>16, <2>1, <2>2, <2>3 DEF StopPart
<1>17. CASE JoinPart("watcher")
  <2>1. W = "join" /\ W' = (IF S > 1 THEN "stop" ELSE "tasks") /\ pc'["main"] = "run"
    BY <1>17, GoesTo DEF JoinPart, Onward, Places, W, S
  <2>2. /\ S \in Part /\ S' = (IF S > 1 THEN S - 1 ELSE 1)
        /\ ref' = [ref EXCEPT ![S] = 0] /\ running' = running
    BY <1>17 DEF JoinPart, Onward, DataOK, S, Threads
  <2>3. \A k \in Part : k > S \/ k = S => ref'[k] = 0
    BY <2>1, <2>2 DEF DataOK
  <2>4. \A k \in Part : IF S > 1 THEN k > S' => ref'[k] = 0 ELSE ref'[k] = 0
    BY <2>2, <2>3 DEF Part
  <2>5. HeldOK'
    BY <2>1, <2>2 DEF DataOK
  <2> QED BY <1>17, <2>1, <2>2, <2>4, <2>5 DEF JoinPart
<1>18. CASE DeleteTasks("watcher")
  <2>1. W = "tasks" /\ W' = "disarmed" /\ pc'["main"] = "run"
    BY <1>18, GoesTo DEF DeleteTasks, Places, W
  <2> QED BY <1>18, <2>1 DEF DeleteTasks, DataOK
<1>19. CASE ClearArmed("watcher")
  <2>1. W = "disarmed" /\ W' = "drop" /\ pc'["main"] = "run"
    BY <1>19, GoesTo DEF ClearArmed, AfterDisarm, Places, W
  <2> QED BY <1>19, <2>1 DEF ClearArmed, DataOK
<1>20. CASE DropDevice
  <2>1. W = "drop" /\ W' = "top" /\ pc'["main"] = "run"
    BY <1>20, GoesTo DEF DropDevice, Places, W
  <2> QED BY <1>20, <2>1 DEF DropDevice, DataOK
<1> QED BY <1>1, <1>2, <1>3, <1>4, <1>5, <1>6, <1>7, <1>8, <1>9, <1>10, <1>11, <1>12, <1>13, <1>14, <1>15, <1>16, <1>17, <1>18, <1>19, <1>20, <1>21
   DEF Watcher, Disarm

LEMMA StepIInv == Stops = 0 /\ IInv /\ [Next]_vars => IInv'
<1> SUFFICES ASSUME Stops = 0, IInv, [Next]_vars PROVE IInv'
  OBVIOUS
<1>1. TypeOK'
  BY FlagsStep, DataStep DEF IInv, TypeOK
<1> USE DEF envVars, partVars, mainVars
<1>2. CASE UNCHANGED vars \/ PartEnds \/ Plug \/ Unplug
  <2>1. UNCHANGED <<pc, sub, lastPort, link, armed, ref, arms, running, stopWatch>>
    BY <1>2 DEF vars, PartEnds, Plug, Unplug
  <2> QED
    BY <1>1, <2>1 DEF IInv, NotStopped, HeldOK, RefsOK, ArmedOK, LinkOK, NoRefs, Made, W, S
<1>3. CASE Watcher
  BY <1>1, <1>3, WatcherStep DEF IInv, TypeOK
<1>4. CASE Main
  <2>1. pc["main"] = "run" /\ stops \in Nat
    BY DEF IInv, NotStopped, TypeOK, DataOK
  <2> QED
    BY <1>4, <2>1 DEF Main, Stop, Disarm, NothingToStop, StopPart, JoinPart, DeleteTasks,
       ClearArmed, StopWatcher, JoinWatcher, Cleanup, Exit, At
<1>5. CASE Crash
  BY <1>1, <1>5 DEF Crash, Begin, Threads, IInv, NotStopped, HeldOK, RefsOK, ArmedOK,
     LinkOK, NoRefs, W, Settled, Connecting, Arming, Disarming
<1> QED BY <1>2, <1>3, <1>4, <1>5 DEF Next

LEMMA Invariance == ASSUME Stops = 0 PROVE Spec => []IInv
<1>1. IInv /\ [Next]_vars => IInv'
  BY StepIInv
<1> QED BY InitIInv, <1>1, PTL DEF Spec

(* As long as nobody calls stop(), no part is lost: the reference to it is *)
(* cleared only after it has been asked to stop.                           *)
THEOREM NoPartIsLost == ASSUME Stops = 0 PROVE Spec => []RunningIsHeld
<1>1. IInv => RunningIsHeld
  BY DEF IInv, HeldOK, RunningIsHeld
<1> QED BY <1>1, Invariance, PTL

(* As long as nobody calls stop(), a part that runs has its port: the      *)
(* service is disarmed before it closes the port.                          *)
THEOREM PortOutlivesParts == ASSUME Stops = 0 PROVE Spec => []RunningHasPort
<1>1. IInv => RunningHasPort
  BY DEF IInv, LinkOK, RunningHasPort
<1> QED BY <1>1, Invariance, PTL

(* As long as nobody calls stop(), is_armed tells between two callbacks    *)
(* what is there, whichever parts fail to be made or started: not armed,   *)
(* no part; armed, an open port and no part of an earlier arming.          *)
THEOREM ArmedTellsParts == ASSUME Stops = 0 PROVE Spec => []ArmedTells
<1>1. IInv => ArmedTells
  <2> SUFFICES ASSUME IInv PROVE ArmedTells
    OBVIOUS
  <2>1. NoRefs => running = {}
    BY NoneRuns DEF IInv, TypeOK
  <2>2. ASSUME W \in Settled
        PROVE  IF armed THEN lastPort /\ link # 0 /\ (\A k \in Part : Made(k))
               ELSE running = {} /\ (\A k \in Part : ref[k] = 0)
    BY <2>1, <2>2 DEF IInv, ArmedOK, LinkOK, NoRefs
  <2>3. W = "sync" => ~armed
    BY DEF IInv, ArmedOK, Connecting
  <2> QED BY <2>2, <2>3 DEF ArmedTells, Made, At, W, Settled
<1> QED BY <1>1, Invariance, PTL

-----------------------------------------------------------------------------
(* A service that is stopped                                               *)

LEMMA ThreadGoes ==
  ASSUME DataOK, NEW t \in Threads, NEW place, Goto(t, place)
  PROVE  /\ t = "watcher" => W' = place /\ M' = M
         /\ t = "main" => M' = place /\ W' = W
BY DEF DataOK, Goto, Threads, W, M

LEMMA InitJoined == Init => Joined
BY DEF Init, Begin, Threads, Joined, W, M

(* The watcher's steps: it is alive, so it has not been joined.            *)
LEMMA WatcherJoined == ASSUME TypeOK, Joined, Watcher PROVE Joined'
<1>1. /\ W # "dead" /\ M # "exited"
      /\ UNCHANGED mainVars
      /\ \E place : Goto("watcher", place)
  BY DEF Watcher, WatcherTop, NothingNew, Appears, Disappears, DropOld, Handshake,
     HandshakeFails, ReadConfig, ReadConfigFails, SyncSchedule, CreateTask, NewPart,
     NewPartFails, NextPart, StartPart, SetArmed, Disarm, NothingToStop, StopPart, JoinPart, DeleteTasks,
     ClearArmed, Onward, DropDevice, At, W, M
<1>2. M' = M
  BY <1>1, ThreadGoes DEF TypeOK, Threads
<1>3. watching /\ watching' = watching /\ stops' = stops
  BY <1>1 DEF Joined, mainVars
<1> QED BY <1>2, <1>3 DEF Joined

(* The main thread's: with two calls or more, and tasks that can be        *)
(* deleted, it leaves "tasks" with none.                                   *)
LEMMA MainJoined ==
  ASSUME Stops >= 2, ~TasksMayFail, ~WatcherMayLinger, TypeOK, Joined, Main
  PROVE  Joined'
<1>1. stops \in Nat /\ Stops \in Nat /\ DataOK /\ "main" \in Threads
  BY BoundAssumption DEF TypeOK, DataOK, Threads
<1>2. CASE Stop
  <2>1. M' = "stop" /\ W' = W
    BY <1>1, <1>2, ThreadGoes DEF Stop
  <2>2. M \in {"run", "stopped"} /\ stops' = stops + 1 /\ watching' = watching
    BY <1>2 DEF Stop, At, M
  <2> QED BY <1>1, <2>1, <2>2 DEF Joined
<1>3. CASE NothingToStop("main") \/ StopPart("main") \/ JoinPart("main")
  <2>1. /\ \E place \in {"stop", "join", "tasks"} : Goto("main", place)
        /\ UNCHANGED <<task, watching, stops>> /\ M \in {"stop", "join"}
    BY <1>3 DEF NothingToStop, StopPart, JoinPart, Onward, mainVars, At, M
  <2>2. M' \in {"stop", "join", "tasks"} /\ W' = W
    BY <1>1, <2>1, ThreadGoes
  <2> QED BY <2>1, <2>2 DEF Joined
<1>4. CASE DeleteTasks("main")
  <2>1. M' = "disarmed" /\ W' = W
    BY <1>1, <1>4, ThreadGoes DEF DeleteTasks
  <2>2. task' = FALSE /\ UNCHANGED <<watching, stops>>
    BY <1>4 DEF DeleteTasks, TaskDeleted, mainVars
  <2> QED BY <2>1, <2>2 DEF Joined
<1>5. CASE ClearArmed("main")
  <2>1. M = "disarmed" /\ M' = AfterDisarm("main") /\ W' = W
    BY <1>1, <1>5, ThreadGoes DEF ClearArmed, At, M
  <2>2. UNCHANGED <<task, watching, stops>>
    BY <1>5 DEF ClearArmed, mainVars
  <2>3. M' = "unwatch" \/ (M' = "close" /\ stops >= 2)
    BY <1>1, <2>1 DEF AfterDisarm
  <2> QED BY <2>1, <2>2, <2>3 DEF Joined
<1>6. CASE StopWatcher
  <2>1. M = "unwatch" /\ M' = (IF watching THEN "joinWatcher" ELSE "stopped") /\ W' = W
    BY <1>1, <1>6, ThreadGoes DEF StopWatcher, At, M
  <2>2. UNCHANGED <<task, watching, stops>>
    BY <1>6 DEF StopWatcher
  <2> QED BY <2>1, <2>2 DEF Joined
<1>7. CASE JoinWatcher
  <2>1. M = "joinWatcher" /\ M' = "stopped" /\ W' = W /\ W = "dead"
    BY <1>1, <1>7, ThreadGoes DEF JoinWatcher, At, M, W
  <2>2. watching' = FALSE /\ UNCHANGED <<task, stops>>
    BY <1>7 DEF JoinWatcher
  <2> QED BY <2>1, <2>2 DEF Joined
<1>8. CASE Cleanup
  <2>1. M = "stopped" /\ M' = (IF armed THEN "stop" ELSE "close") /\ W' = W
    BY <1>1, <1>8, ThreadGoes DEF Cleanup, At, M
  <2>2. stops = Stops /\ stops' = stops + 1 /\ UNCHANGED <<task, watching>>
    BY <1>8 DEF Cleanup
  <2> QED BY <1>1, <2>1, <2>2 DEF Joined
<1>9. CASE Exit
  <2>1. M = "close" /\ M' = "exited" /\ W' = W
    BY <1>1, <1>9, ThreadGoes DEF Exit, At, M
  <2>2. UNCHANGED <<task, watching, stops>>
    BY <1>9 DEF Exit, mainVars
  <2> QED BY <2>1, <2>2 DEF Joined
<1> QED BY <1>2, <1>3, <1>4, <1>5, <1>6, <1>7, <1>8, <1>9 DEF Main, Disarm

(* A process that calls stop() twice or more, the way __main__ does, ends  *)
(* without a wake task, if its tasks can be deleted and its watcher ends   *)
(* within the time that stop() waits for it: although the first stop() may *)
(* disarm before the watcher has armed, the parts may outlive their join,  *)
(* and earlier processes may have been killed.                             *)
THEOREM LeavesNoTask ==
  ASSUME Stops >= 2, ~TasksMayFail, ~WatcherMayLinger
  PROVE  Spec => []ExitLeavesNoTask
<1>1. TypeOK /\ Joined /\ [Next]_vars => Joined'
  <2> SUFFICES ASSUME TypeOK, Joined, [Next]_vars PROVE Joined'
    OBVIOUS
  <2>1. CASE UNCHANGED vars \/ PartEnds \/ Plug \/ Unplug
    <3>1. UNCHANGED <<pc, task, watching, stops>>
      BY <2>1 DEF vars, PartEnds, Plug, Unplug, mainVars
    <3> QED BY <3>1 DEF Joined, W, M
  <2>2. CASE Crash
    BY <2>2 DEF Crash, Begin, Threads, Joined, W, M
  <2> QED BY <2>1, <2>2, WatcherJoined, MainJoined DEF Next
<1>2. Joined => ExitLeavesNoTask
  BY DEF Joined, ExitLeavesNoTask, M
<1> QED BY <1>1, <1>2, InitJoined, TypeCorrect, PTL DEF Spec
=============================================================================
