------------------------- MODULE DeviceLoop_proofs -------------------------
(***************************************************************************)
(* Proofs of DeviceLoop's safety properties, for every configuration,      *)
(* every day length and every bound.                                       *)
(***************************************************************************)
EXTENDS DeviceLoop, SequenceTheorems, TLAPS

(* Where a heard command leaves boot unlock: from serial_task to           *)
(* boot_unlock_task the cancel flag may still carry the news, past         *)
(* boot_unlock_task the state itself is DONE; so the scheduler, which runs *)
(* last, may lower the flag.                                               *)
Quiet ==
  heard => /\ loc \in {"serial", "lines", "unlock", "hello", "boot"} =>
                cancelled \/ bootState = "DONE"
           /\ loc \in {"sched", "wake", "wakeEnter", "tud"} => bootState = "DONE"
           /\ loc # "bootEnter"

(* Typings so far are covered by attempts judged, plus the one under way.  *)
Counted ==
  /\ loc = "bootEnter" => bootState = "SHIFT_2"
  /\ bootState # "DONE" => bootTypings <= attempt + 1
  /\ bootState \notin {"DONE", "TYPING"} /\ loc # "bootEnter" => bootTypings <= attempt
  /\ ~heard /\ bootState # "DONE" => attempt < AttemptLimit(config.retry)

(* A day on which a wake fired is not after today, and if it is today the  *)
(* scheduler remembers it.                                                 *)
Remembered ==
  /\ \A d \in wakeDays : d <= Today
  /\ Today \in wakeDays => FiredToday

IInv == TypeOK /\ Quiet /\ Counted /\ Remembered

-----------------------------------------------------------------------------

LEMMA TodayType ==
  ASSUME TypeOK
  PROVE  Today \in Nat /\ Today % DayModulus \in 0..(DayModulus - 1)
BY BoundAssumption DEF TypeOK, DataOK, Today

LEMMA LoadPinType == ASSUME NEW ok \in LoadPinOutcomes PROVE ok \in BOOLEAN
BY Zenon DEF LoadPinOutcomes, FsOutcomes

LEMMA ConfigReadType == ASSUME DataOK, NEW c \in ConfigRead PROVE c \in ConfigType
BY ConfigAssumption DEF DataOK, ConfigRead

LEMMA PowerUpFlags == ASSUME FlagsOK, PowerUp PROVE FlagsOK'
<1>1. active' \in BOOLEAN
  BY Zenon DEF PowerUp, SchedulerInit
<1>2. pinStored' \in BOOLEAN
  BY LoadPinType, Zenon DEF PowerUp
<1> QED
  BY <1>1, <1>2, Zenon DEF FlagsOK, PowerUp, SchedulerInit, BootUnlockStart

LEMMA PowerUpData == ASSUME DataOK, PowerUp, cuts' \in Nat PROVE DataOK'
<1>1. /\ loc' = "tud" /\ fifo' = << >> /\ wire' = << >>
      /\ config' \in ConfigRead /\ configFile' \in {configFile, config'}
      /\ wall' = wall
      /\ bootState' \in {"WAITING", "DONE"} /\ attempt' = 0 /\ bootTypings' = 0
      /\ lastWakeDay' = DayModulus - 1 /\ wakeDays' = {}
  BY Zenon DEF PowerUp, SchedulerInit, BootUnlockStart
<1>2. config' \in ConfigType /\ configFile' \in ConfigType
  BY <1>1, ConfigReadType DEF DataOK
<1> QED
  BY <1>1, <1>2, EmptySeq, BoundAssumption DEF DataOK, Locs, BootStates

LEMMA LimitType ==
  ASSUME NEW c \in ConfigType
  PROVE  AttemptLimit(c.retry) \in 1..255
<1>1. c.retry \in 0..255
  BY DEF ConfigType
<1> QED BY <1>1 DEF AttemptLimit

LEMMA InitIInv == ASSUME Init PROVE IInv
<1>1. FlagsOK
  <2>1. active \in BOOLEAN
    BY Zenon DEF Init
  <2>2. pinStored \in BOOLEAN
    BY LoadPinType, Zenon DEF Init
  <2> QED BY <2>1, <2>2, Zenon DEF Init, FlagsOK
<1>2. /\ loc = "tud" /\ fifo = << >> /\ wire = << >>
      /\ config \in ConfigRead /\ configFile \in Configs \cup {DefaultConfig}
      /\ wall = 0 /\ cuts = 0
      /\ bootState \in {"WAITING", "DONE"} /\ attempt = 0 /\ bootTypings = 0
      /\ lastWakeDay = DayModulus - 1 /\ wakeDays = {} /\ heard = FALSE
  BY Zenon DEF Init
<1>3. DataOK
  BY <1>2, EmptySeq, BoundAssumption, ConfigAssumption
     DEF DataOK, Locs, BootStates, ConfigRead
<1>4. Quiet
  BY <1>2 DEF Quiet
<1>5. Counted
  <2>1. AttemptLimit(config.retry) \in 1..255
    BY <1>3, LimitType DEF DataOK
  <2>2. /\ loc = "tud" /\ bootState \in {"WAITING", "DONE"}
        /\ attempt = 0 /\ bootTypings = 0
    BY <1>2
  <2>3. attempt < AttemptLimit(config.retry)
    BY <2>1, <2>2
  <2> QED BY <2>2, <2>3 DEF Counted
<1>6. Remembered
  BY <1>2 DEF Remembered
<1> QED BY <1>1, <1>3, <1>4, <1>5, <1>6 DEF IInv, TypeOK

-----------------------------------------------------------------------------
LEMMA FlagsStep == ASSUME FlagsOK, [Next]_vars PROVE FlagsOK'
<1> USE Zenon DEF FlagsOK, bootVars, schedVars, fileVars, envVars, hostVars
<1>1. CASE UsbTask \/ UsbNested
  BY <1>1 DEF UsbTask, UsbNested, UsbDelivers
<1>2. CASE SerialIdle \/ SerialText \/ LinesDone \/ HandlerReturns
  BY <1>2 DEF SerialIdle, SerialText, LinesDone, HandlerReturns
<1>3. CASE FlashBytes
  BY <1>3 DEF FlashBytes
<1>4. CASE FlashReboot \/ PowerCut
  BY <1>4, PowerUpFlags DEF FlashReboot, PowerCut
<1>5. ASSUME NEW line, Dispatch(line)
      PROVE {cancelled', heard', done', synced', active', wakeFired', connected'} \subseteq BOOLEAN
  BY <1>5 DEF Dispatch
<1>6. CASE Unlock \/ Hello
  BY <1>5, <1>6 DEF Unlock, Hello, TypingLine
<1>7. CASE SetupPin
  <2>1. {pinFile', pinStored'} \subseteq BOOLEAN
    BY <1>7 DEF SetupPin
  <2> QED BY <1>5, <1>7, <2>1 DEF SetupPin
<1>8. CASE Clear
  <2>1. {pinFile', pinStored'} \subseteq BOOLEAN
    BY <1>8 DEF Clear
  <2> QED BY <1>5, <1>8, <2>1 DEF Clear
<1>9. CASE SetConfig
  BY <1>5, <1>9 DEF SetConfig
<1>10. CASE Flash
  BY <1>5, <1>10 DEF Flash
<1>11. CASE OtherLine
  BY <1>5, <1>11 DEF OtherLine
<1>12. CASE BootTask
  <2> USE DEF BootStep
  <2>1. CASE BootIdle \/ BootNotYet \/ BootShift1 \/ BootShift2 \/ BootType \/ BootNoPin
    BY <2>1 DEF BootIdle, BootNotYet, BootShift1, BootShift2, BootType, BootNoPin
  <2>2. CASE BootCancel
    BY <2>2 DEF BootCancel
  <2>3. CASE BootEnter
    BY <2>3 DEF BootEnter
  <2>4. CASE BootJudge
    <3>1. done' \in BOOLEAN
      BY <2>4 DEF BootJudge
    <3> QED BY <2>4, <3>1 DEF BootJudge
  <2> QED BY <1>12, <2>1, <2>2, <2>3, <2>4 DEF BootTask, BootFires
<1>13. CASE SchedTask
  <2> USE DEF SchedStep
  <2>1. CASE SchedIdle
    BY <2>1 DEF SchedIdle
  <2>2. CASE SchedNotDue
    BY <2>2 DEF SchedNotDue, FiredToday
  <2>3. CASE SchedWake
    BY <2>3 DEF SchedWake
  <2>4. CASE WakeWaitOver \/ WakeEnter
    BY <2>4 DEF WakeWaitOver, WakeEnter
  <2> QED BY <1>13, <2>1, <2>2, <2>3, <2>4 DEF SchedTask
<1>14. CASE HostSends \/ HostOpens \/ HostCloses \/ Tick
  BY <1>14 DEF HostSends, HostOpens, HostCloses, Tick, devVars
<1>15. CASE UNCHANGED vars
  BY <1>15 DEF vars
<1> QED
  BY <1>1, <1>2, <1>3, <1>4, <1>6, <1>7, <1>8, <1>9, <1>10, <1>11, <1>12,
     <1>13, <1>14, <1>15 DEF Next, Firmware, Environment, SerialTask

LEMMA DataStep == ASSUME IInv, [Next]_vars PROVE DataOK'
<1> USE DEF DataOK, bootVars, schedVars, fileVars, envVars, hostVars
<1> DataOK
  BY DEF IInv, TypeOK
<1>1. CASE UsbTask \/ UsbNested
  <2> DEFINE n == IF Len(wire) <= FifoCap - Len(fifo)
                    THEN Len(wire) ELSE FifoCap - Len(fifo)
  <2>1. n \in 0..Len(wire) /\ Len(fifo) + n <= FifoCap
    BY BoundAssumption, LenProperties
  <2>2. \A i \in 1..Len(wire) : wire[i] \in Lines
    BY ElementOfSeq
  <2>3. SubSeq(wire, 1, n) \in Seq(Lines) /\ Len(SubSeq(wire, 1, n)) = n
    BY <2>1, <2>2, SubSeqProperties
  <2>4. SubSeq(wire, n + 1, Len(wire)) \in Seq(Lines)
    BY <2>1, <2>2, SubSeqProperties
  <2>5. fifo \o SubSeq(wire, 1, n) \in Seq(Lines) /\ Len(fifo \o SubSeq(wire, 1, n)) <= FifoCap
    BY <2>1, <2>3, ConcatProperties
  <2>6. fifo' = fifo \o SubSeq(wire, 1, n) /\ wire' = SubSeq(wire, n + 1, Len(wire))
    BY <1>1 DEF UsbTask, UsbNested, UsbDelivers
  <2> HIDE DEF n
  <2> QED BY <1>1, <2>4, <2>5, <2>6 DEF UsbTask, UsbNested, UsbDelivers, Locs
<1>2. CASE SerialIdle \/ SerialText \/ LinesDone \/ HandlerReturns
  BY <1>2 DEF SerialIdle, SerialText, LinesDone, HandlerReturns, Locs
<1>3. CASE FlashBytes
  BY <1>3, EmptySeq, BoundAssumption DEF FlashBytes, Locs
<1>4. CASE FlashReboot \/ PowerCut
  <2>1. PowerUp /\ cuts' = cuts + 1
    BY <1>4 DEF FlashReboot, PowerCut
  <2> HIDE DEF DataOK
  <2>2. DataOK /\ cuts' \in Nat
    BY <2>1 DEF DataOK
  <2> QED BY <2>1, <2>2, PowerUpData
<1>5. ASSUME NEW line, Dispatch(line)
      PROVE fifo' \in Seq(Lines) /\ Len(fifo') <= FifoCap
  BY <1>5, HeadTailProperties, LenProperties, BoundAssumption DEF Dispatch
<1>6. CASE Unlock \/ Hello
  BY <1>5, <1>6 DEF Unlock, Hello, TypingLine, Dispatch, Locs
<1>7. CASE SetupPin
  BY <1>5, <1>7 DEF SetupPin, Dispatch, Locs
<1>8. CASE Clear
  BY <1>5, <1>8, ConfigAssumption DEF Clear, Dispatch, Locs
<1>9. CASE SetConfig
  BY <1>5, <1>9, ConfigAssumption DEF SetConfig, Dispatch, Locs
<1>10. CASE Flash
  BY <1>5, <1>10 DEF Flash, Dispatch, Locs
<1>11. CASE OtherLine
  BY <1>5, <1>11 DEF OtherLine, Dispatch, Locs
<1>12. CASE BootTask
  <2> USE DEF BootStep, Locs, BootStates
  <2>1. CASE BootIdle \/ BootNotYet
    BY <2>1 DEF BootIdle, BootNotYet
  <2>5. CASE BootShift1 \/ BootShift2 \/ BootNoPin
    BY <2>5 DEF BootShift1, BootShift2, BootNoPin
  <2>6. CASE BootType
    BY <2>6 DEF BootType
  <2>2. CASE BootCancel
    BY <2>2 DEF BootCancel
  <2>3. CASE BootEnter
    BY <2>3 DEF BootEnter
  <2>4. CASE BootJudge
    <3>1. ~heard /\ bootState # "DONE"
      BY <2>4 DEF BootJudge, BootPending, IInv, Quiet
    <3>2. attempt < AttemptLimit(config.retry)
      BY <3>1 DEF IInv, Counted
    <3>3. AttemptLimit(config.retry) \in 1..255
      BY LimitType
    <3> DEFINE limit == AttemptLimit(config.retry)
    <3> HIDE DEF limit
    <3>4. attempt \in 0..255 /\ limit \in 1..255 /\ attempt < limit
      BY <3>2, <3>3 DEF limit
    <3>5. attempt + 1 \in 0..255
      BY <3>4
    <3> QED BY <2>4, <3>5 DEF BootJudge
  <2> QED BY <1>12, <2>1, <2>2, <2>3, <2>4, <2>5, <2>6 DEF BootTask, BootFires
<1>13. CASE SchedTask
  <2> USE DEF SchedStep, Locs
  <2>0. Today \in Nat /\ Today % DayModulus \in 0..(DayModulus - 1)
    BY TodayType DEF IInv
  <2>1. CASE SchedIdle
    BY <2>1 DEF SchedIdle
  <2>2. CASE SchedNotDue
    BY <2>0, <2>2 DEF SchedNotDue
  <2>3. CASE SchedWake
    BY <2>0, <2>3 DEF SchedWake
  <2>4. CASE WakeWaitOver \/ WakeEnter
    BY <2>4 DEF WakeWaitOver, WakeEnter
  <2> QED BY <1>13, <2>1, <2>2, <2>3, <2>4 DEF SchedTask
<1>14. CASE HostSends
  <2>1. PICK line \in Lines : wire' = Append(wire, line)
    BY <1>14 DEF HostSends
  <2>2. wire' \in Seq(Lines)
    BY <2>1, AppendProperties
  <2> QED BY <1>14, <2>2 DEF HostSends, devVars
<1>15. CASE HostOpens \/ HostCloses
  BY <1>15, EmptySeq DEF HostOpens, HostCloses, devVars
<1>17. CASE Tick
  BY <1>17 DEF Tick, devVars
<1>16. CASE UNCHANGED vars
  BY <1>16 DEF vars
<1> QED
  BY <1>1, <1>2, <1>3, <1>4, <1>6, <1>7, <1>8, <1>9, <1>10, <1>11, <1>12,
     <1>13, <1>14, <1>15, <1>16, <1>17 DEF Next, Firmware, Environment, SerialTask

LEMMA QuietStep == ASSUME IInv, [Next]_vars PROVE Quiet'
<1> USE DEF Quiet, bootVars, schedVars, fileVars, envVars, hostVars
<1> Quiet
  BY DEF IInv
<1>1. CASE UsbTask \/ UsbNested
  BY <1>1 DEF UsbTask, UsbNested, UsbDelivers
<1>2. CASE SerialIdle \/ SerialText \/ LinesDone \/ HandlerReturns
  BY <1>2 DEF SerialIdle, SerialText, LinesDone, HandlerReturns
<1>3. CASE FlashBytes
  BY <1>3 DEF FlashBytes
<1>4. CASE FlashReboot \/ PowerCut
  BY <1>4 DEF FlashReboot, PowerCut, PowerUp
<1>5. ASSUME NEW line \in Lines, Dispatch(line), loc' \in {"lines", "unlock", "hello"}
      PROVE  Quiet'
  BY <1>5 DEF Dispatch
<1>6. CASE Unlock \/ Hello \/ SetupPin \/ Clear \/ SetConfig \/ Flash \/ OtherLine
  BY <1>5, <1>6
     DEF Unlock, Hello, TypingLine, SetupPin, Clear, SetConfig, Flash, OtherLine, Lines
<1>7. CASE BootTask
  BY <1>7 DEF BootTask, BootFires, BootStep, BootIdle, BootNotYet, BootShift1,
              BootShift2, BootType, BootNoPin, BootCancel, BootEnter, BootJudge,
              BootPending
<1>8. CASE SchedTask
  BY <1>8 DEF SchedTask, SchedStep, SchedIdle, SchedNotDue, SchedWake,
              WakeWaitOver, WakeEnter
<1>9. CASE HostSends \/ HostOpens \/ HostCloses \/ Tick
  BY <1>9 DEF HostSends, HostOpens, HostCloses, Tick, devVars
<1>10. CASE UNCHANGED vars
  BY <1>10 DEF vars
<1> QED
  BY <1>1, <1>2, <1>3, <1>4, <1>6, <1>7, <1>8, <1>9, <1>10
     DEF Next, Firmware, Environment, SerialTask

LEMMA CountedStep == ASSUME IInv, [Next]_vars PROVE Counted'
<1> USE DEF Counted, bootVars, schedVars, fileVars, envVars, hostVars
<1> Counted /\ Quiet /\ attempt \in Nat /\ bootTypings \in Nat
  BY DEF IInv, TypeOK, DataOK
<1>1. CASE UsbTask \/ UsbNested
  BY <1>1 DEF UsbTask, UsbNested, UsbDelivers
<1>2. CASE SerialIdle \/ SerialText \/ LinesDone \/ HandlerReturns
  BY <1>2 DEF SerialIdle, SerialText, LinesDone, HandlerReturns
<1>3. CASE FlashBytes
  BY <1>3 DEF FlashBytes
<1>4. CASE FlashReboot \/ PowerCut
  <2>1. /\ loc' = "tud" /\ attempt' = 0 /\ bootTypings' = 0
        /\ config' \in ConfigRead /\ bootState' \in {"WAITING", "DONE"}
    BY <1>4, Zenon DEF FlashReboot, PowerCut, PowerUp, BootUnlockStart
  <2>2. AttemptLimit(config'.retry) \in 1..255
    BY <2>1, LimitType, ConfigReadType DEF IInv, TypeOK
  <2> QED BY <2>1, <2>2
(* A known command lifts the bound, an unknown one leaves it alone.        *)
<1>5. ASSUME NEW line, Dispatch(line), loc' \in {"lines", "unlock", "hello"},
             Known(line) \/ config' = config
      PROVE  Counted'
  BY <1>5 DEF Dispatch
<1>6. CASE Unlock \/ Hello \/ SetupPin \/ Flash \/ OtherLine
  BY <1>5, <1>6 DEF Unlock, Hello, TypingLine, SetupPin, Flash, OtherLine
<1>7. CASE Clear \/ SetConfig
  BY <1>5, <1>7 DEF Clear, SetConfig, Known
<1>8. CASE BootTask
  <2> USE DEF BootStep
  <2>1. CASE BootIdle \/ BootNotYet \/ BootCancel
    BY <2>1 DEF BootIdle, BootNotYet, BootCancel
  <2>2. CASE BootShift1 \/ BootShift2 \/ BootNoPin
    BY <2>2 DEF BootShift1, BootShift2, BootNoPin
  <2>3. CASE BootType
    BY <2>3 DEF BootType
  <2>4. CASE BootEnter
    BY <2>4 DEF BootEnter
  <2>5. CASE BootJudge
    <3>1. AttemptLimit(config.retry) \in 1..255 /\ config.retry \in 0..255
      BY LimitType DEF IInv, TypeOK, DataOK, ConfigType
    <3>2. attempt + 1 < config.retry => attempt + 1 < AttemptLimit(config.retry)
      BY <3>1 DEF AttemptLimit
    <3> QED BY <2>5, <3>1, <3>2 DEF BootJudge
  <2> QED BY <1>8, <2>1, <2>2, <2>3, <2>4, <2>5 DEF BootTask, BootFires
<1>9. CASE SchedTask
  BY <1>9 DEF SchedTask, SchedStep, SchedIdle, SchedNotDue, SchedWake,
              WakeWaitOver, WakeEnter
<1>10. CASE HostSends \/ HostOpens \/ HostCloses \/ Tick
  BY <1>10 DEF HostSends, HostOpens, HostCloses, Tick, devVars
<1>11. CASE UNCHANGED vars
  BY <1>11 DEF vars
<1> QED
  BY <1>1, <1>2, <1>3, <1>4, <1>6, <1>7, <1>8, <1>9, <1>10, <1>11
     DEF Next, Firmware, Environment, SerialTask

LEMMA RememberedStep == ASSUME IInv, [Next]_vars PROVE Remembered'
<1> USE DEF Remembered, bootVars, schedVars, fileVars, envVars, hostVars
<1> Remembered /\ Today \in Nat /\ wakeDays \subseteq Nat
  BY TodayType DEF IInv, TypeOK, DataOK
<1>1. ASSUME UNCHANGED <<wall, schedVars>>
      PROVE  Remembered'
  BY <1>1 DEF Today, FiredToday
<1>2. CASE UsbTask \/ UsbNested
  BY <1>1, <1>2 DEF UsbTask, UsbNested, UsbDelivers
<1>3. CASE SerialIdle \/ SerialText \/ LinesDone \/ HandlerReturns \/ FlashBytes
  BY <1>1, <1>3 DEF SerialIdle, SerialText, LinesDone, HandlerReturns, FlashBytes
<1>4. CASE FlashReboot \/ PowerCut
  BY <1>4 DEF FlashReboot, PowerCut, PowerUp, SchedulerInit
<1>5. CASE Unlock \/ Hello \/ SetupPin \/ Clear \/ SetConfig \/ Flash \/ OtherLine
  BY <1>1, <1>5
     DEF Unlock, Hello, TypingLine, SetupPin, Clear, SetConfig, Flash, OtherLine, Dispatch
<1>6. CASE BootTask
  BY <1>1, <1>6
     DEF BootTask, BootFires, BootStep, BootIdle, BootNotYet, BootShift1,
         BootShift2, BootType, BootNoPin, BootCancel, BootEnter, BootJudge
<1>7. CASE SchedIdle \/ WakeWaitOver \/ WakeEnter
  BY <1>1, <1>7 DEF SchedIdle, SchedStep, WakeWaitOver, WakeEnter
<1>8. CASE SchedNotDue
  BY <1>8 DEF SchedNotDue, SchedStep, Today, FiredToday
<1>9. CASE SchedWake
  BY <1>9 DEF SchedWake, SchedStep, Today, FiredToday
<1>10. CASE HostSends \/ HostOpens \/ HostCloses
  BY <1>1, <1>10 DEF HostSends, HostOpens, HostCloses, devVars
<1>11. CASE Tick
  <2>1. Today' >= Today /\ Today' \in Nat
    BY <1>11, BoundAssumption DEF Tick, Today, IInv, TypeOK, DataOK
  <2>2. CASE Today' = Today
    BY <1>11, <2>2 DEF Tick, devVars, FiredToday
  <2>3. CASE Today' > Today
    <3>1. wakeDays' = wakeDays
      BY <1>11 DEF Tick, devVars
    <3>2. \A d \in wakeDays : d < Today'
      BY <2>1, <2>3
    <3> QED BY <2>1, <3>1, <3>2
  <2> QED BY <2>1, <2>2, <2>3
<1>12. CASE UNCHANGED vars
  BY <1>1, <1>12 DEF vars
<1> QED
  BY <1>2, <1>3, <1>4, <1>5, <1>6, <1>7, <1>8, <1>9, <1>10, <1>11, <1>12
     DEF Next, Firmware, Environment, SerialTask, SchedTask

LEMMA StepIInv == ASSUME IInv, [Next]_vars PROVE IInv'
  BY FlagsStep, DataStep, QuietStep, CountedStep, RememberedStep DEF IInv, TypeOK

LEMMA SpecIInv == Spec => []IInv
  BY InitIInv, StepIInv, PTL DEF Spec

-----------------------------------------------------------------------------

(* Every variable keeps its type, the FIFO its capacity and the attempt    *)
(* counter its byte, for every configuration with retry_count up to 255.   *)
THEOREM TypeCorrect == Spec => []TypeOK
  BY SpecIInv, PTL DEF IInv

(* dispatch_command's cancel is final: no order of host commands, wakes    *)
(* and power cuts makes boot unlock go on after a known command.           *)
THEOREM BootUnlockIsSilenced == Spec => BootQuietOnceHeard
<1>1. ASSUME IInv, [Next]_vars, heard, heard'
      PROVE  bootState' \in {bootState, "DONE"} /\ bootTypings' = bootTypings
  <2> USE DEF bootVars
  <2>1. CASE BootTask
    BY <1>1, <2>1
       DEF IInv, Quiet, BootTask, BootFires, BootStep, BootIdle, BootNotYet,
           BootShift1, BootShift2, BootType, BootNoPin, BootCancel, BootEnter,
           BootJudge, BootPending
  <2>2. CASE FlashReboot \/ PowerCut
    BY <1>1, <2>2 DEF FlashReboot, PowerCut, PowerUp
  <2>3. CASE UsbTask \/ UsbNested \/ SchedTask
    BY <2>3 DEF UsbTask, UsbNested, UsbDelivers, SchedTask, SchedStep, SchedIdle, SchedNotDue,
                SchedWake, WakeWaitOver, WakeEnter
  <2>4. CASE SerialTask /\ ~FlashReboot
    BY <2>4
       DEF SerialTask, SerialIdle, SerialText, FlashBytes, LinesDone, Unlock,
           Hello, TypingLine, HandlerReturns, SetupPin, Clear, SetConfig,
           Flash, OtherLine, Dispatch
  <2>5. CASE HostSends \/ HostOpens \/ HostCloses \/ Tick \/ UNCHANGED vars
    BY <2>5 DEF HostSends, HostOpens, HostCloses, Tick, devVars, vars
  <2> QED
    BY <1>1, <2>1, <2>2, <2>3, <2>4, <2>5 DEF Next, Firmware, Environment
<1>2. IInv /\ [Next]_vars =>
        [heard /\ heard' => /\ bootState' \in {bootState, "DONE"}
                            /\ bootTypings' = bootTypings]_vars
  BY <1>1
<1> QED BY <1>2, SpecIInv, PTL DEF Spec, BootQuietOnceHeard

(* Boot unlock never types the PIN more often than retry_count allows.     *)
THEOREM BootUnlockIsBounded == Spec => BootTypingsWithinRetry
<1>1. ASSUME IInv, [Next]_vars, bootTypings' > bootTypings
      PROVE  bootTypings' <= AttemptLimit(config.retry)
  <2> USE DEF bootVars
  <2>0. bootTypings \in Nat /\ attempt \in Nat
    BY <1>1 DEF IInv, TypeOK, DataOK
  <2>1. BootType
    <3>0. ~(bootTypings' = bootTypings)
      BY <1>1, <2>0
    <3>1. BootTask => BootType \/ bootTypings' = bootTypings
      BY DEF BootTask, BootFires, BootIdle, BootNotYet, BootShift1, BootShift2,
             BootNoPin, BootCancel, BootEnter, BootJudge
    <3>2. CASE FlashReboot \/ PowerCut
      BY <1>1, <2>0, <3>2 DEF FlashReboot, PowerCut, PowerUp, BootUnlockStart
    <3>3. UsbTask \/ UsbNested \/ SchedTask => bootTypings' = bootTypings
      BY DEF UsbTask, UsbNested, UsbDelivers, SchedTask, SchedStep, SchedIdle,
             SchedNotDue, SchedWake, WakeWaitOver, WakeEnter
    <3>4. SerialTask /\ ~FlashReboot => bootTypings' = bootTypings
      BY DEF SerialTask, SerialIdle, SerialText, FlashBytes, LinesDone, Unlock,
             Hello, TypingLine, HandlerReturns, SetupPin, Clear, SetConfig,
             Flash, OtherLine, Dispatch
    <3>5. CASE HostSends \/ HostOpens \/ HostCloses \/ Tick \/ UNCHANGED vars
      BY <1>1, <2>0, <3>5 DEF HostSends, HostOpens, HostCloses, Tick, devVars, vars
    <3> QED
      BY <1>1, <3>0, <3>1, <3>2, <3>3, <3>4, <3>5 DEF Next, Firmware, Environment
  <2>2. ~heard /\ bootState = "SHIFT_2" /\ loc = "boot" /\ bootTypings' = bootTypings + 1
    BY <1>1, <2>1 DEF BootType, BootPending, BootStep, IInv, Quiet
  <2>3. bootTypings <= attempt /\ attempt < AttemptLimit(config.retry)
    BY <1>1, <2>2 DEF IInv, Counted
  <2>4. AttemptLimit(config.retry) \in 1..255
    BY <1>1, LimitType DEF IInv, TypeOK, DataOK
  <2> DEFINE limit == AttemptLimit(config.retry)
  <2> HIDE DEF limit
  <2>5. limit \in Nat /\ bootTypings <= attempt /\ attempt < limit
    BY <2>3, <2>4 DEF limit
  <2>6. bootTypings + 1 <= limit
    BY <2>0, <2>5
  <2> QED BY <2>2, <2>6 DEF limit
<1>2. IInv /\ [Next]_vars =>
        [bootTypings' > bootTypings => bootTypings' <= AttemptLimit(config.retry)]_vars
  BY <1>1
<1> QED BY <1>2, SpecIInv, PTL DEF Spec, BootTypingsWithinRetry

(* A wake fires at most once a day and power cycle.                        *)
THEOREM WakesOnceADay == Spec => OneWakePerDay
<1>1. ASSUME IInv, [Next]_vars, loc' = "wake", loc # "wake"
      PROVE  Today \notin wakeDays
  <2>1. SchedWake
    <3>1. CASE SchedTask
      BY <1>1, <3>1 DEF SchedTask, SchedStep, SchedIdle, SchedNotDue,
                        WakeWaitOver, WakeEnter
    <3>2. CASE FlashReboot \/ PowerCut
      BY <1>1, <3>2 DEF FlashReboot, PowerCut, PowerUp
    <3>3. CASE UsbTask \/ UsbNested \/ BootTask
      BY <1>1, <3>3
         DEF UsbTask, UsbNested, UsbDelivers, BootTask, BootFires, BootStep, BootIdle, BootNotYet,
             BootShift1, BootShift2, BootType, BootNoPin, BootCancel,
             BootEnter, BootJudge
    <3>4. CASE SerialTask /\ ~FlashReboot
      BY <1>1, <3>4
         DEF SerialTask, SerialIdle, SerialText, FlashBytes, LinesDone, Unlock,
             Hello, TypingLine, HandlerReturns, SetupPin, Clear, SetConfig,
             Flash, OtherLine
    <3>5. CASE HostSends \/ HostOpens \/ HostCloses \/ Tick \/ UNCHANGED vars
      BY <1>1, <3>5 DEF HostSends, HostOpens, HostCloses, Tick, devVars, vars
    <3> QED
      BY <1>1, <3>1, <3>2, <3>3, <3>4, <3>5 DEF Next, Firmware, Environment
  <2>2. ~FiredToday
    BY <2>1 DEF SchedWake, WakeDue
  <2> QED BY <1>1, <2>2 DEF IInv, Remembered
<1>2. IInv /\ [Next]_vars => [loc' = "wake" /\ loc # "wake" => Today \notin wakeDays]_vars
  BY <1>1
<1> QED BY <1>2, SpecIInv, PTL DEF Spec, OneWakePerDay
=============================================================================
