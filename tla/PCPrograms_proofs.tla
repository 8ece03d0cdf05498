------------------------- MODULE PCPrograms_proofs --------------------------
(***************************************************************************)
(* Proofs about two programs of the PC that share nothing but the device:  *)
(* AutoUpdate, for every number of releases and of ends of the process,    *)
(* and SettingsApp, for every number of threads and of times the device is *)
(* plugged in.                                                             *)
(***************************************************************************)
EXTENDS AutoUpdate, SettingsApp, TLAPS

(***************************************************************************)
(*                               AutoUpdate                                *)
(***************************************************************************)

(* The file of the running image cannot be deleted and is only renamed.    *)
ImageIsWhole ==
  /\ image = "exe" => Whole(exe)
  /\ image = "old" => Whole(old)
  /\ step = "replace" => image = "old" /\ exe = Absent

(* Versions only go up: a file that replaces another one is not older.     *)
Ordered ==
  /\ etag <= latest /\ found <= latest /\ running <= latest
  /\ Whole(exe) => running <= exe /\ exe <= latest
  /\ Whole(new) => running <= new /\ new <= latest
  /\ Whole(exe) /\ Whole(new) => exe <= new

(* What a check has found is newer than what is there, and is the release  *)
(* of the cached ETag if that is still the latest.                         *)
CheckIsLatest ==
  /\ step \in {"software", "staging"} => running < found
  /\ step \in Checking => (Whole(exe) => exe <= found) /\ (etag = latest => found = latest)

Taken == latest \in {running, exe, new} \cup tried

(* A copy that was not finished has been tried, also if it is put in place *)
(* of the latest release.                                                  *)
PartWasTried == new = Part /\ step # "staging" /\ exe = latest => latest \in tried

SeenIsTaken ==
  step \notin {"manifest", "software", "staging"} /\ etag = latest => Taken

UpdateInv == UpdateTypeOK /\ ImageIsWhole /\ Ordered /\ CheckIsLatest /\ PartWasTried /\ SeenIsTaken

-----------------------------------------------------------------------------
(* The inductive invariant                                                 *)

LEMMA InitUpdateInv == UpdateInit => UpdateInv
<1> SUFFICES ASSUME UpdateInit PROVE UpdateInv
  OBVIOUS
<1>1. MaxRelease \in Nat \ {0} /\ MaxExits \in Nat
  BY BoundAssumption
<1>2. UpdateTypeOK
  BY <1>1 DEF UpdateInit, UpdateTypeOK, Releases, Places, Absent
<1> QED BY <1>1, <1>2 DEF UpdateInit, UpdateInv, ImageIsWhole, Ordered, CheckIsLatest, PartWasTried,
                          SeenIsTaken, Taken, Whole, Releases, Absent, Part, Checking

LEMMA NextUpdateInv == UpdateInv /\ [UpdateNext]_updateVars => UpdateInv'
<1> SUFFICES ASSUME UpdateInv, [UpdateNext]_updateVars PROVE UpdateInv'
  OBVIOUS
<1> USE BoundAssumption DEF UpdateInv, UpdateTypeOK, ImageIsWhole, Ordered, CheckIsLatest, PartWasTried,
        SeenIsTaken, Taken, Whole, Releases, Absent, Part, Checking, Places,
        page, process, files, Failed, Goto
<1>1. CASE DeleteOld
  BY <1>1 DEF DeleteOld
<1>2. CASE MoveAside
  BY <1>2 DEF MoveAside
<1>3. CASE PutInPlace
  <2>1. UpdateTypeOK' /\ ImageIsWhole' /\ Ordered' /\ CheckIsLatest' /\ PartWasTried'
    BY <1>3 DEF PutInPlace
  <2>2. exe = Absent /\ latest # Absent
    BY <1>3 DEF PutInPlace
  <2>3. SeenIsTaken'
    BY <1>3, <2>2 DEF PutInPlace
  <2> QED BY <2>1, <2>3
<1>4. CASE CleanedUp
  BY <1>4 DEF CleanedUp
<1>5. CASE Rearm
  BY <1>5 DEF Rearm
<1>6. CASE Check
  BY <1>6 DEF Check, Unseen, SaveEtag
<1>7. CASE CheckFails
  BY <1>7 DEF CheckFails
<1>8. CASE Compare
  BY <1>8 DEF Compare, Older
<1>9. CASE NotStaged
  BY <1>9 DEF NotStaged
<1>10. CASE CopyBegins
  BY <1>10 DEF CopyBegins
<1>11. CASE Staged
  <2>1. tried' \subseteq Releases /\ new' \in Releases \cup {Absent, Part}
    BY <1>11 DEF Staged
  <2>2. UpdateTypeOK'
    BY <1>11, <2>1 DEF Staged
  <2>3. ImageIsWhole' /\ Ordered' /\ CheckIsLatest' /\ PartWasTried' /\ SeenIsTaken'
    BY <1>11, <2>1 DEF Staged
  <2> QED BY <2>2, <2>3
<1>12. CASE NoFirmware
  BY <1>12 DEF NoFirmware, Older
<1>13. CASE Push
  BY <1>13 DEF Push, Older
<1>14. CASE PushEnds
  BY <1>14 DEF PushEnds
<1>15. CASE Publish
  BY <1>15 DEF Publish
<1>16. CASE Exit
  <2>1. tried' \subseteq Releases /\ tried \subseteq tried'
    BY <1>16 DEF Exit
  <2>2. exits' \in 0..MaxExits
    BY <1>16 DEF Exit
  <2>3. UpdateTypeOK'
    BY <1>16, <2>1, <2>2 DEF Exit
  <2>4. ImageIsWhole' /\ Ordered' /\ CheckIsLatest' /\ PartWasTried'
    BY <1>16, <2>1 DEF Exit
  <2>5. SeenIsTaken'
    BY <1>16, <2>1 DEF Exit
  <2> QED BY <2>3, <2>4, <2>5
<1>17. CASE Start
  BY <1>17 DEF Start
<1>18. CASE UNCHANGED updateVars
  BY <1>18 DEF updateVars
<1> QED BY <1>1, <1>2, <1>3, <1>4, <1>5, <1>6, <1>7, <1>8, <1>9, <1>10, <1>11, <1>12, <1>13, <1>14, <1>15, <1>16, <1>17, <1>18 DEF UpdateNext, Cleanup, Updating

LEMMA UpdateInvariance == UpdateSpec => []UpdateInv
<1> QED BY InitUpdateInv, NextUpdateInv, PTL DEF UpdateSpec

-----------------------------------------------------------------------------
(* Theorems                                                                *)

(* Every variable of the updater stays within its type.                    *)
THEOREM UpdateTypeCorrect == UpdateSpec => []UpdateTypeOK
<1>1. UpdateInv => UpdateTypeOK
  BY DEF UpdateInv
<1> QED BY <1>1, UpdateInvariance, PTL

(* apply_software_update's copy, cleanup_old_update's renames, failures of  *)
(* them and an end of the process between them never leave the machine     *)
(* without a whole executable: the image that runs is one.                 *)
THEOREM ExecutableSurvives == UpdateSpec => []WholeCopy
<1>1. UpdateInv => WholeCopy
  BY DEF UpdateInv, UpdateTypeOK, ImageIsWhole, WholeCopy
<1> QED BY <1>1, UpdateInvariance, PTL

(* A release whose ETag was cached before it was read is in use, in place, *)
(* staged, or something failed with it, however many releases follow.      *)
THEOREM SeenIsTakenOrFailed == UpdateSpec => []TakenOrFailed
<1>1. UpdateInv => TakenOrFailed
  BY DEF UpdateInv, SeenIsTaken, Taken, TakenOrFailed
<1> QED BY <1>1, UpdateInvariance, PTL

(* The release that is staged or in place is never older than the process. *)
THEOREM NoDowngrade == UpdateSpec => [](/\ Whole(exe) => running <= exe
                                       /\ Whole(new) => running <= new)
<1>1. UpdateInv => /\ Whole(exe) => running <= exe
                   /\ Whole(new) => running <= new
  BY DEF UpdateInv, Ordered
<1> QED BY <1>1, UpdateInvariance, PTL

-----------------------------------------------------------------------------
(***************************************************************************)
(*                              SettingsApp                                *)
(***************************************************************************)

Results == PollResults \cup StepResults \cup {"stale"}
JobState == [at : JobPlaces, mine : BOOLEAN]

ThreadsTyped ==
  /\ holder \in {"none", "app"} \cup Jobs
  /\ polls \in [Polls -> {"idle", "detecting", "yes", "no"}]
  /\ jobs \in [Jobs -> JobState] /\ queue \in Seq(Results)

ScreenTyped ==
  /\ usb \in {"out", "serial", "bootsel"} /\ plugs \in 0..MaxPlugs
  /\ screen \in {"disconnected", "wizard", "closed"} /\ index \in {0, 1}
  /\ flash \in {"hidden", "shown", "used"}

FlagsTyped == conn \in BOOLEAN /\ detected \in BOOLEAN /\ again \in BOOLEAN /\ next \in BOOLEAN

LEMMA AtTyped ==
  ASSUME ThreadsTyped, NEW j \in Jobs, NEW place \in JobPlaces, At(j, place)
  PROVE  jobs' \in [Jobs -> JobState]
  BY DEF ThreadsTyped, At, JobState

LEMMA PostTyped ==
  ASSUME ThreadsTyped, NEW j \in Jobs, NEW what \in Results, Post(j, what)
  PROVE  jobs' \in [Jobs -> JobState] /\ queue' \in Seq(Results)
<1>1. Idle \in JobState
  BY DEF Idle, JobState, JobPlaces
<1> QED  BY <1>1 DEF ThreadsTyped, Post

LEMMA SpawnTyped ==
  ASSUME ThreadsTyped, NEW place \in JobPlaces, Spawn(place)
  PROVE  jobs' \in [Jobs -> JobState]
  BY DEF ThreadsTyped, Spawn, JobState

LEMMA DisconnectedTyped ==
  ASSUME ThreadsTyped, NEW rest \in Seq(Results), Disconnected(rest)
  PROVE  jobs' \in [Jobs -> JobState] /\ queue' \in Seq(Results)
<1>1. jobs' \in [Jobs -> JobState]
  BY DEF ThreadsTyped, Disconnected, JobState
<1>2. queue' = [k \in 1..Len(rest) |-> IF rest[k] \in PollResults THEN rest[k] ELSE "stale"]
  BY DEF Disconnected
<1>3. \A k \in 1..Len(rest) :
        (IF rest[k] \in PollResults THEN rest[k] ELSE "stale") \in Results
  BY DEF Results
<1>4. Len(rest) \in Nat
  OBVIOUS
<1> QED  BY <1>1, <1>2, <1>3, <1>4

LEMMA JobsTyped ==
  ASSUME ThreadsTyped, NEW j \in Jobs, Job(j)
  PROVE  ThreadsTyped'
<1>1. jobs[j].at \in JobPlaces
  BY DEF ThreadsTyped, JobState
<1>2. CASE JobOpens(j)
  <2>1. \E place \in JobPlaces : At(j, place)
    BY <1>2 DEF JobOpens, JobPlaces
  <2> QED  BY <1>2, <2>1, AtTyped DEF JobOpens, ThreadsTyped
<1>3. CASE JobCloses(j)
  <2>1. holder' \in {"none", "app"} \cup Jobs /\ polls' = polls
    BY <1>3 DEF JobCloses, ThreadsTyped
  <2>2. CASE jobs[j].at = "waking" /\ holder # j
    <3>1. At(j, "reboot") /\ queue' = queue /\ "reboot" \in JobPlaces
      BY <1>3, <2>2 DEF JobCloses, JobPlaces
    <3> QED  BY <2>1, <3>1, AtTyped DEF ThreadsTyped
  <2>3. CASE ~(jobs[j].at = "waking" /\ holder # j)
    <3>1. \E what \in Results : Post(j, what)
      BY <1>3, <2>3 DEF JobCloses, Results, StepResults
    <3> QED  BY <2>1, <3>1, PostTyped DEF ThreadsTyped
  <2> QED  BY <2>2, <2>3
<1>4. CASE JobFindsNone(j)
  <2>1. \E what \in Results : Post(j, what)
    BY <1>4 DEF JobFindsNone, Results, StepResults
  <2> QED  BY <1>4, <2>1, PostTyped DEF JobFindsNone, ThreadsTyped
<1>5. CASE JobFlashes(j)
  <2>1. At(j, "reboot") /\ "reboot" \in JobPlaces
    BY <1>5 DEF JobFlashes, JobPlaces
  <2> QED  BY <1>5, <2>1, AtTyped DEF JobFlashes, ThreadsTyped
<1>6. CASE JobGivesUp(j)
  BY <1>6 DEF JobGivesUp, ThreadsTyped, JobState, Idle, JobPlaces
<1> QED  BY <1>2, <1>3, <1>4, <1>5, <1>6 DEF Job

LEMMA AppThreadsTyped ==
  ASSUME ThreadsTyped, [Next]_vars
  PROVE  ThreadsTyped'
<1>1. CASE Plug \/ Unplug \/ UNCHANGED vars
  BY <1>1 DEF Plug, Unplug, deviceSide, vars, ThreadsTyped
<1>2. ASSUME NEW p \in Polls, Poll(p) PROVE ThreadsTyped'
  <2>1. CASE PollStarts(p)
    BY <2>1 DEF PollStarts, ThreadsTyped
  <2>2. CASE PollDetects(p)
    BY <2>2 DEF PollDetects, Detect, ThreadsTyped
  <2>3. CASE PollPosts(p)
    BY <2>3 DEF PollPosts, ThreadsTyped, Results, PollResults
  <2> QED  BY <1>2, <2>1, <2>2, <2>3 DEF Poll
<1>3. ASSUME NEW j \in Jobs, Job(j) PROVE ThreadsTyped'
  BY <1>3, JobsTyped
<1>4. ASSUME queue # <<>> PROVE Tail(queue) \in Seq(Results)
  BY <1>4 DEF ThreadsTyped
<1>5. {"detect", "flash", "test"} \subseteq JobPlaces
  BY DEF JobPlaces
<1>6. CASE PollResult
  <2>1. UNCHANGED <<holder, polls>>
    BY <1>6 DEF PollResult
  <2>2. /\ queue # <<>>
        /\ \/ Spawn("detect") /\ queue' = Tail(queue)
           \/ Disconnected(Tail(queue))
           \/ queue' = Tail(queue) /\ jobs' = jobs
    BY <1>6 DEF PollResult, ShowsWizard
  <2> QED  BY <1>4, <1>5, <2>1, <2>2, SpawnTyped, DisconnectedTyped DEF ThreadsTyped
<1>7. CASE StepResult \/ StaleResult
  <2>1. queue # <<>> /\ queue' = Tail(queue) /\ UNCHANGED <<holder, polls, jobs>>
    BY <1>7 DEF StepResult, StaleResult
  <2> QED  BY <1>4, <2>1 DEF ThreadsTyped
<1>8. CASE Proceed
  BY <1>8 DEF Proceed, ThreadsTyped
<1>9. CASE GoBack \/ DetectAgain \/ Flash \/ StartTests
  <2>1. /\ UNCHANGED <<holder, polls, queue>>
        /\ Spawn("detect") \/ Spawn("flash") \/ Spawn("test")
    BY <1>9 DEF GoBack, DetectAgain, Detects, Flash, StartTests
  <2> QED  BY <1>5, <2>1, SpawnTyped DEF ThreadsTyped
<1>10. CASE Cancel
  <2>1. polls' = polls /\ holder' \in {"none", "app"} \cup Jobs /\ Disconnected(queue)
    BY <1>10 DEF Cancel, Detect, ThreadsTyped
  <2> QED  BY <2>1, DisconnectedTyped DEF ThreadsTyped
<1>11. CASE Close
  BY <1>11 DEF Close, ThreadsTyped, JobState, Idle, JobPlaces
<1> QED
  BY <1>1, <1>2, <1>3, <1>6, <1>7, <1>8, <1>9, <1>10, <1>11 DEF Next, Callback, User

LEMMA AppScreenTyped ==
  ASSUME ScreenTyped, FlagsTyped, [Next]_vars
  PROVE  ScreenTyped' /\ FlagsTyped'
<1> USE PlugsAssumption DEF ScreenTyped, FlagsTyped
<1>1. CASE Plug \/ Unplug \/ UNCHANGED vars
  <2>1. UNCHANGED <<conn, screen, wizardVars>>
    BY <1>1 DEF Plug, Unplug, vars
  <2>2. usb' \in {"out", "serial", "bootsel"} /\ plugs' \in 0..MaxPlugs
    BY <1>1 DEF Plug, Unplug, vars, deviceSide
  <2> QED  BY <2>1, <2>2 DEF wizardVars
<1>2. ASSUME NEW p \in Polls, Poll(p) PROVE ScreenTyped' /\ FlagsTyped'
  <2>1. UNCHANGED <<deviceSide, screen, wizardVars>> /\ (conn' = conn \/ conn' \in BOOLEAN)
    BY <1>2 DEF Poll, PollStarts, PollDetects, PollPosts, Detect
  <2> QED  BY <2>1 DEF deviceSide, wizardVars
<1>3. ASSUME NEW j \in Jobs, Job(j) PROVE ScreenTyped' /\ FlagsTyped'
  <2>1. /\ UNCHANGED <<plugs, conn, screen, wizardVars>>
        /\ usb' = usb \/ usb' = "serial"
    BY <1>3 DEF Job, JobOpens, JobCloses, JobFindsNone, JobFlashes, JobGivesUp, deviceSide
  <2> QED  BY <2>1 DEF wizardVars
<1>4. ASSUME NEW rest, Disconnected(rest), deviceSide' = deviceSide, conn' \in BOOLEAN
      PROVE  ScreenTyped' /\ FlagsTyped'
  <2>1. FlagsTyped'
    BY <1>4 DEF Disconnected
  <2> QED  BY <1>4, <2>1 DEF Disconnected, deviceSide
<1>5. CASE PollResult
  <2>1. UNCHANGED <<deviceSide, conn>>
    BY <1>5 DEF PollResult
  <2>2. \/ Disconnected(Tail(queue))
        \/ screen' \in {screen, "wizard"} /\ UNCHANGED wizardVars
    BY <1>5 DEF PollResult, ShowsWizard
  <2> QED  BY <1>4, <2>1, <2>2 DEF deviceSide, wizardVars
<1>6. CASE StepResult \/ StaleResult
  <2>1. UNCHANGED <<deviceSide, conn, screen, index>>
    BY <1>6 DEF StepResult, StaleResult, wizardVars
  <2>2. flash' \in {"hidden", "shown", "used"}
    BY <1>6 DEF StepResult, StaleResult, HidesFlash, wizardVars
  <2>3. detected' \in BOOLEAN
    BY <1>6 DEF StepResult, StaleResult, wizardVars
  <2>4. again' \in BOOLEAN
    BY <1>6 DEF StepResult, StaleResult, wizardVars
  <2>5. next' \in BOOLEAN
    BY <1>6 DEF StepResult, StaleResult, wizardVars
  <2> QED  BY <2>1, <2>2, <2>3, <2>4, <2>5 DEF deviceSide
<1>7. CASE User
  <2>1. CASE Proceed
    <3>1. next' = FALSE /\ index' = 1 /\ UNCHANGED <<deviceSide, conn, screen, detected, again, flash>>
      BY <2>1 DEF Proceed
    <3>2. next' \in BOOLEAN
      BY <3>1
    <3> QED  BY <3>1, <3>2 DEF deviceSide
  <2>2. CASE GoBack \/ DetectAgain
    <3>1. /\ again' = FALSE /\ UNCHANGED <<deviceSide, conn, screen, detected, next>>
          /\ index' \in {index, 0} /\ flash' \in {"used", "hidden"}
      BY <2>2 DEF GoBack, DetectAgain, Detects, HidesFlash
    <3>2. again' \in BOOLEAN
      BY <3>1
    <3> QED  BY <3>1, <3>2 DEF deviceSide
  <2>3. CASE Flash
    BY <2>3 DEF Flash, deviceSide
  <2>4. CASE StartTests
    <3>1. next' = FALSE /\ UNCHANGED <<deviceSide, conn, screen, index, detected, again, flash>>
      BY <2>4 DEF StartTests
    <3>2. next' \in BOOLEAN
      BY <3>1
    <3> QED  BY <3>1, <3>2 DEF deviceSide
  <2>5. CASE Cancel
    <3>1. Disconnected(queue) /\ deviceSide' = deviceSide /\ conn' \in BOOLEAN
      BY <2>5 DEF Cancel, Detect
    <3> QED  BY <1>4, <3>1
  <2>7. CASE Close
    <3>1. conn' \in BOOLEAN /\ screen' = "closed" /\ UNCHANGED <<deviceSide, wizardVars>>
      BY <2>7 DEF Close
    <3> QED  BY <3>1 DEF deviceSide, wizardVars
  <2> QED  BY <1>7, <2>1, <2>2, <2>3, <2>4, <2>5, <2>7 DEF User
<1> QED  BY <1>1, <1>2, <1>3, <1>5, <1>6, <1>7 DEF Next, Callback

(* Every variable of the settings program has its type: no callback, late  *)
(* or of a wizard that is gone, takes it beyond the steps that can be      *)
(* reached.                                                                *)
THEOREM AppTypeCorrect == Spec => []TypeOK
<1>1. Init => ThreadsTyped /\ ScreenTyped /\ FlagsTyped
  <2> SUFFICES ASSUME Init PROVE ThreadsTyped /\ ScreenTyped /\ FlagsTyped
    OBVIOUS
  <2>1. ThreadsTyped
    BY DEF Init, ThreadsTyped, JobState, Idle, JobPlaces
  <2>2. ScreenTyped
    BY PlugsAssumption DEF Init, ScreenTyped
  <2>3. FlagsTyped
    BY DEF Init, FlagsTyped
  <2> QED  BY <2>1, <2>2, <2>3
<1>2. ThreadsTyped /\ ScreenTyped /\ FlagsTyped /\ [Next]_vars
      => (ThreadsTyped /\ ScreenTyped /\ FlagsTyped)'
  BY AppThreadsTyped, AppScreenTyped
<1>3. ThreadsTyped /\ ScreenTyped /\ FlagsTyped => TypeOK
  BY DEF ThreadsTyped, ScreenTyped, FlagsTyped, TypeOK, JobState, Results
<1> QED  BY <1>1, <1>2, <1>3, PTL DEF Spec

=============================================================================
