----------------------------- MODULE SettingsApp ----------------------------
(***************************************************************************)
(* The settings program (gui/app.py) with the wizard's first two steps     *)
(* (gui/wizard): threads that poll for the device every two seconds and    *)
(* threads of the wizard that look for it themselves compete for its port, *)
(* which one of them at a time can open, and post their results to the     *)
(* main loop, where they may come late.                                    *)
(*                                                                         *)
(* No configuration has "pin_set", and the second step uses commands that  *)
(* Command does not have: the settings panel and the last two steps are    *)
(* never shown.  What the panel's handlers and the language button have the  *)
(* device save is in Storage.                                              *)
(***************************************************************************)
EXTENDS Naturals, Sequences

CONSTANTS
  Polls,    \* bound: poll threads and their results at a time
  Jobs,     \* bound: threads of wizard steps and their results at a time
  MaxPlugs  \* bound: times the device is plugged in

ASSUME PlugsAssumption == MaxPlugs \in Nat

VARIABLES
  usb,       \* the device: "out", "serial" or "bootsel"
  plugs,     \* times it was plugged in
  holder,    \* who has the port open: "none", "app" or a job
  conn,      \* _PicoConnection takes its device for connected
  polls,     \* where each poll thread is
  jobs,      \* where each thread of a step is, and whether its wizard is shown
  queue,     \* callbacks posted to the main loop
  screen,    \* _state, or "closed"
  index,     \* the wizard's _current_index
  detected,  \* DeviceStep's _detected
  again,     \* its Detect button is shown
  flash,     \* its Flash button: "hidden", "shown", or "used" once and for all
  next       \* the Next button is enabled

deviceSide == <<usb, plugs>>
wizardVars == <<index, detected, again, flash, next>>
vars == <<deviceSide, holder, conn, polls, jobs, queue, screen, wizardVars>>

Idle == [at |-> "idle", mine |-> FALSE]

Init ==
  /\ usb = "out" /\ plugs = 0 /\ holder = "none" /\ conn = FALSE
  /\ polls = [p \in Polls |-> "idle"] /\ jobs = [j \in Jobs |-> Idle]
  /\ queue = <<>> /\ screen = "disconnected"
  /\ index = 0 /\ detected = FALSE /\ again = FALSE /\ flash = "hidden" /\ next = TRUE

-----------------------------------------------------------------------------
(* The device on the bus                                                   *)

Plug ==
  /\ usb = "out" /\ plugs < MaxPlugs
  /\ plugs' = plugs + 1
  /\ usb' \in {"serial", "bootsel"}
  /\ UNCHANGED <<holder, conn, polls, jobs, queue, screen, wizardVars>>

(* The open port becomes useless; _PicoConnection does not know yet.       *)
Unplug ==
  /\ usb # "out"
  /\ usb' = "out" /\ holder' = "none"
  /\ UNCHANGED <<plugs, conn, polls, jobs, queue, screen, wizardVars>>

PollResults == {"yes", "no"}
StepResults == {"found", "notFound", "bootsel", "tested"}
Waiting(results) == \E n \in DOMAIN queue : queue[n] \in results

-----------------------------------------------------------------------------
(* Polling                                                                 *)

Free == usb = "serial" /\ holder = "none"

(* _PicoConnection.detect, under its lock: it is connected, or connects.   *)
Detect(yes) ==
  /\ yes = (holder = "app" \/ Free)
  /\ conn' = yes
  /\ holder' = IF yes THEN "app" ELSE holder

PollStarts(p) ==
  /\ screen # "closed" /\ polls[p] = "idle" /\ ~Waiting(PollResults)
  /\ polls' = [polls EXCEPT ![p] = "detecting"]
  /\ UNCHANGED <<deviceSide, holder, conn, jobs, queue, screen, wizardVars>>

\* Mutant: a connection that was made is not tried again.
PollDetects_Trusting(p) ==
  /\ polls[p] = "detecting"
  /\ \E yes \in BOOLEAN :
       /\ IF conn THEN yes /\ UNCHANGED <<conn, holder>> ELSE Detect(yes)
       /\ polls' = [polls EXCEPT ![p] = IF yes THEN "yes" ELSE "no"]
  /\ UNCHANGED <<deviceSide, jobs, queue, screen, wizardVars>>

PollDetects(p) ==
  /\ polls[p] = "detecting"
  /\ \E yes \in BOOLEAN :
       /\ Detect(yes)
       /\ polls' = [polls EXCEPT ![p] = IF yes THEN "yes" ELSE "no"]
  /\ UNCHANGED <<deviceSide, jobs, queue, screen, wizardVars>>

PollPosts(p) ==
  /\ polls[p] \in {"yes", "no"}
  /\ queue' = Append(queue, polls[p])
  /\ polls' = [polls EXCEPT ![p] = "idle"]
  /\ UNCHANGED <<deviceSide, holder, conn, jobs, screen, wizardVars>>

Poll(p) == PollStarts(p) \/ PollDetects(p) \/ PollPosts(p)

-----------------------------------------------------------------------------
(* The threads of DeviceStep and TestStep                                  *)

At(j, place) == jobs' = [jobs EXCEPT ![j].at = place]

(* A callback of a wizard that is destroyed fails at its first label.      *)
Post(j, what) ==
  /\ queue' = IF jobs[j].mine THEN Append(queue, what) ELSE queue
  /\ jobs' = [jobs EXCEPT ![j] = Idle]

(* _find_pico_com, or a test, opens a port of its own ...                  *)
JobOpens(j) ==
  /\ jobs[j].at \in {"detect", "reboot", "test"} /\ Free
  /\ holder' = j
  /\ At(j, CASE jobs[j].at = "detect" -> "asking"
             [] jobs[j].at = "reboot" -> "waking"
             [] jobs[j].at = "test"   -> "typing")
  /\ UNCHANGED <<deviceSide, conn, polls, queue, screen, wizardVars>>

(* ... and closes it, whether the device has answered or gone.             *)
JobCloses(j) ==
  /\ jobs[j].at \in {"asking", "waking", "typing"}
  /\ holder' = IF holder = j THEN "none" ELSE holder
  /\ IF jobs[j].at = "waking" /\ holder # j
     THEN At(j, "reboot") /\ UNCHANGED queue
     ELSE Post(j, IF jobs[j].at = "typing" THEN "tested"
                  ELSE IF holder = j THEN "found" ELSE "notFound")
  /\ UNCHANGED <<deviceSide, conn, polls, screen, wizardVars>>

(* find_bootsel_drive                                                      *)
BootselDrive == usb = "bootsel"

JobFindsNone(j) ==
  /\ jobs[j].at \in {"detect", "test"} /\ ~Free
  /\ Post(j, IF jobs[j].at = "test" THEN "tested"
             ELSE IF BootselDrive THEN "bootsel" ELSE "notFound")
  /\ UNCHANGED <<deviceSide, holder, conn, polls, screen, wizardVars>>

(* The firmware is copied, the device reboots, and is waited for.          *)
JobFlashes(j) ==
  /\ jobs[j].at = "flash" /\ BootselDrive
  /\ usb' = "serial"
  /\ At(j, "reboot")
  /\ UNCHANGED <<plugs, holder, conn, polls, queue, screen, wizardVars>>

(* No drive, no firmware to copy, or no device within 30 s.                *)
JobGivesUp(j) ==
  /\ jobs[j].at \in {"flash", "reboot"}
  /\ jobs' = [jobs EXCEPT ![j] = Idle]
  /\ UNCHANGED <<deviceSide, holder, conn, polls, queue, screen, wizardVars>>

Job(j) == JobOpens(j) \/ JobCloses(j) \/ JobFindsNone(j) \/ JobFlashes(j) \/ JobGivesUp(j)

-----------------------------------------------------------------------------
(* The main loop                                                           *)

Spawn(place) == \E j \in Jobs :
  /\ jobs[j].at = "idle" /\ ~Waiting(StepResults)
  /\ jobs' = [jobs EXCEPT ![j] = [at |-> place, mine |-> TRUE]]

(* _clear_content: of the callbacks that are posted, those in rest, the    *)
(* wizard's are left without their labels.                                 *)
Disconnected(rest) ==
  /\ screen' = "disconnected"
  /\ index' = 0 /\ detected' = FALSE /\ again' = FALSE /\ flash' = "hidden" /\ next' = TRUE
  /\ jobs' = [j \in Jobs |-> [jobs[j] EXCEPT !.mine = FALSE]]
  /\ queue' = [k \in DOMAIN rest |-> IF rest[k] \in PollResults THEN rest[k] ELSE "stale"]

(* _show_wizard: its first step detects at once.                           *)
ShowsWizard == screen' = "wizard" /\ Spawn("detect")

(* _on_poll_result, with has_pin False.                                    *)
PollResult ==
  /\ queue # <<>> /\ Head(queue) \in PollResults
  /\ \/ Head(queue) = "yes" /\ screen = "disconnected"
        /\ ShowsWizard /\ queue' = Tail(queue)
        /\ UNCHANGED wizardVars
     \/ Head(queue) = "no" /\ screen = "wizard" /\ Disconnected(Tail(queue))
     \/ (Head(queue) = "yes") = (screen = "wizard")
        /\ queue' = Tail(queue) /\ UNCHANGED <<screen, jobs, wizardVars>>
  /\ UNCHANGED <<deviceSide, holder, conn, polls>>

HidesFlash == flash' = IF flash = "used" THEN "used" ELSE "hidden"

(* _show_com_found, _show_not_found and _finish_tests set the Next button  *)
(* of whatever step is shown by then; _show_bootsel leaves it.             *)
StepResult ==
  /\ queue # <<>> /\ queue' = Tail(queue)
  /\ \/ Head(queue) = "found"
        /\ detected' = TRUE /\ again' = FALSE /\ HidesFlash /\ next' = TRUE
     \/ Head(queue) = "notFound"
        /\ detected' = FALSE /\ again' = TRUE /\ next' = FALSE /\ UNCHANGED flash
     \/ Head(queue) = "bootsel"
        /\ detected' = FALSE /\ again' = TRUE /\ UNCHANGED next
        /\ flash' = IF flash = "used" THEN "used" ELSE "shown"
     \/ Head(queue) = "tested"
        /\ next' = FALSE /\ UNCHANGED <<detected, again, flash>>
  /\ UNCHANGED <<deviceSide, holder, conn, polls, jobs, screen, index>>

(* A callback of a wizard that has been destroyed fails.                   *)
StaleResult ==
  /\ queue # <<>> /\ Head(queue) = "stale" /\ queue' = Tail(queue)
  /\ UNCHANGED <<deviceSide, holder, conn, polls, jobs, screen, wizardVars>>

\* Mutant: the step is not asked whether it can be left.
Proceed_Unasked ==
  /\ screen = "wizard" /\ next
  /\ index' = index + 1 /\ next' = FALSE
  /\ UNCHANGED <<deviceSide, holder, conn, polls, jobs, queue, screen,
                 detected, again, flash>>

(* Buttons of the wizard.  A late result may enable Next on TestStep, of   *)
(* which can_proceed never holds; its on_enter disables Next.              *)
Proceed ==
  /\ screen = "wizard" /\ index = 0 /\ next /\ detected
  /\ index' = 1 /\ next' = FALSE
  /\ UNCHANGED <<deviceSide, holder, conn, polls, jobs, queue, screen,
                 detected, again, flash>>

(* DeviceStep's on_enter is _on_detect.                                    *)
Detects == Spawn("detect") /\ again' = FALSE /\ HidesFlash

GoBack ==
  /\ screen = "wizard" /\ index = 1
  /\ index' = 0 /\ Detects
  /\ UNCHANGED <<deviceSide, holder, conn, polls, queue, screen, detected, next>>

DetectAgain ==
  /\ screen = "wizard" /\ index = 0 /\ again
  /\ Detects
  /\ UNCHANGED <<deviceSide, holder, conn, polls, queue, screen, index, detected, next>>

Flash ==
  /\ screen = "wizard" /\ index = 0 /\ flash = "shown"
  /\ Spawn("flash") /\ flash' = "used"
  /\ UNCHANGED <<deviceSide, holder, conn, polls, queue, screen,
                 index, detected, again, next>>

(* A test that runs has disabled the button.                               *)
StartTests ==
  /\ screen = "wizard" /\ index = 1
  /\ \A j \in Jobs : jobs[j].mine => jobs[j].at \notin {"test", "typing"}
  /\ Spawn("test") /\ next' = FALSE
  /\ UNCHANGED <<deviceSide, holder, conn, polls, queue, screen,
                 index, detected, again, flash>>

(* _on_wizard_cancel detects in the main thread.                           *)
Cancel ==
  /\ screen = "wizard"
  /\ \E yes \in BOOLEAN : Detect(yes)
  /\ Disconnected(queue)
  /\ UNCHANGED <<deviceSide, polls>>

Close ==
  /\ screen # "closed"
  /\ screen' = "closed" /\ conn' = FALSE
  /\ holder' = "none" /\ queue' = <<>>
  /\ polls' = [p \in Polls |-> "idle"] /\ jobs' = [j \in Jobs |-> Idle]
  /\ UNCHANGED <<deviceSide, wizardVars>>

Callback == PollResult \/ StepResult \/ StaleResult
User == Proceed \/ GoBack \/ DetectAgain \/ Flash \/ StartTests \/ Cancel
        \/ Close

Next ==
  \/ Plug \/ Unplug
  \/ \E p \in Polls : Poll(p)
  \/ \E j \in Jobs : Job(j)
  \/ Callback \/ User

Spec == Init /\ [][Next]_vars

(* The timer polls, some thread of each kind goes on and the main loop     *)
(* takes the callbacks; the user need not do anything.                     *)
FairSpec ==
  /\ Spec
  /\ WF_vars(Callback)
  /\ WF_vars(\E p \in Polls : Poll(p))
  /\ WF_vars(\E j \in Jobs : Job(j))

-----------------------------------------------------------------------------
(* Properties                                                              *)

JobPlaces == {"idle", "detect", "asking", "flash", "reboot", "waking", "test", "typing"}

TypeOK ==
  /\ usb \in {"out", "serial", "bootsel"} /\ plugs \in 0..MaxPlugs
  /\ holder \in {"none", "app"} \cup Jobs /\ {conn, detected, again, next} \subseteq BOOLEAN
  /\ polls \in [Polls -> {"idle", "detecting", "yes", "no"}]
  /\ jobs \in [Jobs -> [at : JobPlaces, mine : BOOLEAN]]
  /\ queue \in Seq(PollResults \cup StepResults \cup {"stale"})
  /\ screen \in {"disconnected", "wizard", "closed"} /\ index \in {0, 1}
  /\ flash \in {"hidden", "shown", "used"}

(* Late results of earlier polls, a wizard's own use of the port and a     *)
(* connection that has gone stale do not keep the screen from following    *)
(* the device: one that stays away is seen to be away, one that stays is   *)
(* offered to be set up.                                                   *)
ScreenFollowsDevice ==
  /\ <>[](usb = "out") => <>[](screen \in {"disconnected", "closed"})
  /\ <>[](usb = "serial") => []<>(screen \in {"wizard", "closed"})
=============================================================================
