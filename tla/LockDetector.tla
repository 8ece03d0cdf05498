---------------------------- MODULE LockDetector ----------------------------
(***************************************************************************)
(* The lock detector of the monitor (monitor/lock_detector.py) over the    *)
(* serial link: it polls whether the desktop is locked, and has the device *)
(* type the PIN.  The device types when it takes an UNLOCK, however late   *)
(* that is.  Other clients, such as the hello detector, use the port too.  *)
(***************************************************************************)
EXTENDS SerialLink

CONSTANTS
  Detector,      \* the detector's thread, one of the clients
  ScheduledOnly, \* the configured mode is scheduled_only
  RetryCount,    \* the configured retry_count
  UserUnlocks,   \* whether the user, too, unlocks the desktop
  MaxLocks       \* bound: how often the desktop is locked

ASSUME DetectorAssumption == Detector \in Clients
ASSUME ModeAssumption     == {ScheduledOnly, UserUnlocks} \subseteq BOOLEAN
ASSUME RetryAssumption    == RetryCount \in Nat /\ MaxLocks \in Nat

VARIABLES
  loc,        \* where the detector's loop is
  seen,       \* its local variable locked
  wasLocked,  \* _was_locked
  attempt,    \* the number of the attempt
  stopping,   \* _stop_event is set
  locked,     \* the desktop is locked
  locks,      \* how often it has been locked
  near,       \* the time is near a scheduled one
  sent        \* history: UNLOCKs written since the desktop was last locked

loopVars    == <<loc, seen, wasLocked, attempt>>
desktopVars == <<locked, locks, near>>
vars == <<linkVars, loopVars, stopping, desktopVars, sent>>

Goto(place) == loc' = place

Init ==
  /\ LinkInit
  /\ loc = "poll" /\ seen = FALSE /\ wasLocked = FALSE /\ attempt = 1
  /\ stopping = FALSE /\ sent = 0
  /\ locked \in BOOLEAN /\ locks = (IF locked THEN 1 ELSE 0) /\ locks <= MaxLocks
  /\ near \in BOOLEAN

-----------------------------------------------------------------------------
(* The loop                                                                *)

Poll ==
  /\ loc = "poll" /\ ~stopping
  /\ seen' = locked
  /\ Goto(IF locked /\ ~wasLocked THEN "judge" ELSE "store")
  /\ UNCHANGED <<linkVars, wasLocked, attempt, stopping, desktopVars, sent>>

LoopEnds ==
  /\ loc = "poll" /\ stopping
  /\ Goto("dead")
  /\ UNCHANGED <<linkVars, seen, wasLocked, attempt, stopping, desktopVars, sent>>

(* _should_unlock, asked once.  is_waking_from_sleep looks at how long the *)
(* system is up: it may say yes or no.                                     *)
Judge ==
  /\ loc = "judge"
  /\ attempt' = 1
  /\ \E fromSleep \in BOOLEAN :
       Goto(IF ScheduledOnly => fromSleep \/ near THEN "attempt" ELSE "store")
  /\ UNCHANGED <<linkVars, seen, wasLocked, stopping, desktopVars, sent>>

\* Mutant: one attempt too many.
Exhausted_OffByOne == loc = "attempt" /\ (attempt > RetryCount + 1 \/ stopping)

Exhausted == loc = "attempt" /\ (attempt > RetryCount \/ stopping)

GiveUp ==
  /\ Exhausted
  /\ Goto("store")
  /\ UNCHANGED <<linkVars, seen, wasLocked, attempt, stopping, desktopVars, sent>>

Unlock ==
  /\ loc = "attempt" /\ ~Exhausted
  /\ Begin(Detector)
  /\ Goto("call")
  /\ UNCHANGED <<seen, wasLocked, attempt, stopping, desktopVars, sent>>

Succeeded == \E answer \in result[Detector] : answer.ok

(* unlock() returns, or raises; then retry_interval_sec pass.              *)
UnlockReturns ==
  /\ loc = "call" /\ at[Detector] = "idle"
  /\ Goto(IF Succeeded THEN "check" ELSE "failed")
  /\ UNCHANGED <<linkVars, seen, wasLocked, attempt, stopping, desktopVars, sent>>

\* Mutant: the desktop is not looked at.
Check_Blindly ==
  /\ loc = "check"
  /\ attempt' = attempt + 1
  /\ Goto("attempt")
  /\ UNCHANGED <<linkVars, seen, wasLocked, stopping, desktopVars, sent>>

Check ==
  /\ loc = "check"
  /\ attempt' = IF locked THEN attempt + 1 ELSE attempt
  /\ Goto(IF locked THEN "attempt" ELSE "store")
  /\ UNCHANGED <<linkVars, seen, wasLocked, stopping, desktopVars, sent>>

\* Mutant: an attempt that fails is not counted.
RetryAfterFailure_Uncounted ==
  /\ loc = "failed"
  /\ Goto("attempt")
  /\ UNCHANGED <<linkVars, seen, wasLocked, attempt, stopping, desktopVars, sent>>

(* After a failure the next attempt follows without a look at the desktop. *)
RetryAfterFailure ==
  /\ loc = "failed"
  /\ attempt' = attempt + 1
  /\ Goto("attempt")
  /\ UNCHANGED <<linkVars, seen, wasLocked, stopping, desktopVars, sent>>

\* Mutant: what is stored is read again.
Store_ReadsAgain ==
  /\ loc = "store"
  /\ wasLocked' = locked
  /\ Goto("poll")
  /\ UNCHANGED <<linkVars, seen, attempt, stopping, desktopVars, sent>>

(* What is stored was read before the unlock.                              *)
Store ==
  /\ loc = "store"
  /\ wasLocked' = seen
  /\ Goto("poll")
  /\ UNCHANGED <<linkVars, seen, attempt, stopping, desktopVars, sent>>

Loop == Poll \/ LoopEnds \/ Judge \/ GiveUp \/ Unlock \/ UnlockReturns \/ Check
        \/ RetryAfterFailure \/ Store

Stop ==
  /\ ~stopping /\ stopping' = TRUE
  /\ UNCHANGED <<linkVars, loopVars, desktopVars, sent>>

-----------------------------------------------------------------------------
(* The link: the detector's calls, those of the other clients, the port.   *)

DetectorSends ==
  /\ Send(Detector)
  /\ sent' = IF Write(Detector) THEN sent + 1 ELSE sent
  /\ UNCHANGED <<loopVars, stopping, desktopVars>>

OtherClient ==
  /\ \E t \in Clients \ {Detector} : (n[t] < MaxCalls /\ Begin(t)) \/ Send(t)
  /\ UNCHANGED <<loopVars, stopping, desktopVars, sent>>

ClosePort ==
  /\ Close
  /\ UNCHANGED <<loopVars, stopping, desktopVars, sent>>

(* handle_unlock types the PIN and Enter, and answers OK, or finds that it *)
(* cannot and answers ERR.  A PIN that is wrong, or typed before the       *)
(* screen is ready, leaves the desktop locked.                             *)
DeviceActs ==
  /\ \E ok \in BOOLEAN :
       /\ DeviceTakes(ok)
       /\ locked' \in {locked} \cup
            (IF ok /\ Head(wire)[1] = Detector THEN {FALSE} ELSE {})
  /\ UNCHANGED <<loopVars, stopping, locks, near, sent>>

DeviceReplies ==
  /\ DeviceAnswers
  /\ UNCHANGED <<loopVars, stopping, desktopVars, sent>>

-----------------------------------------------------------------------------
(* The user and the time of day                                            *)

LockDesktop ==
  /\ ~locked /\ locks < MaxLocks
  /\ locked' = TRUE /\ locks' = locks + 1 /\ sent' = 0
  /\ UNCHANGED <<linkVars, loopVars, stopping, near>>

UnlockByHand ==
  /\ UserUnlocks /\ locked
  /\ locked' = FALSE
  /\ UNCHANGED <<linkVars, loopVars, stopping, locks, near, sent>>

MinutesPass ==
  /\ ScheduledOnly /\ near' = ~near
  /\ UNCHANGED <<linkVars, loopVars, stopping, locked, locks, sent>>

Next == Loop \/ Stop \/ DetectorSends \/ OtherClient \/ ClosePort
        \/ DeviceActs \/ DeviceReplies
        \/ LockDesktop \/ UnlockByHand \/ MinutesPass

Spec == Init /\ [][Next]_vars

(* The threads run and the device serves its commands.                     *)
FairSpec == /\ Spec /\ WF_vars(Loop) /\ WF_vars(DetectorSends)
            /\ WF_vars(OtherClient) /\ WF_vars(DeviceActs) /\ WF_vars(DeviceReplies)
-----------------------------------------------------------------------------
(* Properties                                                              *)

Places == {"poll", "judge", "attempt", "call", "check", "failed", "store", "dead"}

TypeOK ==
  /\ LinkTypeOK
  /\ loc \in Places /\ attempt \in 1..RetryCount + 1
  /\ {seen, wasLocked, stopping, locked, near} \subseteq BOOLEAN
  /\ locks \in Nat /\ sent \in Nat

(* One lock of the desktop brings at most retry_count UNLOCKs onto the     *)
(* wire, whatever fails, also when a series of attempts for an earlier     *)
(* lock still runs: more would be typed as wrong PINs.                     *)
UnlocksWithinRetry == sent <= RetryCount

(* "If still locked -> retry" (TASK-020:19): a retry goes out only while   *)
(* the desktop is locked.                                                  *)
RetriesOnlyIfLocked ==
  [][sent' > sent /\ attempt > 1 => locked]_vars

(* "automatically handles ... lock screen login" (README.md:102): a desktop*)
(* that stays locked comes to be sent an UNLOCK, unless the detector is    *)
(* stopped or the port lost.                                               *)
LockGetsUnlock ==
  <>[](locked /\ open /\ ~stopping) => <>[](sent > 0)
=============================================================================
