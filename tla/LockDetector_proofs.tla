------------------------- MODULE LockDetector_proofs -------------------------
(* Proofs about LockDetector, for every mode, number of retries and set of *)
(* clients.                                                                *)
EXTENDS LockDetector, SerialLink_proofs

(* Every step of the detector and its surroundings is a step of the link,  *)
(* or leaves the link alone.                                               *)
LEMMA StepIsLinkStep == ASSUME [Next]_vars PROVE [LinkStep]_linkVars
<1> USE DetectorAssumption DEF LinkStep
<1>1. CASE Loop
  BY <1>1 DEF Loop, Poll, LoopEnds, Judge, GiveUp, Unlock, UnlockReturns, Check,
              RetryAfterFailure, Store
<1>2. CASE DetectorSends \/ OtherClient \/ ClosePort
  BY <1>2 DEF DetectorSends, OtherClient, ClosePort
<1>3. CASE DeviceActs \/ DeviceReplies
  BY <1>3 DEF DeviceActs, DeviceReplies, Device
<1>4. CASE Stop \/ LockDesktop \/ UnlockByHand \/ MinutesPass
  BY <1>4 DEF Stop, LockDesktop, UnlockByHand, MinutesPass
<1>5. CASE UNCHANGED vars
  BY <1>5 DEF vars
<1> QED  BY <1>1, <1>2, <1>3, <1>4, <1>5 DEF Next

-----------------------------------------------------------------------------
(* How many UNLOCKs this lock has brought, at each place of the loop.  A   *)
(* series starts only for a lock that has brought none: what the loop      *)
(* remembers when it finds the desktop locked is that it was unlocked.     *)

Counted ==
  /\ sent <= RetryCount
  /\ loc = "judge" => sent = 0
  /\ loc = "attempt" => sent < attempt
  /\ loc \in {"call", "check", "failed"} => sent <= attempt /\ attempt <= RetryCount
  /\ loc = "call" /\ at[Detector] \in {"locking", "writing"} => sent < attempt
  /\ loc # "call" => at[Detector] = "idle"

Fresh ==
  /\ loc \in {"judge", "attempt", "call", "check", "failed"} => seen
  /\ loc = "store" /\ ~seen => (locked => sent = 0)
  /\ loc = "poll" /\ ~wasLocked => (locked => sent = 0)

LEMMA LoopCounts ==
  ASSUME TypeOK, Counted, Fresh, Loop
  PROVE  TypeOK' /\ Counted' /\ Fresh'
<1> USE DetectorAssumption, RetryAssumption
<1>1. LinkTypeOK'
  BY LinkTypeStep DEF Loop, Poll, LoopEnds, Judge, GiveUp, Unlock, UnlockReturns,
     Check, RetryAfterFailure, Store, TypeOK, LinkStep
<1>2. CASE Poll
  BY <1>1, <1>2 DEF Poll, Goto, TypeOK, Counted, Fresh, Places, desktopVars, linkVars
<1>3. CASE LoopEnds
  BY <1>1, <1>3 DEF LoopEnds, Goto, TypeOK, Counted, Fresh, Places, desktopVars, linkVars
<1>4. CASE Judge
  BY <1>1, <1>4 DEF Judge, Goto, TypeOK, Counted, Fresh, Places, desktopVars, linkVars
<1>5. CASE GiveUp
  BY <1>1, <1>5 DEF GiveUp, Exhausted, Goto, TypeOK, Counted, Fresh, Places, desktopVars, linkVars
<1>6. CASE Unlock
  BY <1>1, <1>6 DEF Unlock, Exhausted, Begin, Goto, TypeOK, LinkTypeOK, Counted, Fresh, Places, desktopVars
<1>7. CASE UnlockReturns
  BY <1>1, <1>7 DEF UnlockReturns, Goto, TypeOK, Counted, Fresh, Places, desktopVars, linkVars
<1>8. CASE Check
  BY <1>1, <1>8 DEF Check, Goto, TypeOK, Counted, Fresh, Places, desktopVars, linkVars
<1>9. CASE RetryAfterFailure
  BY <1>1, <1>9 DEF RetryAfterFailure, Goto, TypeOK, Counted, Fresh, Places, desktopVars, linkVars
<1>10. CASE Store
  BY <1>1, <1>10 DEF Store, Goto, TypeOK, Counted, Fresh, Places, desktopVars, linkVars
<1> QED
  BY <1>2, <1>3, <1>4, <1>5, <1>6, <1>7, <1>8, <1>9, <1>10 DEF Loop

LEMMA SendCounts ==
  ASSUME TypeOK, Counted, Fresh, DetectorSends
  PROVE  TypeOK' /\ Counted' /\ Fresh'
<1> USE DetectorAssumption, RetryAssumption
<1>1. LinkTypeOK'
  BY LinkTypeStep DEF DetectorSends, TypeOK, LinkStep
<1>2. UNCHANGED <<loc, seen, wasLocked, attempt, stopping, locked, locks, near>>
  BY DEF DetectorSends, loopVars, desktopVars
<1>3. loc = "call" /\ at[Detector] # "idle"
  BY DEF DetectorSends, Send, ClearInput, Write, ReadLine, TimesOut, PortFails, Counted
<1>4. CASE Write(Detector)
  <2>1. sent' = sent + 1 /\ at'[Detector] = "reading" /\ sent < attempt
    BY <1>3, <1>4 DEF DetectorSends, Write, TypeOK, LinkTypeOK, Counted
  <2> QED  BY <1>1, <1>2, <1>3, <2>1 DEF TypeOK, Counted, Fresh
<1>5. CASE ~Write(Detector)
  <2>1. sent' = sent
    BY <1>5 DEF DetectorSends
  <2>2. at'[Detector] = "writing" => at[Detector] = "locking"
    BY <1>5 DEF DetectorSends, Send, ClearInput, ReadLine, TimesOut, PortFails,
       Return, TypeOK, LinkTypeOK
  <2>3. at'[Detector] # "locking"
    BY <1>5 DEF DetectorSends, Send, ClearInput, ReadLine, TimesOut, PortFails,
       Return, TypeOK, LinkTypeOK
  <2> QED  BY <1>1, <1>2, <1>3, <2>1, <2>2, <2>3 DEF TypeOK, Counted, Fresh
<1> QED  BY <1>4, <1>5

LEMMA OthersCount ==
  ASSUME TypeOK, Counted, Fresh,
         OtherClient \/ ClosePort \/ DeviceActs \/ DeviceReplies
  PROVE  TypeOK' /\ Counted' /\ Fresh'
<1> USE DetectorAssumption
<1>1. LinkTypeOK'
  BY LinkTypeStep DEF OtherClient, ClosePort, DeviceActs, DeviceReplies, Device,
     TypeOK, LinkStep
<1>2. at'[Detector] = at[Detector]
  BY DEF OtherClient, Begin, Send, ClearInput, Write, ReadLine, TimesOut, PortFails,
     Return, ClosePort, Close, DeviceActs, DeviceTakes, DeviceReplies, DeviceAnswers,
     TypeOK, LinkTypeOK
<1>3. UNCHANGED <<loc, seen, wasLocked, attempt, stopping, locks, near, sent>>
  BY DEF OtherClient, ClosePort, DeviceActs, DeviceReplies, loopVars, desktopVars
<1>4. locked' = locked \/ locked' = FALSE
  BY DEF OtherClient, ClosePort, DeviceActs, DeviceReplies, desktopVars
<1>5. locked \in BOOLEAN
  BY DEF TypeOK
<1>6. locked' \in BOOLEAN
  BY <1>4, <1>5
<1>7. locked' => locked
  BY <1>4
<1> QED  BY <1>1, <1>2, <1>3, <1>6, <1>7 DEF TypeOK, Counted, Fresh

LEMMA DesktopCounts ==
  ASSUME TypeOK, Counted, Fresh,
         Stop \/ LockDesktop \/ UnlockByHand \/ MinutesPass \/ UNCHANGED vars
  PROVE  TypeOK' /\ Counted' /\ Fresh'
<1> USE RetryAssumption
<1>1. LinkTypeOK'
  BY LinkTypeStep DEF Stop, LockDesktop, UnlockByHand, MinutesPass, vars, TypeOK
<1>2. UNCHANGED <<loc, seen, wasLocked, attempt, at>>
  BY DEF Stop, LockDesktop, UnlockByHand, MinutesPass, vars, loopVars, linkVars
<1>3. CASE LockDesktop
  <2>1. locked' = TRUE /\ locks' = locks + 1 /\ sent' = 0 /\ UNCHANGED <<stopping, near>>
    BY <1>3 DEF LockDesktop
  <2> QED  BY <1>1, <1>2, <2>1 DEF TypeOK, Counted, Fresh
<1>4. CASE UnlockByHand
  <2>1. locked' = FALSE /\ UNCHANGED <<stopping, locks, near, sent>>
    BY <1>4 DEF UnlockByHand
  <2> QED  BY <1>1, <1>2, <2>1 DEF TypeOK, Counted, Fresh
<1>5. CASE Stop
  BY <1>1, <1>2, <1>5 DEF Stop, desktopVars, TypeOK, Counted, Fresh
<1>6. CASE MinutesPass
  BY <1>1, <1>2, <1>6 DEF MinutesPass, TypeOK, Counted, Fresh
<1>7. CASE UNCHANGED vars
  BY <1>1, <1>2, <1>7 DEF vars, desktopVars, TypeOK, Counted, Fresh
<1> QED  BY <1>3, <1>4, <1>5, <1>6, <1>7

LEMMA Invariant == Spec => [](TypeOK /\ Counted /\ Fresh)
<1>1. Init => TypeOK /\ Counted /\ Fresh
  <2> SUFFICES ASSUME Init PROVE TypeOK /\ Counted /\ Fresh
    OBVIOUS
  <2>1. LinkTypeOK
    BY LinkTypeInit DEF Init
  <2>2. locks \in Nat
    BY DEF Init
  <2>3. {seen, wasLocked, stopping, locked, near} \subseteq BOOLEAN
    BY DEF Init
  <2>4. TypeOK
    BY <2>1, <2>2, <2>3, RetryAssumption DEF Init, TypeOK, Places
  <2>5. Counted /\ Fresh
    BY DetectorAssumption, RetryAssumption DEF Init, LinkInit, Counted, Fresh
  <2> QED  BY <2>4, <2>5
<1>2. TypeOK /\ Counted /\ Fresh /\ [Next]_vars => (TypeOK /\ Counted /\ Fresh)'
  BY LoopCounts, SendCounts, OthersCount, DesktopCounts DEF Next
<1> QED  BY <1>1, <1>2, PTL DEF Spec

(* Every variable has its type; in particular the attempts are counted no  *)
(* further than one past the last (_perform_unlock).                       *)
THEOREM DetectorTypeCorrect == Spec => []TypeOK
  BY Invariant, PTL

(* One lock of the desktop brings at most retry_count UNLOCKs onto the     *)
(* wire, for every retry_count and whatever fails (_perform_unlock).       *)
THEOREM UnlocksAreBounded == Spec => []UnlocksWithinRetry
<1>1. Counted => UnlocksWithinRetry
  BY DEF Counted, UnlocksWithinRetry
<1> QED  BY <1>1, Invariant, PTL

-----------------------------------------------------------------------------
(* What the detector knows of the desktop when nobody else unlocks it and  *)
(* no time limit passes: up to the writing of an UNLOCK it is locked, and  *)
(* then it stays so unless the device accepts that UNLOCK.                 *)

Accepted == \E call : \/ busy = <<[call |-> call, ok |-> TRUE]>>
                      \/ input = <<[call |-> call, ok |-> TRUE]>>

StillLocked ==
  /\ loc \in {"judge", "attempt", "failed"} => locked
  /\ loc = "call" /\ at[Detector] \in {"locking", "writing"} => locked
  /\ loc = "call" /\ at[Detector] = "idle" => Succeeded \/ locked
  /\ at[Detector] = "reading" => Accepted \/ locked

Looked == ~overdue /\ (open => StillLocked)

LinkInv == TypeOK /\ Counted /\ OneCaller /\ InStep

LEMMA InitLooked == Init => OneCaller /\ InStep /\ Looked
<1>1. Init => OneCaller /\ InStep
  BY DEF Init, LinkInit, OneCaller, InCall, InStep, Own, Quiet
<1>2. Init => Looked
  BY DetectorAssumption DEF Init, LinkInit, Looked, StillLocked
<1> QED  BY <1>1, <1>2

LEMMA LoopLooks == ASSUME LinkInv, Looked, Loop, open PROVE StillLocked'
<1> USE DetectorAssumption DEF LinkInv, Looked, StillLocked, Goto
<1>1. CASE Unlock
  <2>1. loc = "attempt" /\ loc' = "call" /\ at' = [at EXCEPT ![Detector] = "locking"]
    BY <1>1 DEF Unlock, Begin
  <2>2. at'[Detector] = "locking" /\ locked' = locked
    BY <1>1, <2>1 DEF Unlock, desktopVars, TypeOK, LinkTypeOK
  <2> QED  BY <2>1, <2>2
<1>2. CASE ~Unlock
  <2>1. UNCHANGED <<locked, at, busy, input, result>>
    BY <1>2 DEF Loop, Poll, LoopEnds, Judge, GiveUp, UnlockReturns, Check,
       RetryAfterFailure, Store, desktopVars, linkVars
  <2>2. loc' # "call" /\ (loc' \in {"judge", "attempt", "failed"} => locked)
    BY <1>2 DEF Loop, Poll, LoopEnds, Judge, GiveUp, UnlockReturns, Check,
       RetryAfterFailure, Store
  <2> QED  BY <2>1, <2>2 DEF Accepted, Counted
<1> QED  BY <1>1, <1>2

LEMMA SendLooks ==
  ASSUME LinkInv, Looked, ~TimeoutsHappen, DetectorSends, open
  PROVE  StillLocked'
<1> USE DetectorAssumption DEF LinkInv, Looked, StillLocked
<1>1. /\ UNCHANGED <<loc, locked>> /\ at \in [Clients -> Steps]
      /\ result \in [Clients -> SUBSET Answer]
  BY DEF DetectorSends, loopVars, desktopVars, TypeOK, LinkTypeOK
<1>2. loc = "call"
  BY DEF DetectorSends, Send, ClearInput, Write, ReadLine, TimesOut, PortFails, Counted
<1>3. CASE ClearInput(Detector) \/ Write(Detector)
  <2>1. at[Detector] \in {"locking", "writing"} /\ at'[Detector] \in {"writing", "reading"}
    BY <1>1, <1>3 DEF ClearInput, Write
  <2> QED  BY <1>1, <1>2, <2>1
<1>4. CASE ReadLine(Detector)
  <2>1. at[Detector] = "reading" /\ input # <<>> /\ Pending(Current(Detector))
    BY <1>4 DEF ReadLine, InStep
  <2>2. at'[Detector] = "idle" /\ result'[Detector] = {Head(input)}
    BY <1>1, <1>4 DEF ReadLine, Return
  <2>3. busy = <<>>
    BY <2>1, ReadQuiets
  <2>4. ASSUME NEW call, input = <<[call |-> call, ok |-> TRUE]>>
        PROVE  Head(input).ok
    BY <2>4
  <2>5. Accepted => Head(input).ok
    BY <2>3, <2>4 DEF Accepted
  <2> QED  BY <1>1, <1>2, <2>1, <2>2, <2>5 DEF Succeeded
<1> QED  BY <1>3, <1>4 DEF DetectorSends, Send, TimesOut, PortFails

(* While the detector reads nobody else is past the taking of the lock.    *)
LEMMA OthersLook == ASSUME LinkInv, Looked, OtherClient, open PROVE StillLocked'
<1> USE DetectorAssumption DEF LinkInv, Looked, StillLocked
<1>1. PICK t \in Clients \ {Detector} : Begin(t) \/ Send(t)
  BY DEF OtherClient
<1>2. /\ at'[Detector] = at[Detector] /\ result'[Detector] = result[Detector]
      /\ UNCHANGED <<loc, locked>>
  BY <1>1 DEF OtherClient, loopVars, desktopVars, Begin, Send, ClearInput, Write,
     ReadLine, TimesOut, PortFails, Return, TypeOK, LinkTypeOK
<1>3. at[Detector] = "reading" => UNCHANGED <<busy, input>>
  <2> SUFFICES ASSUME at[Detector] = "reading" PROVE UNCHANGED <<busy, input>>
    OBVIOUS
  <2>1. owner = {Detector}
    BY DEF OneCaller, InCall
  <2>2. owner # {} /\ ~InCall(t)
    BY <1>1, <2>1 DEF OneCaller
  <2> QED
    BY <1>1, <2>2 DEF InCall, Begin, Send, ClearInput, Write, ReadLine, TimesOut, PortFails
<1> QED  BY <1>2, <1>3 DEF Succeeded, Accepted

(* The device accepts the UNLOCK of a detector that waits for it, and of   *)
(* no other.                                                               *)
LEMMA DeviceLooks ==
  ASSUME LinkInv, Looked, DeviceActs \/ DeviceReplies, open
  PROVE  StillLocked'
<1> USE DetectorAssumption DEF LinkInv, Looked, StillLocked
<1>1. UNCHANGED <<loc, at, result>>
  BY DEF DeviceActs, DeviceReplies, DeviceTakes, DeviceAnswers, loopVars
<1>2. CASE DeviceActs
  <2>1. PICK ok \in BOOLEAN :
          /\ DeviceTakes(ok)
          /\ locked' \in {locked} \cup
               (IF ok /\ Head(wire)[1] = Detector THEN {FALSE} ELSE {})
    BY <1>2 DEF DeviceActs
  <2>2. ~Quiet /\ wire # <<>> /\ busy' = <<[call |-> Head(wire), ok |-> ok]>>
    BY <2>1 DEF DeviceTakes, Quiet
  <2>3. PICK t \in Clients : at[t] = "reading" /\ Pending(Current(t))
    BY <2>2 DEF InStep
  <2>4. wire = <<Current(t)>> /\ busy = <<>> /\ input = <<>>
    BY <2>2, <2>3 DEF Pending
  <2>5. Head(wire)[1] = t
    BY <2>4 DEF Current
  <2>6. CASE t = Detector
    <3>1. ~Accepted
      BY <2>4 DEF Accepted
    <3>2. ok => Accepted'
      BY <2>2 DEF Accepted
    <3>3. loc = "call"
      BY <2>3, <2>6 DEF Counted
    <3> QED  BY <1>1, <2>1, <2>3, <2>6, <3>1, <3>2, <3>3
  <2>7. CASE t # Detector
    <3>1. at[Detector] # "reading"
      BY <2>3, <2>7 DEF OneCaller, InCall
    <3>2. locked' = locked
      BY <2>1, <2>5, <2>7
    <3> QED  BY <1>1, <3>1, <3>2 DEF Succeeded
  <2> QED  BY <2>6, <2>7
<1>3. CASE DeviceReplies
  <2>1. locked' = locked /\ busy # <<>> /\ input' = input \o busy
    BY <1>3 DEF DeviceReplies, DeviceAnswers, desktopVars
  <2>2. ASSUME at[Detector] = "reading", Accepted PROVE Accepted'
    <3>1. Pending(Current(Detector))
      BY <2>2 DEF InStep
    <3>2. input = <<>>
      BY <2>1, <3>1 DEF Pending
    <3>3. PICK call : busy = <<[call |-> call, ok |-> TRUE]>>
      BY <2>2, <3>2 DEF Accepted
    <3>4. input' = <<[call |-> call, ok |-> TRUE]>>
      BY <2>1, <3>2, <3>3
    <3> QED  BY <3>4 DEF Accepted
  <2> QED  BY <1>1, <2>1, <2>2 DEF Succeeded
<1> QED  BY <1>2, <1>3

LEMMA StepLooks ==
  ASSUME ~TimeoutsHappen, ~UserUnlocks, LinkInv, Looked, [Next]_vars
  PROVE  Looked'
<1>1. overdue' = overdue
  BY DEF Next, Loop, Poll, LoopEnds, Judge, GiveUp, Unlock, UnlockReturns, Check,
     RetryAfterFailure, Store, DetectorSends, OtherClient, ClosePort, DeviceActs,
     DeviceReplies, Stop, LockDesktop, UnlockByHand, MinutesPass, vars, linkVars, Begin,
     Send, ClearInput, Write, ReadLine, TimesOut, PortFails, Close, DeviceTakes,
     DeviceAnswers
<1>2. open' => open
  <2>1. [LinkStep]_linkVars
    BY StepIsLinkStep
  <2> QED
    BY <2>1 DEF LinkStep, linkVars, Begin, Send, ClearInput, Write, ReadLine, TimesOut,
       PortFails, Return, Close, Device, DeviceTakes, DeviceAnswers
<1> SUFFICES ASSUME open' PROVE StillLocked'
  BY <1>1 DEF Looked
<1>3. CASE Stop \/ LockDesktop \/ MinutesPass \/ UNCHANGED vars
  <2>1. UNCHANGED <<loc, at, busy, input, result>>
    BY <1>3 DEF Stop, LockDesktop, MinutesPass, vars, linkVars, loopVars
  <2>2. locked' = TRUE \/ locked' = locked
    BY <1>3 DEF Stop, LockDesktop, MinutesPass, vars, desktopVars
  <2> QED  BY <1>2, <2>1, <2>2 DEF Looked, StillLocked, Succeeded, Accepted
<1> QED
  BY <1>2, <1>3, LoopLooks, SendLooks, OthersLook, DeviceLooks
  DEF Next, ClosePort, Close, UnlockByHand

(* If no time limit passes and only the detector unlocks the desktop, an   *)
(* UNLOCK goes out only while the desktop is locked, a retry without a     *)
(* look at it (RetryAfterFailure) too: what failed has not unlocked it, or *)
(* the port is gone and nothing goes out.                                  *)
THEOREM RetriesFindItLocked ==
  ASSUME ~TimeoutsHappen, ~UserUnlocks
  PROVE  Spec => RetriesOnlyIfLocked
<1>1. LinkInv /\ Looked /\ [Next]_vars => (OneCaller /\ InStep /\ Looked)'
  <2>1. LinkInv /\ Looked /\ [Next]_vars => Looked'
    BY StepLooks
  <2>2. LinkInv /\ [Next]_vars => OneCaller' /\ InStep'
    BY StepIsLinkStep, OneCallerStep, InStepStep DEF LinkInv, TypeOK
  <2> QED  BY <2>1, <2>2
<1>2. LinkInv /\ Looked /\ [Next]_vars => [sent' > sent /\ attempt > 1 => locked]_vars
  <2> SUFFICES ASSUME LinkInv, Looked, [Next]_vars, sent' > sent PROVE locked
    OBVIOUS
  <2>1. sent \in Nat
    BY DEF LinkInv, TypeOK
  <2>2. ~LockDesktop /\ sent' # sent
    BY <2>1 DEF LockDesktop
  <2>3. DetectorSends /\ Write(Detector)
    BY <2>2 DEF Next, Loop, Poll, LoopEnds, Judge, GiveUp, Unlock, UnlockReturns, Check,
       RetryAfterFailure, Store, DetectorSends, OtherClient, ClosePort, DeviceActs,
       DeviceReplies, Stop, UnlockByHand, MinutesPass, vars
  <2>4. open /\ at[Detector] = "writing"
    BY <2>3 DEF Write
  <2> QED  BY <2>4 DEF LinkInv, Counted, Looked, StillLocked
<1> QED
  BY <1>1, <1>2, InitLooked, Invariant, PTL DEF Spec, LinkInv, RetriesOnlyIfLocked

(* The detector with its surroundings implements the link without a bound  *)
(* on the calls, so that what is proved of the link's steps holds of it.   *)
THEOREM ImplementsLink == Spec => LinkInit /\ [][LinkStep]_linkVars
<1>1. Init => LinkInit
  BY DEF Init
<1>2. [Next]_vars => [LinkStep]_linkVars
  BY StepIsLinkStep
<1> QED  BY <1>1, <1>2, PTL DEF Spec
=============================================================================
