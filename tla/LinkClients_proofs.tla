-------------------------- MODULE LinkClients_proofs -------------------------
(***************************************************************************)
(* Proofs about two clients of the serial link: HelloDetector, for every   *)
(* set of applications, dialogs and other clients, and FirmwarePush, for   *)
(* every length of a firmware and of its hash.  The proofs about the link  *)
(* itself are used for both.                                               *)
(***************************************************************************)
EXTENDS HelloDetector, FirmwarePush, SerialLink_proofs, FiniteSetTheorems,
        SequenceTheorems

(***************************************************************************)
(*                             HelloDetector                               *)
(***************************************************************************)

(* Every step of the detector and its surroundings is a step of the link,  *)
(* or leaves the link alone.                                               *)
LEMMA HelloLinkStep == ASSUME [Next]_vars PROVE [LinkStep]_linkVars
<1> USE HelloAssumption DEF LinkStep
<1>1. CASE Loop
  BY <1>1 DEF Loop, LookForDialog, LoopEnds, FindOwner, NewApp, OnNewApp, NotConnected,
              ConfigReturns, Focus, TestFocus, LastTest, HelloReturns, WaitForDismiss,
              EscapeReturns, Ask
<1>2. CASE ShowDialog \/ CloseDialog \/ LoseFocus
  BY <1>2 DEF ShowDialog, CloseDialog, LoseFocus
<1>3. CASE ThreadsSend \/ ClosePort
  BY <1>3 DEF ThreadsSend, ClosePort
<1>4. CASE DeviceActs \/ DeviceReplies
  BY <1>4 DEF DeviceActs, DeviceReplies, Device
<1>5. CASE UNCHANGED vars
  BY <1>5 DEF vars
<1> QED  BY <1>1, <1>2, <1>3, <1>4, <1>5 DEF Next

(* The detector and its surroundings implement the link without a bound on *)
(* the calls.                                                              *)
THEOREM HelloImplementsLink == Spec => LinkInit /\ [][LinkStep]_linkVars
<1>1. Init => LinkInit
  BY DEF Init
<1>2. [Next]_vars => [LinkStep]_linkVars
  BY HelloLinkStep
<1> QED  BY <1>1, <1>2, PTL DEF Spec

(* Among the detector, its other threads, dialogs and late answers too a   *)
(* call returns its own answer, until one is given up and again when the   *)
(* device had nothing left to do as it began (SerialProtocol.send).        *)
THEOREM HelloAnswersAreOwn == Spec => [](OwnUntilOverdue /\ OwnWhenAlone)
<1>1. LinkInit => LinkTypeOK /\ OneCaller /\ InStep /\ Unanswered /\ StaysAlone
  BY LinkTypeInit DEF LinkInit, OneCaller, InCall, InStep, Own, Quiet, Unanswered, StaysAlone
<1>2. LinkTypeOK /\ OneCaller /\ InStep /\ Unanswered /\ StaysAlone /\ [LinkStep]_linkVars
      => (LinkTypeOK /\ OneCaller /\ InStep /\ Unanswered /\ StaysAlone)'
  BY LinkTypeStep, OneCallerStep, InStepStep, UnansweredStep, StaysAloneStep
<1>3. InStep /\ StaysAlone => OwnUntilOverdue /\ OwnWhenAlone
  BY DEF InStep, StaysAlone, Own, OwnUntilOverdue, OwnWhenAlone
<1> QED  BY <1>1, <1>2, <1>3, HelloImplementsLink, PTL

-----------------------------------------------------------------------------
(* What the detector asks for: its command on the wire has a number it has *)
(* given, and at each place of the loop the call is the one of that place. *)

Calling == {"pushing", "typing", "escaping"}

Numbered == \A i \in DOMAIN wire : wire[i][1] = Hello => wire[i][2] \in 1..n[Hello]

Asking ==
  /\ loc \notin Calling => Idle
  /\ loc \in Calling => n[Hello] > 0
  /\ loc = "pushing" => asked[n[Hello]] = [kind |-> "config", apps |-> noted]
  /\ loc = "typing" => asked[n[Hello]].kind = "hello"
  /\ loc = "escaping" => asked[n[Hello]].kind = "escape"

HelloTyped == TypeOK /\ Numbered /\ Asking

Request == [kind : {"config", "hello", "escape"}, apps : Seq(Apps)]

(* A call of the detector adds its request to those before.                *)
LEMMA AskTyped ==
  ASSUME HelloTyped, NEW kind \in {"config", "hello", "escape"}, NEW apps \in Seq(Apps),
         Ask(kind, apps)
  PROVE  /\ asked' \in Seq(Request) /\ Len(asked') = n'[Hello]
         /\ n'[Hello] = n[Hello] + 1 /\ n[Hello] \in Nat
         /\ asked'[n'[Hello]] = [kind |-> kind, apps |-> apps]
         /\ \A k \in 1..n[Hello] : asked'[k] = asked[k]
<1> USE HelloAssumption
<1>1. asked \in Seq(Request) /\ Len(asked) = n[Hello] /\ n \in [Clients -> Nat]
  BY DEF HelloTyped, TypeOK, LinkTypeOK, Request
<1>2. n' = [n EXCEPT ![Hello] = n[Hello] + 1]
  BY DEF Ask, Begin
<1>3. asked' = Append(asked, [kind |-> kind, apps |-> apps])
  BY DEF Ask
<1>4. [kind |-> kind, apps |-> apps] \in Request
  BY DEF Request
<1> QED  BY <1>1, <1>2, <1>3, <1>4

(* The variables of the detector one by one.                               *)
AppsTyped ==
  /\ whitelist \subseteq Apps /\ noted \in Seq(Apps)
  /\ deviceApps \subseteq Apps /\ unsent \subseteq Apps

LEMMA AppsTypedIs ==
  UNION {whitelist, deviceApps, unsent} \subseteq Apps /\ noted \in Seq(Apps) <=> AppsTyped
  BY DEF AppsTyped

LEMMA NoApps == <<>> \in Seq(Apps) /\ Kept(<<>>) = {}
  BY DEF Kept

LEMMA KeptTyped == ASSUME NEW apps \in Seq(Apps) PROVE Kept(apps) \subseteq Apps
  BY DEF Kept

LEMMA LoopTyped ==
  ASSUME HelloTyped, Loop
  PROVE  HelloTyped'
<1> USE HelloAssumption
<1>1. LinkTypeOK'
  BY LinkTypeStep DEF HelloTyped, TypeOK, Loop, LookForDialog, LoopEnds, FindOwner, NewApp,
     OnNewApp, NotConnected, ConfigReturns, Focus, TestFocus, LastTest, HelloReturns,
     WaitForDismiss, EscapeReturns, Ask, LinkStep
<1>2. ASSUME UNCHANGED <<linkVars, asked>>
      PROVE  /\ asked' \in Seq(Request) /\ Len(asked') = n'[Hello] /\ Numbered'
             /\ (Idle => Idle')
  BY <1>2 DEF HelloTyped, TypeOK, Request, Numbered, Idle, linkVars
<1>3. ASSUME NEW kind \in {"config", "hello", "escape"}, NEW apps \in Seq(Apps),
             Ask(kind, apps)
      PROVE  /\ asked' \in Seq(Request) /\ Len(asked') = n'[Hello] /\ Numbered'
             /\ n'[Hello] > 0 /\ asked'[n'[Hello]] = [kind |-> kind, apps |-> apps]
  <2>1. wire' = wire
    BY <1>3 DEF Ask, Begin
  <2> QED  BY <1>3, <2>1, AskTyped DEF HelloTyped, Numbered
<1>4. /\ AppsTyped /\ exe \in Apps \cup {None} /\ dialog \in Apps \cup {None}
      /\ dialogs \in Nat /\ pins \in Nat /\ escapes \in Nat
      /\ front \in BOOLEAN /\ steady \in BOOLEAN
  BY AppsTypedIs DEF HelloTyped, TypeOK
<1>5. /\ AppsTyped' /\ exe' \in Apps \cup {None} /\ dialog' = dialog
      /\ UNCHANGED <<dialogs, pins, escapes>>
      /\ front' \in BOOLEAN /\ steady' \in BOOLEAN
  <2>1. \A app \in Apps : Append(noted, app) \in Seq(Apps)
    BY <1>4 DEF AppsTyped
  <2>2. Kept(noted) \subseteq Apps
    BY <1>4, KeptTyped DEF AppsTyped
  <2>3. CASE NewApp
    BY <1>4, <2>1, <2>3 DEF AppsTyped, NewApp, OnNewApp, NotConnected, GetOwner, AddApp, dialogVars
  <2>4. CASE ~NewApp
    BY <1>4, <2>2, <2>4 DEF AppsTyped, Loop, LookForDialog, LoopEnds, FindOwner,
       ConfigReturns, Focus, TestFocus, LastTest, HelloReturns, WaitForDismiss,
       EscapeReturns, GetOwner, FocusDialog, Visible, dialogVars
  <2> QED  BY <2>3, <2>4
<1>6. ASSUME asked' \in Seq(Request), Len(asked') = n'[Hello], loc' \in Places
      PROVE  TypeOK'
  <2>1. UNION {whitelist', deviceApps', unsent'} \subseteq Apps /\ noted' \in Seq(Apps)
    BY <1>5 DEF AppsTyped
  <2> QED  BY <1>1, <1>4, <1>5, <1>6, <2>1 DEF TypeOK, Request
<1>7. CASE LookForDialog \/ LoopEnds \/ FindOwner \/ ConfigReturns \/ Focus \/ TestFocus
           \/ HelloReturns \/ EscapeReturns
  <2>1. UNCHANGED <<linkVars, asked>> /\ loc' \in Places \ Calling
        /\ (loc \in Calling => Idle)
    BY <1>7 DEF LookForDialog, LoopEnds, FindOwner, ConfigReturns, Focus, TestFocus,
       HelloReturns, EscapeReturns, Goto, Places, Calling
  <2> QED  BY <2>1, <1>2, <1>6 DEF HelloTyped, Asking, Calling
<1>8. CASE NewApp
  <2>1. CASE NotConnected
    BY <2>1, <1>2, <1>6, <1>8 DEF NewApp, NotConnected, Goto, HelloTyped, Asking, Calling, Places
  <2>2. CASE OnNewApp(exe')
    <3>1. noted' \in Seq(Apps) /\ Ask("config", noted') /\ loc' = "pushing"
      BY <1>5, <2>2 DEF OnNewApp, Goto, AppsTyped
    <3> QED  BY <3>1, <1>3, <1>6 DEF HelloTyped, Asking, Calling, Places
  <2> QED  BY <1>8, <2>1, <2>2 DEF NewApp
<1>9. ASSUME NEW kind \in {"hello", "escape"}, Ask(kind, <<>>),
             loc' = IF kind = "hello" THEN "typing" ELSE "escaping"
      PROVE  HelloTyped'
  <2>1. /\ asked' \in Seq(Request) /\ Len(asked') = n'[Hello] /\ Numbered'
        /\ n'[Hello] > 0 /\ asked'[n'[Hello]] = [kind |-> kind, apps |-> <<>>]
    BY <1>3, <1>9, NoApps
  <2>2. TypeOK'
    BY <1>6, <1>9, <2>1 DEF Places
  <2> QED  BY <1>9, <2>1, <2>2 DEF HelloTyped, Asking, Calling
<1>10. CASE LastTest \/ WaitForDismiss
  <2>1. CASE \/ Ask("hello", <<>>) /\ loc' = "typing"
             \/ Ask("escape", <<>>) /\ loc' = "escaping"
    BY <1>9, <2>1
  <2>2. CASE UNCHANGED <<linkVars, asked>> /\ loc' = "poll"
    <3>1. Idle
      BY <1>10 DEF LastTest, WaitForDismiss, HelloTyped, Asking, Calling
    <3> QED  BY <2>2, <3>1, <1>2, <1>6 DEF HelloTyped, Asking, Calling, Places
  <2> QED  BY <1>10, <2>1, <2>2 DEF LastTest, WaitForDismiss, Goto
<1> QED  BY <1>7, <1>8, <1>10 DEF Loop

(* Sending and the device's work move commands, and make none up.          *)
LEMMA WireTyped ==
  ASSUME HelloTyped, ThreadsSend \/ ClosePort \/ DeviceActs \/ DeviceReplies
  PROVE  /\ Numbered' /\ n'[Hello] = n[Hello] /\ (Idle => Idle')
         /\ UNCHANGED loopVars
<1> USE HelloAssumption
<1>1. wire \in Seq(Call) /\ n \in [Clients -> Nat] /\ at \in [Clients -> Steps]
  BY DEF HelloTyped, TypeOK, LinkTypeOK
<1>2. ASSUME NEW t \in Clients, n' = n, wire' = Append(wire, Current(t)),
             t = Hello => n[Hello] > 0
      PROVE  Numbered'
  <2>1. \A i \in DOMAIN wire' : wire'[i] = IF i \in DOMAIN wire THEN wire[i] ELSE <<t, n[t]>>
    BY <1>1, <1>2 DEF Current
  <2>2. t = Hello => n[t] \in 1..n[Hello]
    BY <1>1, <1>2
  <2> QED  BY <1>2, <2>1, <2>2 DEF HelloTyped, Numbered
<1>3. ASSUME n' = n, wire' = wire PROVE Numbered'
  BY <1>3 DEF HelloTyped, Numbered
<1>4. ASSUME n' = n, wire # <<>>, wire' = Tail(wire) PROVE Numbered'
  <2>1. \A i \in DOMAIN wire' : wire'[i] = wire[i + 1] /\ i + 1 \in DOMAIN wire
    BY <1>1, <1>4
  <2> QED  BY <1>4, <2>1 DEF HelloTyped, Numbered
<1>5. CASE ThreadsSend
  <2>1. CASE Send(Hello)
    <3>1. ~Idle
      BY <2>1 DEF Send, ClearInput, Write, ReadLine, TimesOut, PortFails, Idle
    <3>2. n[Hello] > 0
      BY <3>1 DEF HelloTyped, Asking
    <3>3. n' = n /\ (wire' = wire \/ wire' = Append(wire, Current(Hello)))
      BY <2>1 DEF Send, ClearInput, Write, ReadLine, TimesOut, PortFails, Return
    <3> QED  BY <1>2, <1>3, <1>5, <3>1, <3>2, <3>3 DEF ThreadsSend
  <2>2. ASSUME NEW t \in Clients \ {Hello}, Begin(t)
        PROVE  Numbered' /\ n'[Hello] = n[Hello] /\ at'[Hello] = at[Hello]
    BY <1>1, <2>2 DEF Begin, HelloTyped, Numbered
  <2>3. ASSUME NEW t \in Clients \ {Hello}, Send(t)
        PROVE  Numbered' /\ n'[Hello] = n[Hello] /\ at'[Hello] = at[Hello]
    <3>1. /\ n' = n /\ (wire' = wire \/ wire' = Append(wire, Current(t)))
          /\ at'[Hello] = at[Hello]
      BY <1>1, <2>3 DEF Send, ClearInput, Write, ReadLine, TimesOut, PortFails, Return
    <3> QED  BY <1>2, <1>3, <3>1
  <2> QED  BY <1>5, <2>1, <2>2, <2>3 DEF ThreadsSend, Idle
<1>6. CASE ClosePort \/ DeviceReplies
  BY <1>3, <1>6 DEF ClosePort, Close, DeviceReplies, DeviceAnswers, Idle
<1>7. CASE DeviceActs
  BY <1>4, <1>7 DEF DeviceActs, DeviceTakes, Idle
<1> QED  BY <1>5, <1>6, <1>7

LEMMA SurroundingsTyped ==
  ASSUME HelloTyped, [Next]_vars, ~Loop
  PROVE  HelloTyped'
<1> USE HelloAssumption
<1>1. LinkTypeOK'
  BY HelloLinkStep, LinkTypeStep DEF HelloTyped, TypeOK
<1>2. /\ AppsTyped /\ exe \in Apps \cup {None} /\ dialog \in Apps \cup {None}
      /\ dialogs \in Nat /\ pins \in Nat /\ escapes \in Nat
      /\ front \in BOOLEAN /\ steady \in BOOLEAN
  BY AppsTypedIs DEF HelloTyped, TypeOK
<1>3. Numbered' /\ n'[Hello] = n[Hello] /\ (Idle => Idle') /\ UNCHANGED loopVars
  <2>1. CASE ShowDialog \/ CloseDialog \/ LoseFocus \/ UNCHANGED vars
    BY <2>1 DEF ShowDialog, CloseDialog, LoseFocus, vars, linkVars, HelloTyped, Numbered, Idle
  <2> QED  BY <2>1, WireTyped DEF Next
<1>4. Asking'
  BY <1>3 DEF HelloTyped, Asking, loopVars
<1>5. deviceApps' \subseteq Apps
  <2>1. CASE DeviceActs
    <3>1. CASE Requested(Head(wire)) = "config"
      <4>1. wire # <<>> /\ wire \in Seq(Call)
        BY <2>1 DEF DeviceActs, DeviceTakes, HelloTyped, TypeOK, LinkTypeOK
      <4>2. Head(wire) = wire[1] /\ 1 \in DOMAIN wire
        BY <4>1
      <4>3. Head(wire)[2] \in 1..n[Hello]
        BY <3>1, <4>2 DEF HelloTyped, Numbered, Requested
      <4>4. asked[Head(wire)[2]] \in Request
        <5>1. asked \in Seq(Request) /\ Len(asked) = n[Hello]
          BY DEF HelloTyped, TypeOK, Request
        <5> QED  BY <4>3, <5>1
      <4>5. Kept(asked[Head(wire)[2]].apps) \subseteq Apps
        BY <4>4, KeptTyped DEF Request
      <4> QED  BY <2>1, <3>1, <4>5 DEF DeviceActs
    <3> QED  BY <1>2, <2>1, <3>1 DEF DeviceActs, AppsTyped
  <2> QED
    BY <1>2, <2>1 DEF Next, ShowDialog, CloseDialog, LoseFocus, ThreadsSend, ClosePort,
       DeviceReplies, vars, AppsTyped
<1>6. /\ dialog' \in Apps \cup {None} /\ dialogs' \in Nat /\ pins' \in Nat
      /\ escapes' \in Nat /\ front' \in BOOLEAN
  <2>1. CASE DeviceActs
    <3>1. UNCHANGED <<dialog, dialogs, front>> /\ pins' \in {pins, pins + 1}
      BY <2>1 DEF DeviceActs
    <3>2. escapes' \in {escapes, escapes + 1}
      BY <2>1 DEF DeviceActs
    <3> QED  BY <1>2, <3>1, <3>2
  <2>2. CASE ShowDialog
    BY <1>2, <2>2 DEF ShowDialog
  <2>3. CASE CloseDialog \/ LoseFocus
    BY <1>2, <2>3 DEF CloseDialog, LoseFocus
  <2>4. CASE ThreadsSend \/ ClosePort \/ DeviceReplies \/ UNCHANGED vars
    BY <1>2, <2>4 DEF ThreadsSend, ClosePort, DeviceReplies, vars, dialogVars
  <2> QED  BY <2>1, <2>2, <2>3, <2>4 DEF Next
<1>7. steady' \in BOOLEAN
  BY <1>2 DEF Next, ShowDialog, CloseDialog, LoseFocus, ThreadsSend, ClosePort, DeviceActs,
     DeviceReplies, vars
<1>8. UNION {whitelist', deviceApps', unsent'} \subseteq Apps /\ noted' \in Seq(Apps)
  BY <1>2, <1>3, <1>5 DEF AppsTyped, loopVars
<1>9. TypeOK'
  <2>1. /\ loc' \in Places /\ asked' \in Seq(Request) /\ Len(asked') = n'[Hello]
        /\ exe' \in Apps \cup {None}
    BY <1>2, <1>3 DEF HelloTyped, TypeOK, Request, loopVars
  <2> QED  BY <1>1, <1>6, <1>7, <1>8, <2>1 DEF TypeOK, Request
<1> QED  BY <1>3, <1>4, <1>9 DEF HelloTyped

LEMMA HelloTypedAlways == Spec => []HelloTyped
<1>1. Init => HelloTyped
  <2> SUFFICES ASSUME Init PROVE HelloTyped
    OBVIOUS
  <2>1. LinkTypeOK
    BY LinkTypeInit DEF Init
  <2>2. UNION {whitelist, deviceApps, unsent} \subseteq Apps /\ noted \in Seq(Apps)
    BY HelloAssumption DEF Init
  <2>3. asked \in Seq(Request) /\ Len(asked) = n[Hello]
    BY HelloAssumption DEF Init, LinkInit
  <2>4. TypeOK
    <3>1. /\ loc \in Places /\ {exe, dialog} \subseteq Apps \cup {None}
          /\ {dialogs, pins, escapes} \subseteq Nat
      BY DEF Init, Places
    <3>2. {front, steady} \subseteq BOOLEAN
      BY DEF Init
    <3> QED  BY <2>1, <2>2, <2>3, <3>1, <3>2 DEF TypeOK, Request
  <2>5. Numbered /\ Asking
    BY HelloAssumption DEF Init, LinkInit, Numbered, Asking, Calling, Idle
  <2> QED  BY <2>4, <2>5 DEF HelloTyped
<1>2. HelloTyped /\ [Next]_vars => HelloTyped'
  BY LoopTyped, SurroundingsTyped DEF Next
<1> QED  BY <1>1, <1>2, PTL DEF Spec

(* Every variable has its type, for every set of applications and clients  *)
(* and whatever becomes of the dialogs; in particular each command of the  *)
(* detector on the wire is one it has asked for.                           *)
THEOREM HelloTypeCorrect == Spec => []TypeOK
<1>1. HelloTyped => TypeOK
  BY DEF HelloTyped
<1> QED  BY <1>1, HelloTypedAlways, PTL

-----------------------------------------------------------------------------
(* While a dialog is handled and nothing has come in between, it is that   *)
(* of the owner that was found, who is not disabled.                       *)

Handling == {"pushing", "focus", "test", "refocus", "retest", "gate", "typing"}

LookedAt ==
  /\ steady \/ front => Visible
  /\ steady /\ loc \in Handling => (exe # None => exe = dialog /\ exe \notin Refused)
  /\ steady /\ loc = "typing" => front

LEMMA LookedAtStep ==
  ASSUME LookedAt, [Next]_vars
  PROVE  LookedAt'
<1> USE HelloAssumption DEF LookedAt, Visible
<1>1. CASE LookForDialog \/ LoopEnds \/ ConfigReturns \/ HelloReturns \/ WaitForDismiss
           \/ EscapeReturns
  <2>1. /\ UNCHANGED <<dialog, front, steady, exe>> /\ loc' # "typing"
        /\ loc' \in Handling => loc \in Handling
    BY <1>1 DEF LookForDialog, LoopEnds, ConfigReturns, HelloReturns, WaitForDismiss,
       EscapeReturns, Goto, dialogVars, Handling
  <2> QED  BY <2>1
<1>2. CASE FindOwner
  <2>1. /\ exe' \in {dialog, None} /\ (steady' => dialog # None) /\ UNCHANGED <<dialog, front>>
        /\ loc' # "typing" /\ (loc' \in Handling => exe' \notin Refused)
    BY <1>2 DEF FindOwner, GetOwner, IsAllowed, Goto, dialogVars, Handling
  <2> QED  BY <2>1
<1>3. CASE NewApp
  <2>1. /\ exe' = dialog /\ exe' # None /\ exe' \notin Refused /\ UNCHANGED <<dialog, front>>
        /\ loc' # "typing"
    BY <1>3 DEF NewApp, GetOwner, IsNew, OnNewApp, NotConnected, Goto, dialogVars
  <2> QED  BY <2>1
<1>4. CASE Focus
  <2>1. /\ UNCHANGED <<dialog, steady, exe>> /\ loc \in Handling /\ loc' # "typing"
        /\ (front' => front \/ dialog # None)
    BY <1>4 DEF Focus, FocusDialog, Goto, Handling
  <2> QED  BY <2>1
<1>5. CASE TestFocus \/ LastTest
  <2>1. /\ UNCHANGED <<dialog, front, steady, exe>> /\ loc \in Handling
        /\ (loc' = "typing" => front)
    BY <1>5 DEF TestFocus, LastTest, IsForeground, Goto, dialogVars, Handling
  <2> QED  BY <2>1
<1>6. CASE ShowDialog
  <2>1. dialog' # None /\ ~steady /\ (steady' <=> steady)
    BY <1>6 DEF ShowDialog
  <2> QED  BY <2>1
<1>7. CASE CloseDialog
  BY <1>7 DEF CloseDialog
<1>8. CASE LoseFocus
  <2>1. /\ front' = FALSE /\ UNCHANGED <<dialog, loc, exe>>
        /\ (steady' => steady /\ loc # "typing")
    BY <1>8 DEF LoseFocus, loopVars
  <2> QED  BY <2>1
<1>9. CASE ThreadsSend \/ ClosePort \/ DeviceActs \/ DeviceReplies \/ UNCHANGED vars
  <2>1. UNCHANGED <<dialog, front, steady, exe, loc>>
    BY <1>9 DEF ThreadsSend, ClosePort, DeviceActs, DeviceReplies, vars, loopVars, dialogVars
  <2> QED  BY <2>1
<1> QED
  BY <1>1, <1>2, <1>3, <1>4, <1>5, <1>6, <1>7, <1>8, <1>9 DEF Next, Loop

(* A PIN that is still waited for goes into the dialog of an app that is   *)
(* not disabled, unless the dialog has gone or has lost the focus since    *)
(* the last test of _handle_dialog, or its owner was not found.            *)
THEOREM PinGoesToAllowed == Spec => PinForAllowed
<1>1. Init => LookedAt
  BY HelloAssumption DEF Init, LookedAt, Visible
<1>2. LookedAt /\ [Next]_vars => LookedAt'
  BY LookedAtStep
<1>3. LookedAt => (PinTyped /\ loc = "typing" /\ Head(wire) = Current(Hello) /\ steady =>
                     front /\ (exe # None => dialog \notin Refused))
  BY DEF LookedAt, Handling
<1> QED  BY <1>1, <1>2, <1>3, PTL DEF Spec, PinForAllowed

-----------------------------------------------------------------------------
(* What the device has of the noted apps it has room for, or will have     *)
(* when it has read the last configuration on the wire: all but some.      *)

IsConfig(i) == Requested(wire[i]) = "config"

Covers(apps) ==
  /\ \A i \in DOMAIN wire :
       IsConfig(i) /\ (\A k \in DOMAIN wire : k > i => ~IsConfig(k)) =>
         Kept(noted) \ Kept(asked[wire[i][2]].apps) \subseteq apps
  /\ (\A i \in DOMAIN wire : ~IsConfig(i)) => Kept(noted) \ deviceApps \subseteq apps

Noting ==
  /\ loc # "pushing" => Covers(unsent)
  /\ loc = "pushing" /\ (at[Hello] = "reading" \/ (Idle /\ result[Hello] # {})) => Covers({})

(* Another command behind those on the wire changes nothing of it ...      *)
LEMMA CoversOthers ==
  ASSUME wire \in Seq(Call), NEW call, Requested(call) # "config", NEW apps, Covers(apps),
         wire' \in {wire, Append(wire, call)}, UNCHANGED <<asked, noted, deviceApps>>
  PROVE  Covers(apps)'
<1>1. \A i \in DOMAIN wire : i \in DOMAIN wire' /\ wire'[i] = wire[i] /\ IsConfig(i)' = IsConfig(i)
  BY DEF IsConfig, Requested
<1>2. \A i \in DOMAIN wire' \ DOMAIN wire : ~IsConfig(i)'
  <2>1. \A i \in DOMAIN wire' \ DOMAIN wire : wire'[i] = call
    OBVIOUS
  <2> QED  BY <2>1 DEF IsConfig, Requested
<1> QED  BY <1>1, <1>2 DEF Covers

(* ... a configuration with all apps covers them ...                       *)
LEMMA CoversSent ==
  ASSUME wire \in Seq(Call), NEW call, Requested(call) = "config",
         asked[call[2]].apps = noted, wire' = Append(wire, call), UNCHANGED <<asked, noted>>
  PROVE  Covers({})'
<1>1. PICK last \in DOMAIN wire' :
        wire'[last] = call /\ \A i \in DOMAIN wire' : i = last \/ last > i
  OBVIOUS
<1>2. IsConfig(last)'
  BY <1>1 DEF IsConfig, Requested
<1>3. \A i \in DOMAIN wire' :
        IsConfig(i)' /\ (\A k \in DOMAIN wire' : k > i => ~IsConfig(k)') => i = last
  BY <1>1, <1>2
<1> QED  BY <1>1, <1>2, <1>3 DEF Covers

(* ... and what the device takes it has.                                   *)
LEMMA CoversTaken ==
  ASSUME wire \in Seq(Call), wire # <<>>, wire' = Tail(wire), UNCHANGED <<asked, noted>>,
         deviceApps' = IF IsConfig(1) THEN Kept(asked[wire[1][2]].apps) ELSE deviceApps,
         NEW apps, Covers(apps)
  PROVE  Covers(apps)'
<1>1. \A i \in DOMAIN wire' : i + 1 \in DOMAIN wire /\ wire'[i] = wire[i + 1]
  OBVIOUS
<1>2. \A i \in DOMAIN wire : i = 1 \/ (i - 1 \in DOMAIN wire' /\ wire'[i - 1] = wire[i])
  OBVIOUS
<1>3. \A i \in DOMAIN wire' : IsConfig(i)' = IsConfig(i + 1)
  BY <1>1 DEF IsConfig, Requested
<1>4. \A i \in DOMAIN wire : i = 1 \/ IsConfig(i) = IsConfig(i - 1)'
  BY <1>2 DEF IsConfig, Requested
<1>5. ASSUME NEW i \in DOMAIN wire', IsConfig(i)',
             \A k \in DOMAIN wire' : k > i => ~IsConfig(k)'
      PROVE  Kept(noted') \ Kept(asked'[wire'[i][2]].apps) \subseteq apps
  <2>1. i + 1 \in DOMAIN wire /\ IsConfig(i + 1)
    BY <1>1, <1>3, <1>5
  <2>2. ASSUME NEW k \in DOMAIN wire, k > i + 1 PROVE ~IsConfig(k)
    <3>1. k # 1 /\ k - 1 > i
      BY <2>2
    <3>2. k - 1 \in DOMAIN wire' /\ IsConfig(k) = IsConfig(k - 1)'
      BY <1>2, <1>4, <3>1
    <3> QED  BY <1>5, <3>1, <3>2
  <2> QED  BY <1>1, <2>1, <2>2 DEF Covers
<1>6. ASSUME \A i \in DOMAIN wire' : ~IsConfig(i)'
      PROVE  Kept(noted') \ deviceApps' \subseteq apps
  <2>1. 1 \in DOMAIN wire /\ \A k \in DOMAIN wire : k > 1 => ~IsConfig(k)
    BY <1>2, <1>4, <1>6
  <2>2. CASE IsConfig(1)
    BY <2>1, <2>2 DEF Covers
  <2>3. CASE ~IsConfig(1)
    <3>1. \A k \in DOMAIN wire : ~IsConfig(k)
      BY <2>1, <2>3
    <3> QED  BY <2>3, <3>1 DEF Covers
  <2> QED  BY <2>2, <2>3
<1> QED  BY <1>5, <1>6 DEF Covers

LEMMA CoversKept ==
  ASSUME UNCHANGED <<wire, asked, noted, deviceApps>>, NEW apps, Covers(apps)
  PROVE  Covers(apps)'
  BY DEF Covers, IsConfig, Requested

(* A new call leaves what was asked for before.                            *)
LEMMA CoversAsked ==
  ASSUME HelloTyped, NEW kind \in {"config", "hello", "escape"}, NEW what \in Seq(Apps),
         Ask(kind, what), UNCHANGED <<noted, deviceApps>>, NEW apps, Covers(apps)
  PROVE  Covers(apps)'
<1>1. wire' = wire /\ \A k \in 1..n[Hello] : asked'[k] = asked[k]
  BY AskTyped DEF Ask, Begin
<1>2. \A i \in DOMAIN wire : wire[i][1] = Hello => asked'[wire[i][2]] = asked[wire[i][2]]
  BY <1>1 DEF HelloTyped, Numbered
<1>3. \A i \in DOMAIN wire : IsConfig(i)' = IsConfig(i)
  BY <1>1, <1>2 DEF IsConfig, Requested
<1>4. \A i \in DOMAIN wire : IsConfig(i) => wire[i][1] = Hello
  BY DEF IsConfig, Requested
<1> QED  BY <1>1, <1>2, <1>3, <1>4 DEF Covers

LEMMA LoopNotes ==
  ASSUME HelloTyped, Noting, Loop
  PROVE  Noting'
<1> USE HelloAssumption
<1>1. at \in [Clients -> Steps] /\ result \in [Clients -> SUBSET Answer]
  BY DEF HelloTyped, TypeOK, LinkTypeOK
<1>2. CASE LookForDialog \/ LoopEnds \/ FindOwner \/ Focus \/ TestFocus
           \/ HelloReturns \/ EscapeReturns
  <2>1. /\ UNCHANGED <<wire, asked, noted, deviceApps, unsent>>
        /\ loc # "pushing" /\ loc' # "pushing"
    BY <1>2 DEF LookForDialog, LoopEnds, FindOwner, Focus, TestFocus, HelloReturns,
       EscapeReturns, Goto, linkVars
  <2> QED  BY <2>1, CoversKept DEF Noting
<1>3. CASE NewApp
  <2>1. CASE NotConnected
    <3>1. /\ UNCHANGED <<wire, asked, noted, deviceApps, unsent>>
          /\ loc # "pushing" /\ loc' # "pushing"
      BY <1>3, <2>1 DEF NewApp, NotConnected, Goto, linkVars
    <3> QED  BY <3>1, CoversKept DEF Noting
  <2>2. CASE OnNewApp(exe')
    <3>1. loc' = "pushing" /\ at'[Hello] # "reading" /\ result'[Hello] = {}
      BY <1>1, <2>2 DEF OnNewApp, Ask, Begin, Goto
    <3> QED  BY <3>1 DEF Noting
  <2> QED  BY <1>3, <2>1, <2>2 DEF NewApp
<1>4. CASE ConfigReturns
  <2>1. /\ UNCHANGED <<wire, asked, noted, deviceApps>> /\ loc' # "pushing"
        /\ loc = "pushing" /\ Idle /\ unsent' = IF result[Hello] = {} THEN Kept(noted) ELSE {}
    BY <1>4 DEF ConfigReturns, Goto, linkVars
  <2>2. CASE result[Hello] = {}
    BY <2>1, <2>2 DEF Noting, Covers
  <2>3. CASE result[Hello] # {}
    <3>1. Covers({})'
      BY <2>1, <2>3, CoversKept DEF Noting
    <3> QED  BY <2>1, <2>3, <3>1 DEF Noting, Covers
  <2> QED  BY <2>2, <2>3
<1>5. CASE LastTest \/ WaitForDismiss
  <2>1. /\ UNCHANGED <<noted, deviceApps, unsent>> /\ loc # "pushing" /\ loc' # "pushing"
        /\ UNCHANGED <<linkVars, asked>> \/ Ask("hello", <<>>) \/ Ask("escape", <<>>)
    BY <1>5 DEF LastTest, WaitForDismiss, Goto
  <2>2. Covers(unsent)
    BY <2>1 DEF Noting
  <2>3. \A apps : Covers(apps) => Covers(apps)'
    <3>1. CASE UNCHANGED <<linkVars, asked>>
      BY <2>1, <3>1, CoversKept DEF linkVars
    <3>2. CASE Ask("hello", <<>>)
      BY <2>1, <3>2, CoversAsked, NoApps
    <3>3. CASE Ask("escape", <<>>)
      BY <2>1, <3>3, CoversAsked, NoApps
    <3> QED  BY <2>1, <3>1, <3>2, <3>3
  <2> QED  BY <2>1, <2>2, <2>3 DEF Noting
<1> QED  BY <1>2, <1>3, <1>4, <1>5 DEF Loop

LEMMA SurroundingsNote ==
  ASSUME HelloTyped, Noting, [Next]_vars, ~Loop
  PROVE  Noting'
<1> USE HelloAssumption
<1>1. /\ at \in [Clients -> Steps] /\ result \in [Clients -> SUBSET Answer]
      /\ wire \in Seq(Call)
  BY DEF HelloTyped, TypeOK, LinkTypeOK
<1>2. UNCHANGED loopVars
  BY DEF Next, ShowDialog, CloseDialog, LoseFocus, ThreadsSend, ClosePort, DeviceActs,
     DeviceReplies, vars
<1>3. ASSUME \A apps : Covers(apps) => Covers(apps)',
             UNCHANGED <<at, result>> \/ (at'[Hello] = at[Hello] /\ result'[Hello] = result[Hello])
      PROVE  Noting'
  BY <1>2, <1>3 DEF Noting, loopVars, Idle
<1>4. CASE ShowDialog \/ CloseDialog \/ LoseFocus \/ ClosePort \/ DeviceReplies
           \/ UNCHANGED vars
  <2>1. UNCHANGED <<wire, deviceApps, at, result>>
    BY <1>4 DEF ShowDialog, CloseDialog, LoseFocus, ClosePort, Close, DeviceReplies,
       DeviceAnswers, vars, linkVars
  <2> QED  BY <1>2, <1>3, <2>1, CoversKept DEF loopVars
<1>5. CASE DeviceActs
  <2>1. /\ wire # <<>> /\ wire' = Tail(wire) /\ UNCHANGED <<at, result>>
        /\ deviceApps' = IF Requested(Head(wire)) = "config"
                         THEN Kept(asked[Head(wire)[2]].apps) ELSE deviceApps
    BY <1>5 DEF DeviceActs, DeviceTakes
  <2>2. deviceApps' = IF IsConfig(1) THEN Kept(asked[wire[1][2]].apps) ELSE deviceApps
    BY <1>1, <2>1 DEF IsConfig
  <2> QED  BY <1>1, <1>2, <1>3, <2>1, <2>2, CoversTaken DEF loopVars
<1>6. CASE ThreadsSend /\ ~Send(Hello)
  <2>1. PICK t \in Clients \ {Hello} : Begin(t) \/ Send(t)
    BY <1>6 DEF ThreadsSend
  <2>2. /\ wire' \in {wire, Append(wire, Current(t))} /\ deviceApps' = deviceApps
        /\ at'[Hello] = at[Hello] /\ result'[Hello] = result[Hello]
    BY <1>1, <1>6, <2>1 DEF ThreadsSend, Begin, Send, ClearInput, Write, ReadLine, TimesOut,
       PortFails, Return
  <2>3. Requested(Current(t)) # "config"
    BY <2>1 DEF Requested, Current
  <2> QED  BY <1>1, <1>2, <1>3, <2>2, <2>3, CoversOthers DEF loopVars
<1>7. CASE ThreadsSend /\ Send(Hello)
  <2>1. deviceApps' = deviceApps /\ UNCHANGED <<loc, asked, noted, unsent>>
    BY <1>2, <1>7 DEF ThreadsSend, loopVars
  <2>2. at[Hello] # "idle" /\ loc \in Calling
    BY <1>7 DEF Send, ClearInput, Write, ReadLine, TimesOut, PortFails, HelloTyped, Asking, Idle
  <2>3. CASE Write(Hello)
    <3>1. wire' = Append(wire, Current(Hello))
      BY <2>3 DEF Write
    <3>2. CASE loc = "pushing"
      <4>1. Requested(Current(Hello)) = "config" /\ asked[Current(Hello)[2]].apps = noted
        BY <3>2 DEF HelloTyped, Asking, Requested, Current
      <4>2. Covers({})'
        BY <1>1, <2>1, <3>1, <4>1, CoversSent
      <4> QED  BY <2>1, <3>2, <4>2 DEF Noting
    <3>3. CASE loc # "pushing"
      <4>1. Requested(Current(Hello)) # "config"
        BY <2>2, <3>3 DEF HelloTyped, Asking, Requested, Current, Calling
      <4>2. Covers(unsent)'
        BY <1>1, <2>1, <3>1, <3>3, <4>1, CoversOthers DEF Noting
      <4> QED  BY <2>1, <3>3, <4>2 DEF Noting
    <3> QED  BY <3>2, <3>3
  <2>4. CASE ~Write(Hello)
    <3>1. wire' = wire
      BY <1>7, <2>4 DEF Send, ClearInput, ReadLine, TimesOut, PortFails, Return
    <3>2. \A apps : Covers(apps) => Covers(apps)'
      BY <2>1, <3>1, CoversKept
    <3>3. \/ at'[Hello] = "writing"
          \/ at'[Hello] = "idle" /\ (result'[Hello] = {} \/ at[Hello] = "reading")
      BY <1>1, <1>7, <2>4 DEF Send, ClearInput, ReadLine, TimesOut, PortFails, Return
    <3> QED  BY <2>1, <3>2, <3>3 DEF Noting, Idle
  <2> QED  BY <2>3, <2>4
<1> QED  BY <1>4, <1>5, <1>6, <1>7 DEF Next

(* What the service has noted, the device's configuration has too once the *)
(* commands on the wire are read, the oldest first and as many as it has   *)
(* room for, unless the last SET_CONFIG raised: a later one carries what   *)
(* an earlier one lost (_on_new_app_discovered).                           *)
THEOREM NotedIsSent == Spec => []NotedReachesDevice
<1>1. Init => Noting
  BY NoApps DEF Init, LinkInit, Noting, Covers
<1>2. HelloTyped /\ Noting /\ [Next]_vars => Noting'
  BY LoopNotes, SurroundingsNote
<1>3. Noting => NotedReachesDevice
  BY DEF Noting, Covers, IsConfig, NotedReachesDevice
<1> QED  BY <1>1, <1>2, <1>3, HelloTypedAlways, PTL DEF Spec

-----------------------------------------------------------------------------
(* As long as no call has been given up, one command or answer at most is  *)
(* under way, also when the port has been closed in the middle of a call.  *)

OneInFlight == Quiet \/ \E call : Pending(call)

LinkInStep == LinkTypeOK /\ OneCaller /\ InStep

LEMMA OneInFlightStep ==
  ASSUME LinkInStep, ~overdue, ~overdue', OneInFlight, [LinkStep]_linkVars
  PROVE  OneInFlight'
<1> USE DEF OneInFlight
<1>1. ASSUME NEW u \in Clients, Begin(u) \/ PortFails(u) PROVE OneInFlight'
  BY <1>1 DEF Begin, PortFails, Return, Quiet, Pending
<1>2. ASSUME NEW u \in Clients, ClearInput(u) \/ Write(u)
      PROVE  Quiet
  <2>1. open /\ at[u] # "reading" /\ (owner = {} \/ owner = {u})
    BY <1>2 DEF ClearInput, Write, LinkInStep, OneCaller, InCall
  <2>2. \A t \in Clients : at[t] # "reading"
    BY <2>1 DEF LinkInStep, OneCaller, InCall
  <2> QED  BY <2>1, <2>2 DEF LinkInStep, InStep
<1>3. ASSUME NEW u \in Clients, ClearInput(u) PROVE OneInFlight'
  BY <1>2, <1>3 DEF ClearInput, Quiet
<1>4. ASSUME NEW u \in Clients, Write(u) PROVE OneInFlight'
  BY <1>2, <1>4, WritePends
<1>5. ASSUME NEW u \in Clients, ReadLine(u) PROVE OneInFlight'
  <2>1. Pending(Current(u)) /\ input # <<>>
    BY <1>5 DEF ReadLine, LinkInStep, InStep
  <2>2. Tail(input) = <<>> /\ wire = <<>> /\ busy = <<>>
    BY <2>1, ReadQuiets
  <2> QED  BY <1>5, <2>2 DEF ReadLine, Return, Quiet
<1>6. ASSUME NEW u \in Clients, TimesOut(u) PROVE OneInFlight'
  BY <1>6 DEF TimesOut
<1>7. CASE Device
  <2>1. PICK call : Pending(call)
    BY <1>7, DeviceKeepsQuiet
  <2>2. Pending(call)' \/ Quiet'
    BY <1>7, <2>1, DeviceKeepsPending
  <2> QED  BY <2>2
<1>8. CASE Close
  <2>1. wire' = wire /\ busy' = busy /\ input' = <<>>
    BY <1>8 DEF Close
  <2>2. Quiet => Quiet'
    BY <2>1 DEF Quiet
  <2>3. ASSUME NEW call, Pending(call) PROVE Quiet' \/ Pending(call)'
    BY <2>1, <2>3 DEF Quiet, Pending
  <2> QED  BY <2>2, <2>3
<1>9. CASE UNCHANGED linkVars
  BY <1>9 DEF linkVars, Quiet, Pending
<1> QED
  BY <1>1, <1>3, <1>4, <1>5, <1>6, <1>7, <1>8, <1>9 DEF LinkStep, Send

-----------------------------------------------------------------------------
(* A dialog that is looked for has not got more PINs than ESCAPEs; one     *)
(* that gets one more is waited for until an ESCAPE has been taken.  Once  *)
(* the port is closed only the command on the wire counts.                 *)

Settled == Visible => pins <= escapes

HelloWaits == wire # <<>> /\ Requested(Head(wire)) = "hello"

Accepted == \E call : \/ busy = <<[call |-> call, ok |-> TRUE]>>
                      \/ input = <<[call |-> call, ok |-> TRUE]>>

BeforeHello == Places \ {"typing", "dismiss", "escaping", "dead"}

Answered ==
  /\ loc \in BeforeHello => Settled
  /\ loc = "typing" =>
       \/ Settled
       \/ at[Hello] = "reading" /\ Accepted
       \/ Idle /\ Succeeded
  /\ loc = "escaping" =>
       \/ Settled
       \/ at[Hello] \in {"locking", "writing"}
       \/ at[Hello] = "reading" /\ wire # <<>>

TypedOnce ==
  ~overdue =>
    /\ OneInFlight
    /\ pins <= escapes + 1
    /\ HelloWaits => Settled
    /\ open => Answered

LEMMA WaitsUnlessTyped ==
  ASSUME HelloTyped, Loop
  PROVE  HelloWaits' = HelloWaits
<1>1. wire' = wire /\ wire \in Seq(Call)
  BY DEF Loop, LookForDialog, LoopEnds, FindOwner, NewApp, OnNewApp, NotConnected,
     ConfigReturns, Focus, TestFocus, LastTest, HelloReturns, WaitForDismiss,
     EscapeReturns, Ask, Begin, linkVars, HelloTyped, TypeOK, LinkTypeOK
<1>2. ASSUME NEW kind \in {"config", "hello", "escape"}, NEW apps \in Seq(Apps),
             Ask(kind, apps)
      PROVE  HelloWaits' = HelloWaits
  <2>1. CASE wire # <<>>
    <3>1. Head(wire) = wire[1] /\ 1 \in DOMAIN wire
      BY <1>1, <2>1
    <3>2. Head(wire)[1] = Hello => asked'[Head(wire)[2]] = asked[Head(wire)[2]]
      BY <1>2, <3>1, AskTyped DEF HelloTyped, Numbered
    <3> QED  BY <1>1, <3>2 DEF HelloWaits, Requested
  <2> QED  BY <1>1, <2>1 DEF HelloWaits
<1>3. CASE asked' = asked
  BY <1>1, <1>3 DEF HelloWaits, Requested
<1>4. CASE asked' # asked
  <2>1. CASE NewApp
    <3>1. noted' = Append(noted, exe') /\ Ask("config", noted') /\ exe' \in {dialog, None}
          /\ exe' # None
      BY <1>4, <2>1 DEF NewApp, OnNewApp, NotConnected, GetOwner
    <3>2. noted' \in Seq(Apps)
      BY <3>1, AppsTypedIs DEF HelloTyped, TypeOK, AppsTyped
    <3> QED  BY <1>2, <3>1, <3>2
  <2>2. CASE LastTest \/ WaitForDismiss
    <3>1. Ask("hello", <<>>) \/ Ask("escape", <<>>)
      BY <1>4, <2>2 DEF LastTest, WaitForDismiss
    <3> QED  BY <1>2, <3>1, NoApps
  <2> QED
    BY <1>4, <2>1, <2>2 DEF Loop, LookForDialog, LoopEnds, FindOwner, ConfigReturns, Focus,
       TestFocus, HelloReturns, EscapeReturns
<1> QED  BY <1>3, <1>4

LEMMA LoopSettles ==
  ASSUME HelloTyped, open, Answered, Loop
  PROVE  Answered'
<1> USE HelloAssumption DEF Answered, BeforeHello, Places
<1>1. UNCHANGED <<dialog, pins, escapes>>
  BY DEF Loop, LookForDialog, LoopEnds, FindOwner, NewApp, ConfigReturns, Focus, TestFocus,
     LastTest, HelloReturns, WaitForDismiss, EscapeReturns, dialogVars
<1>2. Settled => Settled'
  BY <1>1 DEF Settled, Visible
<1>3. CASE LookForDialog \/ LoopEnds \/ FindOwner \/ NewApp \/ ConfigReturns \/ Focus
           \/ TestFocus \/ LastTest
  <2>1. loc \in BeforeHello
    BY <1>3 DEF LookForDialog, LoopEnds, FindOwner, NewApp, ConfigReturns, Focus,
       TestFocus, LastTest
  <2>2. Settled'
    BY <1>2, <2>1
  <2>3. loc' # "escaping"
    BY <1>3 DEF LookForDialog, LoopEnds, FindOwner, NewApp, OnNewApp, NotConnected,
       ConfigReturns, Focus, TestFocus, LastTest, Goto
  <2> QED  BY <2>2, <2>3
<1>4. CASE HelloReturns
  BY <1>2, <1>4 DEF HelloReturns, Goto, Idle
<1>5. CASE WaitForDismiss
  <2>1. CASE ~Visible
    BY <1>1, <1>5, <2>1 DEF WaitForDismiss, Dismissed, Goto, Settled, Visible
  <2>2. CASE Visible
    <3>1. at \in [Clients -> Steps] /\ Begin(Hello) /\ loc' = "escaping"
      BY <1>5, <2>2 DEF WaitForDismiss, Dismissed, Goto, Ask, HelloTyped, TypeOK, LinkTypeOK
    <3>2. at'[Hello] = "locking"
      BY <3>1 DEF Begin
    <3> QED  BY <3>1, <3>2
  <2> QED  BY <2>1, <2>2
<1>6. CASE EscapeReturns
  BY <1>2, <1>6 DEF EscapeReturns, Goto, Idle
<1> QED  BY <1>3, <1>4, <1>5, <1>6 DEF Loop

HelloLink == HelloTyped /\ LookedAt /\ LinkInStep

(* Only the command of a client that writes comes onto the wire, and only  *)
(* when nothing else is under way.                                         *)
LEMMA SendingSettles ==
  ASSUME HelloLink, TypedOnce, ~overdue, ~overdue', ThreadsSend
  PROVE  (HelloWaits' => Settled') /\ (open' => Answered')
<1> USE HelloAssumption
<1>1. /\ at \in [Clients -> Steps] /\ result \in [Clients -> SUBSET Answer]
      /\ UNCHANGED <<loc, asked, dialog, pins, escapes>> /\ open' = open
  BY DEF ThreadsSend, Send, Begin, ClearInput, Write, ReadLine, TimesOut, PortFails, Return,
     loopVars, dialogVars, HelloLink, LinkInStep, LinkTypeOK
<1>2. /\ (Settled' <=> Settled) /\ (HelloWaits => Settled) /\ (open => Answered)
  BY <1>1 DEF Settled, Visible, TypedOnce
<1>3. ASSUME wire' = wire PROVE HelloWaits' => Settled'
  BY <1>1, <1>2, <1>3 DEF HelloWaits, Requested
<1>4. ASSUME NEW t \in Clients, Write(t)
      PROVE  /\ open /\ wire' = <<Current(t)>> /\ at[t] = "writing"
             /\ \A u \in Clients : at[u] # "reading"
             /\ at' = [at EXCEPT ![t] = "reading"]
  <2>1. open /\ at[t] = "writing" /\ wire' = Append(wire, Current(t))
    BY <1>4 DEF Write
  <2>2. \A u \in Clients : at[u] # "reading"
    BY <2>1 DEF HelloLink, LinkInStep, OneCaller, InCall
  <2>3. wire = <<>>
    BY <2>1, <2>2 DEF HelloLink, LinkInStep, InStep, Quiet
  <2> QED  BY <1>4, <2>1, <2>2, <2>3 DEF Write
<1>5. CASE Send(Hello)
  <2>1. loc \in Calling
    BY <1>5 DEF Send, ClearInput, Write, ReadLine, TimesOut, PortFails, HelloLink, HelloTyped,
       Asking, Idle
  <2>2. CASE ClearInput(Hello)
    <3>1. wire' = wire /\ open /\ at[Hello] = "locking" /\ at'[Hello] = "writing"
      BY <1>1, <2>2 DEF ClearInput
    <3> QED  BY <1>1, <1>2, <1>3, <3>1 DEF Answered, Idle
  <2>3. CASE Write(Hello)
    <3>1. /\ open /\ wire' = <<Current(Hello)>> /\ at[Hello] = "writing"
          /\ at'[Hello] = "reading"
      BY <1>1, <1>4, <2>3
    <3>2. HelloWaits' => loc = "typing"
      <4>1. Head(wire') = Current(Hello)
        BY <3>1
      <4> QED
        BY <1>1, <2>1, <4>1 DEF HelloWaits, Requested, Current, Calling, HelloLink, HelloTyped, Asking
    <3>3. wire' # <<>>
      BY <3>1
    <3> QED  BY <1>1, <1>2, <3>1, <3>2, <3>3 DEF Answered, Idle
  <2>4. CASE ReadLine(Hello)
    <3>1. /\ open /\ at[Hello] = "reading" /\ input # <<>> /\ wire' = wire
          /\ at'[Hello] = "idle" /\ result'[Hello] = {Head(input)}
      BY <1>1, <2>4 DEF ReadLine, Return
    <3>2. Pending(Current(Hello))
      BY <3>1 DEF HelloLink, LinkInStep, InStep
    <3>3. wire = <<>> /\ busy = <<>>
      BY <3>1, <3>2, ReadQuiets
    <3>4. ASSUME NEW call, input = <<[call |-> call, ok |-> TRUE]>>
          PROVE  Head(input).ok
      BY <3>4
    <3>5. Accepted => Head(input).ok
      BY <3>3, <3>4 DEF Accepted
    <3> QED  BY <1>1, <1>2, <1>3, <3>1, <3>3, <3>5 DEF Answered, Idle, Succeeded
  <2>5. CASE PortFails(Hello)
    BY <1>1, <1>3, <2>5 DEF PortFails, Return
  <2> QED  BY <1>5, <2>2, <2>3, <2>4, <2>5 DEF Send, TimesOut
<1>6. ASSUME NEW t \in Clients \ {Hello}, Begin(t) \/ Send(t)
      PROVE  (HelloWaits' => Settled') /\ (open' => Answered')
  <2>1. at'[Hello] = at[Hello] /\ result'[Hello] = result[Hello]
    BY <1>1, <1>6 DEF Begin, Send, ClearInput, Write, ReadLine, TimesOut, PortFails, Return
  <2>2. at[Hello] = "reading" => UNCHANGED <<wire, busy, input>>
    <3> SUFFICES ASSUME at[Hello] = "reading" PROVE UNCHANGED <<wire, busy, input>>
      OBVIOUS
    <3>1. owner = {Hello}
      BY DEF HelloLink, LinkInStep, OneCaller, InCall
    <3>2. owner # {} /\ ~InCall(t)
      BY <1>6, <3>1 DEF HelloLink, LinkInStep, OneCaller
    <3> QED
      BY <1>6, <3>2 DEF InCall, Begin, Send, ClearInput, Write, ReadLine, TimesOut, PortFails
  <2>3. open' => Answered'
    BY <1>1, <1>2, <2>1, <2>2 DEF Answered, Idle, Succeeded, Accepted
  <2>4. CASE Write(t)
    <3>1. Head(wire') = <<t, n[t]>>
      BY <1>4, <2>4 DEF Current
    <3> QED  BY <1>6, <2>3, <3>1 DEF HelloWaits, Requested
  <2>5. CASE ~Write(t)
    <3>1. wire' = wire
      BY <1>6, <2>5 DEF Begin, Send, ClearInput, ReadLine, TimesOut, PortFails, Return
    <3> QED  BY <1>3, <2>3, <3>1
  <2> QED  BY <2>4, <2>5
<1> QED  BY <1>5, <1>6 DEF ThreadsSend

(* The device takes the one command there is: a PIN is typed while the     *)
(* detector waits for it, and an ESCAPE makes up for it.                   *)
LEMMA TakingSettles ==
  ASSUME HelloLink, TypedOnce, ~overdue, DeviceActs
  PROVE  pins' <= escapes' + 1 /\ ~HelloWaits' /\ (open' => Answered')
<1> USE HelloAssumption
<1>1. PICK ok \in BOOLEAN :
        /\ DeviceTakes(ok)
        /\ pins' = IF Requested(Head(wire)) = "hello" /\ ok /\ front THEN pins + 1 ELSE pins
        /\ escapes' = IF Requested(Head(wire)) = "escape" THEN escapes + 1 ELSE escapes
  BY DEF DeviceActs
<1>2. /\ UNCHANGED <<loc, dialog, front, at, result, open>>
      /\ wire # <<>> /\ busy' = <<[call |-> Head(wire), ok |-> ok]>> /\ wire' = Tail(wire)
  BY <1>1 DEF DeviceActs, DeviceTakes, loopVars
<1>3. PICK call : Pending(call)
  BY <1>2 DEF TypedOnce, OneInFlight, Quiet
<1>4. wire = <<call>> /\ wire' = <<>> /\ Head(wire) = call
  <2>1. wire = <<call>>
    BY <1>2, <1>3 DEF Pending
  <2> QED  BY <1>2, <2>1
<1>5. pins \in Nat /\ escapes \in Nat /\ pins <= escapes + 1 /\ (HelloWaits => Settled)
      /\ (open => Answered)
  BY DEF HelloLink, HelloTyped, TypeOK, TypedOnce
<1>6. ok => Accepted'
  BY <1>2 DEF Accepted
<1>7. open => \E t \in Clients : at[t] = "reading" /\ call = Current(t)
  <2> SUFFICES ASSUME open PROVE \E t \in Clients : at[t] = "reading" /\ call = Current(t)
    OBVIOUS
  <2>1. ~Quiet
    BY <1>2 DEF Quiet
  <2>2. PICK t \in Clients : at[t] = "reading" /\ Pending(Current(t))
    BY <2>1 DEF HelloLink, LinkInStep, InStep
  <2>3. wire = <<Current(t)>>
    BY <1>2, <2>2 DEF Pending
  <2> QED  BY <1>4, <2>2, <2>3
<1>8. open /\ at[Hello] = "reading" => call = Current(Hello)
  BY <1>7 DEF HelloLink, LinkInStep, OneCaller, InCall
<1>9. CASE Requested(call) = "hello"
  <2>1. Settled
    BY <1>2, <1>4, <1>5, <1>9 DEF HelloWaits
  <2>2. front => Visible
    BY DEF HelloLink, LookedAt
  <2>3. pins' <= escapes' + 1 /\ (Settled' \/ ok)
    BY <1>1, <1>2, <1>4, <1>5, <1>9, <2>1, <2>2 DEF Settled, Visible
  <2>4. open => loc = "typing" /\ at[Hello] = "reading"
    <3> SUFFICES ASSUME open PROVE loc = "typing" /\ at[Hello] = "reading"
      OBVIOUS
    <3>1. PICK t \in Clients : at[t] = "reading" /\ call = Current(t)
      BY <1>7
    <3>2. t = Hello
      BY <1>9, <3>1 DEF Requested, Current
    <3>3. asked[n[Hello]].kind = "hello"
      BY <1>9, <3>1, <3>2 DEF Requested, Current
    <3>4. loc \in Calling
      BY <3>1, <3>2 DEF HelloLink, HelloTyped, Asking, Idle
    <3> QED  BY <3>1, <3>2, <3>3, <3>4 DEF HelloLink, HelloTyped, Asking, Calling
  <2> QED
    BY <1>2, <1>4, <1>6, <2>3, <2>4 DEF HelloWaits, Answered, BeforeHello, Places
<1>10. CASE Requested(call) = "escape"
  <2>1. pins' <= escapes'
    BY <1>1, <1>4, <1>5, <1>10
  <2>2. pins' <= escapes' + 1
    BY <1>1, <1>4, <1>5, <1>10
  <2> QED  BY <1>4, <2>1, <2>2 DEF HelloWaits, Answered, Settled
<1>11. CASE Requested(call) \notin {"hello", "escape"}
  <2>1. pins' = pins /\ escapes' = escapes
    BY <1>1, <1>4, <1>11
  <2>2. Settled' <=> Settled
    BY <1>2, <2>1 DEF Settled, Visible
  <2>3. open /\ at[Hello] = "reading" => loc \notin {"typing", "escaping"}
    BY <1>8, <1>11 DEF Requested, Current, HelloLink, HelloTyped, Asking
  <2> QED
    BY <1>2, <1>4, <1>5, <2>1, <2>2, <2>3 DEF HelloWaits, Answered, Idle, Succeeded
<1> QED  BY <1>9, <1>10, <1>11

LEMMA TypedOnceStep ==
  ASSUME HelloLink, TypedOnce, [Next]_vars
  PROVE  TypedOnce'
<1> USE HelloAssumption
<1>1. [LinkStep]_linkVars
  BY HelloLinkStep
<1>2. (overdue => overdue') /\ (open' => open)
  BY <1>1 DEF LinkStep, linkVars, Begin, Send, ClearInput, Write, ReadLine, TimesOut,
     PortFails, Return, Close, Device, DeviceTakes, DeviceAnswers
<1> SUFFICES ASSUME ~overdue'
             PROVE  /\ pins' <= escapes' + 1 /\ (HelloWaits' => Settled')
                    /\ (open' => Answered')
  <2>1. ASSUME ~overdue' PROVE OneInFlight'
    BY <1>1, <1>2, <2>1, OneInFlightStep DEF HelloLink, TypedOnce
  <2> QED  BY <2>1 DEF TypedOnce
<1>3. ~overdue
  BY <1>2
<1>4. /\ pins \in Nat /\ escapes \in Nat /\ pins <= escapes + 1
      /\ (HelloWaits => Settled) /\ (open => Answered)
  BY <1>3 DEF HelloLink, HelloTyped, TypeOK, TypedOnce
<1>5. CASE Loop
  <2>1. UNCHANGED <<dialog, pins, escapes>>
    BY <1>5 DEF Loop, LookForDialog, LoopEnds, FindOwner, NewApp, ConfigReturns, Focus,
       TestFocus, LastTest, HelloReturns, WaitForDismiss, EscapeReturns, dialogVars
  <2>2. Settled' <=> Settled
    BY <2>1 DEF Settled, Visible
  <2> QED
    BY <1>2, <1>4, <1>5, <2>1, <2>2, WaitsUnlessTyped, LoopSettles DEF HelloLink
<1>6. CASE ShowDialog \/ CloseDialog
  <2>1. Settled' /\ pins' <= escapes' + 1
    BY <1>4, <1>6 DEF ShowDialog, CloseDialog, Settled, Visible
  <2> QED  BY <2>1 DEF Answered
<1>7. CASE LoseFocus \/ UNCHANGED vars
  <2>1. UNCHANGED <<loc, asked, wire, busy, input, at, result, dialog, pins, escapes, open>>
    BY <1>7 DEF LoseFocus, vars, loopVars, linkVars, dialogVars
  <2> QED
    BY <1>4, <2>1 DEF Settled, Visible, HelloWaits, Requested, Answered, Idle, Succeeded, Accepted
<1>8. CASE ThreadsSend
  BY <1>3, <1>4, <1>8, SendingSettles DEF ThreadsSend, dialogVars
<1>9. CASE ClosePort
  BY <1>4, <1>9 DEF ClosePort, Close, loopVars, dialogVars, Settled, Visible, HelloWaits, Requested
<1>10. CASE DeviceActs
  BY <1>3, <1>10, TakingSettles
<1>11. CASE DeviceReplies
  <2>1. /\ UNCHANGED <<loc, asked, wire, at, result, dialog, pins, escapes, open>>
        /\ busy # <<>> /\ input' = IF open THEN input \o busy ELSE input
    BY <1>11 DEF DeviceReplies, DeviceAnswers, loopVars, dialogVars
  <2>2. ASSUME open, at[Hello] = "reading", Accepted PROVE Accepted'
    <3>1. Pending(Current(Hello))
      BY <1>3, <2>2 DEF HelloLink, LinkInStep, InStep
    <3>2. input = <<>>
      BY <2>1, <3>1 DEF Pending
    <3>3. PICK call : busy = <<[call |-> call, ok |-> TRUE]>>
      BY <2>2, <3>2 DEF Accepted
    <3>4. input \o busy = <<[call |-> call, ok |-> TRUE]>>
      BY <3>2, <3>3
    <3>5. input' = <<[call |-> call, ok |-> TRUE]>>
      BY <2>1, <2>2, <3>4
    <3> QED  BY <3>5 DEF Accepted
  <2> QED
    BY <1>4, <2>1, <2>2 DEF Settled, Visible, HelloWaits, Requested, Answered, Idle, Succeeded
<1> QED
  BY <1>5, <1>6, <1>7, <1>8, <1>9, <1>10, <1>11 DEF Next

(* As long as calls are answered in time, a dialog gets at most one PIN    *)
(* more than ESCAPEs have been typed since it was shown, for every number  *)
(* of dialogs, calls and other threads (_handle_dialog).                   *)
THEOREM PinsAreCounted == Spec => []PinsWithinEscapes
<1>1. Init => LookedAt /\ OneCaller /\ InStep /\ TypedOnce
  <2> SUFFICES ASSUME Init PROVE LookedAt /\ OneCaller /\ InStep /\ TypedOnce
    OBVIOUS
  <2>1. LookedAt
    BY HelloAssumption DEF Init, LookedAt, Visible
  <2>2. OneCaller /\ InStep
    BY DEF Init, LinkInit, OneCaller, InCall, InStep, Own, Quiet
  <2>3. TypedOnce
    BY DEF Init, LinkInit, TypedOnce, OneInFlight, Quiet, HelloWaits, Settled, Visible, Answered
  <2> QED  BY <2>1, <2>2, <2>3
<1>2. HelloTyped /\ LookedAt /\ OneCaller /\ InStep /\ TypedOnce /\ [Next]_vars
      => (LookedAt /\ OneCaller /\ InStep /\ TypedOnce)'
  <2> SUFFICES ASSUME HelloTyped, LookedAt, OneCaller, InStep, TypedOnce, [Next]_vars
               PROVE  LookedAt' /\ OneCaller' /\ InStep' /\ TypedOnce'
    OBVIOUS
  <2>1. LinkTypeOK
    BY DEF HelloTyped, TypeOK
  <2>2. OneCaller' /\ InStep'
    BY <2>1, HelloLinkStep, OneCallerStep, InStepStep
  <2>3. LookedAt' /\ TypedOnce'
    BY <2>1, LookedAtStep, TypedOnceStep DEF HelloLink, LinkInStep
  <2> QED  BY <2>2, <2>3
<1>3. TypedOnce => PinsWithinEscapes
  BY DEF TypedOnce, PinsWithinEscapes
<1> QED  BY <1>1, <1>2, <1>3, HelloTypedAlways, PTL DEF Spec

-----------------------------------------------------------------------------
(***************************************************************************)
(*                              FirmwarePush                               *)
(***************************************************************************)

Kinds == {"flash", "chunk", "ping"}

(* No more chunks are written than the firmware has, and the data that is  *)
(* complete ends flash mode.                                               *)
Streamed ==
  /\ push = "flash" => sent = 0
  /\ push = "data" => sent < Chunks
  /\ flashMode => received < Total

LEMMA PushConstants ==
  /\ Pusher \in Clients /\ Chunks \in Nat /\ Hash \in Nat /\ Chunks > 0 /\ Hash > 0
  /\ Total \in Nat /\ Total = Chunks + Hash
  BY PushAssumption DEF Total

LEMMA CommandsInType ==
  ASSUME NEW S, NEW calls \in Seq(S)
  PROVE  CommandsIn(calls) \in Nat /\ CommandsIn(calls) <= Len(calls)
<1>1. Len(calls) \in Nat /\ DOMAIN calls = 1..Len(calls)
  OBVIOUS
<1>2. IsFiniteSet(1..Len(calls)) /\ Cardinality(1..Len(calls)) = Len(calls)
  BY <1>1, FS_Interval
<1>3. {i \in DOMAIN calls : ~IsChunk(calls[i])} \subseteq 1..Len(calls)
  BY <1>1
<1> QED  BY <1>2, <1>3, FS_Subset, FS_CardinalityType DEF CommandsIn

(* A call, a chunk and a line that is read change the link as they should. *)
LEMMA PushLinkTyped ==
  ASSUME PushTypeOK, [PushNext]_pushVars
  PROVE  LinkTypeOK'
<1> USE PushAssumption
<1>1. LinkTypeOK
  BY DEF PushTypeOK
<1>2. CASE [LinkStep]_linkVars
  BY <1>1, <1>2, LinkTypeStep
<1>3. ASSUME PutChunk, UNCHANGED <<open, owner, at, result, busy, input, overdue, alone>>
      PROVE  LinkTypeOK'
  <2>1. n' \in [Clients -> Nat] /\ <<Pusher, n'[Pusher]>> \in Call
    BY <1>1, <1>3 DEF PutChunk, LinkTypeOK, Call
  <2> QED  BY <1>1, <1>3, <2>1 DEF PutChunk, LinkTypeOK
<1>4. CASE FlashBegin \/ PingSent
  BY <1>2, <1>4 DEF FlashBegin, PingSent, LinkStep
<1>5. CASE FlashBegun \/ LineRead \/ PingReturns \/ UNCHANGED pushVars
  BY <1>2, <1>5 DEF FlashBegun, LineRead, PingReturns, pushVars
<1>6. CASE WriteRaw \/ WriteRawFails
  <2>1. UNCHANGED <<open, owner, at, result, busy, input, overdue, alone>>
    BY <1>6 DEF WriteRaw, WriteRawFails
  <2>2. PutChunk \/ UNCHANGED <<n, wire>>
    BY <1>6 DEF WriteRaw, WriteRawFails
  <2> QED  BY <1>1, <1>3, <2>1, <2>2 DEF LinkTypeOK
<1>7. CASE WaitForLine
  BY <1>1, <1>7 DEF WaitForLine, LinkTypeOK, Steps
<1>8. CASE TakesCommand \/ (DeviceAnswers /\ UNCHANGED <<pcVars, flashVars>>)
  BY <1>2, <1>8 DEF TakesCommand, LinkStep, Device
<1>9. CASE TakesGarbage \/ TakesData
  <2>1. /\ wire # <<>> /\ UNCHANGED <<open, owner, at, n, result, input, overdue, alone>>
        /\ wire \in Seq(Call) /\ busy \in Seq(Answer)
    BY <1>1, <1>9 DEF TakesGarbage, TakesData, LinkTypeOK
  <2>2. Head(wire) \in Call
    BY <2>1
  <2>3. [call |-> Head(wire), ok |-> FALSE] \in Answer /\ Progress \in Answer
    BY <2>2 DEF Answer, Progress, Call
  <2>4. busy' \in {<<>>, <<[call |-> Head(wire), ok |-> FALSE]>>, <<Progress>>}
    BY <1>9 DEF TakesGarbage, TakesData
  <2>5. busy' \in Seq(Answer)
    <3>1. <<>> \in Seq(Answer) /\ <<[call |-> Head(wire), ok |-> FALSE]>> \in Seq(Answer)
      BY <2>3
    <3>2. <<Progress>> \in Seq(Answer)
      BY <2>3
    <3> QED  BY <2>4, <3>1, <3>2
  <2>6. wire' \in Seq(Call)
    <3>1. CASE TakesGarbage
      BY <2>1, <3>1 DEF TakesGarbage
    <3>2. CASE TakesData
      <4>1. PICK k \in 1..Len(wire) : wire' = SubSeq(wire, k + 1, Len(wire))
        BY <3>2 DEF TakesData
      <4> QED  BY <2>1, <4>1
    <3> QED  BY <1>9, <3>1, <3>2
  <2> QED  BY <1>1, <2>1, <2>5, <2>6 DEF LinkTypeOK
<1>10. CASE Reset
  BY <1>1, <1>10, EmptySeq DEF Reset, LinkTypeOK
<1>11. CASE LinkActs
  <2>1. CASE Reopen
    BY <1>1, <2>1 DEF Reopen, LinkTypeOK
  <2> QED  BY <1>2, <1>11, <2>1 DEF LinkActs, LinkStep, Others
<1> QED
  BY <1>4, <1>5, <1>6, <1>7, <1>8, <1>9, <1>10, <1>11 DEF PushNext, PushGoesOn, SerialTask

LEMMA PushTypedStep ==
  ASSUME PushTypeOK, Streamed, [PushNext]_pushVars
  PROVE  PushTypeOK' /\ Streamed'
<1> USE PushConstants
<1>1. LinkTypeOK'
  BY PushLinkTyped
<1>2. /\ n \in [Clients -> Nat] /\ kinds \in Seq(Kinds) /\ Len(kinds) = n[Pusher]
      /\ sent \in 0..Chunks /\ received \in 0..Total /\ lost \in Nat
      /\ flashMode \in BOOLEAN /\ dirty \in BOOLEAN
  BY DEF PushTypeOK, LinkTypeOK, Kinds
<1>3. kinds' \in Seq(Kinds) /\ Len(kinds') = n'[Pusher]
  <2>1. ASSUME NEW kind \in Kinds, kinds' = Append(kinds, kind), n' = [n EXCEPT ![Pusher] = @ + 1]
        PROVE  kinds' \in Seq(Kinds) /\ Len(kinds') = n'[Pusher]
    BY <1>2, <2>1
  <2>2. CASE FlashBegin \/ PingSent \/ PutChunk
    BY <2>1, <2>2 DEF FlashBegin, PingSent, Begin, PutChunk, Kinds
  <2>3. CASE kinds' = kinds /\ n'[Pusher] = n[Pusher]
    BY <1>2, <2>3
  <2>4. CASE LinkActs
    <3>1. kinds' = kinds /\ n'[Pusher] = n[Pusher]
      BY <1>2, <2>4 DEF LinkActs, Others, Begin, Send, ClearInput, Write, ReadLine, TimesOut,
         PortFails, Return, Close, Reopen, pcVars
    <3> QED  BY <2>3, <3>1
  <2>5. CASE FlashBegun \/ WaitForLine \/ LineRead \/ PingReturns \/ SerialTask \/ Reset
             \/ UNCHANGED pushVars
    BY <2>3, <2>5 DEF FlashBegun, WaitForLine, LineRead, PingReturns, SerialTask,
       TakesCommand, TakesGarbage, TakesData, DeviceTakes, DeviceAnswers, Reset, pushVars,
       pcVars, linkVars
  <2> QED
    BY <2>2, <2>3, <2>4, <2>5 DEF PushNext, PushGoesOn, WriteRaw, WriteRawFails
<1>4. /\ push' \in {"idle", "flash", "data", "line", "verify", "reboot", "ping"}
      /\ sent' \in 0..Chunks /\ verdict' \in {"none", "success", "failure"}
      /\ (push' = "flash" => sent' = 0) /\ (push' = "data" => sent' < Chunks)
  <2>1. CASE FlashBegin \/ FlashBegun
    BY <1>2, <2>1 DEF FlashBegin, FlashBegun, Ended, PushTypeOK, Streamed
  <2>2. CASE WriteRaw \/ WriteRawFails
    BY <1>2, <2>2 DEF WriteRaw, WriteRawFails, Ended, PushTypeOK, Streamed
  <2>3. CASE WaitForLine \/ LineRead \/ PingSent \/ PingReturns
    BY <1>2, <2>3 DEF WaitForLine, LineRead, PingSent, PingReturns, Ended, PushTypeOK
  <2>4. CASE SerialTask \/ Reset \/ LinkActs \/ UNCHANGED pushVars
    BY <2>4 DEF SerialTask, TakesCommand, TakesGarbage, TakesData, Reset, LinkActs, pushVars,
       pcVars, PushTypeOK, Streamed
  <2> QED  BY <2>1, <2>2, <2>3, <2>4 DEF PushNext, PushGoesOn
<1>5. /\ flashMode' \in BOOLEAN /\ dirty' \in BOOLEAN
      /\ received' \in 0..Total /\ lost' \in Nat
      /\ (flashMode' => received' < Total)
  <2>1. CASE TakesCommand
    <3>1. PICK ok \in {~dirty, FALSE} :
            /\ flashMode' = (ok /\ KindOf(Head(wire)) = "flash")
            /\ IF flashMode' THEN received' = 0 /\ lost' = 0 ELSE UNCHANGED <<received, lost>>
      BY <2>1 DEF TakesCommand
    <3>2. dirty' = FALSE
      BY <2>1 DEF TakesCommand
    <3>3. flashMode' \in BOOLEAN /\ dirty' \in BOOLEAN
      BY <3>1, <3>2
    <3>4. \/ received' = 0 /\ lost' = 0
          \/ ~flashMode' /\ received' = received /\ lost' = lost
      BY <3>1
    <3> QED  BY <1>2, <3>3, <3>4
  <2>2. CASE TakesData
    <3>1. PICK k \in 1..Len(wire) :
            /\ flashMode' = (received + k < Total)
            /\ IF received + k > Total
               THEN UNCHANGED <<received, lost>>
               ELSE received' = received + k /\ lost' = lost + CommandsIn(SubSeq(wire, 1, k))
      BY <2>2 DEF TakesData
    <3>2. wire \in Seq(Call) /\ Len(wire) \in Nat
      BY DEF PushTypeOK, LinkTypeOK
    <3>3. SubSeq(wire, 1, k) \in Seq(Call)
      BY <3>1, <3>2
    <3>4. CommandsIn(SubSeq(wire, 1, k)) \in Nat
      BY <3>3, CommandsInType
    <3>5. flashMode' \in BOOLEAN /\ dirty' \in BOOLEAN
      BY <1>2, <2>2, <3>1 DEF TakesData
    <3>6. k \in Nat
      BY <3>2
    <3>7. flashMode' => received + k < Total
      BY <3>1
    <3>8. received' \in 0..Total /\ lost' \in Nat /\ (flashMode' => received' < Total)
      BY <1>2, <3>1, <3>4, <3>6, <3>7
    <3> QED  BY <3>5, <3>8
  <2>3. CASE TakesGarbage
    <3>1. dirty' \in BOOLEAN /\ UNCHANGED <<flashMode, received, lost>>
      BY <2>3 DEF TakesGarbage
    <3> QED  BY <1>2, <3>1 DEF Streamed
  <2>4. CASE Reset
    <3>1. flashMode' = FALSE /\ received' = 0 /\ dirty' = FALSE /\ lost' = 0
      BY <2>4 DEF Reset
    <3>2. flashMode' \in BOOLEAN /\ dirty' \in BOOLEAN /\ ~flashMode'
      BY <3>1
    <3>3. received' \in 0..Total /\ lost' \in Nat
      BY <3>1
    <3> QED  BY <3>2, <3>3
  <2>5. CASE UNCHANGED flashVars
    BY <1>2, <2>5 DEF flashVars, Streamed
  <2> QED
    BY <2>1, <2>2, <2>3, <2>4, <2>5 DEF PushNext, FlashBegin, PushGoesOn, FlashBegun, WriteRaw,
       WriteRawFails, WaitForLine, LineRead, PingSent, PingReturns, SerialTask, LinkActs,
       pushVars
<1> QED  BY <1>1, <1>3, <1>4, <1>5 DEF PushTypeOK, Streamed, Kinds

LEMMA PushTypedAlways == PushSpec => [](PushTypeOK /\ Streamed)
<1>1. PushInit => PushTypeOK /\ Streamed
  <2> SUFFICES ASSUME PushInit PROVE PushTypeOK /\ Streamed
    OBVIOUS
  <2>1. LinkTypeOK
    BY LinkTypeInit DEF PushInit
  <2>2. /\ push = "idle" /\ sent \in 0..Chunks /\ verdict = "none" /\ received \in 0..Total
        /\ lost \in Nat /\ dirty = FALSE /\ flashMode = FALSE
    BY PushConstants DEF PushInit
  <2>3. kinds \in Seq(Kinds) /\ Len(kinds) = n[Pusher]
    BY PushConstants DEF PushInit, LinkInit
  <2> QED
    BY <2>1, <2>2, <2>3 DEF PushTypeOK, Streamed, Kinds
<1>2. PushTypeOK /\ Streamed /\ [PushNext]_pushVars => (PushTypeOK /\ Streamed)'
  BY PushTypedStep
<1> QED  BY <1>1, <1>2, PTL DEF PushSpec

(* Every variable has its type; the chunks written do not exceed the       *)
(* firmware, nor the data taken what the device waits for.                 *)
THEOREM PushTypeCorrect == PushSpec => []PushTypeOK
  BY PushTypedAlways, PTL

-----------------------------------------------------------------------------
(* Counting the elements of a sequence that lie in a set.                  *)

CountIn(s, X) == Cardinality({i \in DOMAIN s : s[i] \in X})

LEMMA CountBounded ==
  ASSUME NEW T, NEW s \in Seq(T), NEW X
  PROVE  /\ IsFiniteSet({i \in DOMAIN s : s[i] \in X})
         /\ CountIn(s, X) \in Nat
<1>1. DOMAIN s = 1..Len(s) /\ Len(s) \in Nat
  OBVIOUS
<1>2. IsFiniteSet(1..Len(s))
  BY <1>1, FS_Interval
<1>3. {i \in DOMAIN s : s[i] \in X} \in SUBSET (1..Len(s))
  BY <1>1
<1> QED  BY <1>2, <1>3, FS_Subset, FS_CardinalityType DEF CountIn

LEMMA CountRest ==
  ASSUME NEW T, NEW s \in Seq(T), NEW X
  PROVE  CountIn(s, X) + CountIn(s, T \ X) = Len(s)
<1> DEFINE A == {i \in DOMAIN s : s[i] \in X}
           B == {i \in DOMAIN s : s[i] \in T \ X}
<1>1. IsFiniteSet(A) /\ IsFiniteSet(B)
  BY CountBounded
<1>2. A \cup B = 1..Len(s) /\ A \cap B = {}
  OBVIOUS
<1>3. Cardinality(1..Len(s)) = Len(s)
  <2>1. Len(s) \in Nat
    OBVIOUS
  <2>2. \A m \in Nat : Cardinality(1..m) = m
    BY FS_Interval
  <2> QED  BY <2>1, <2>2
<1>4. Cardinality(A \cup B) = Cardinality(A) + Cardinality(B) - Cardinality(A \cap B)
  BY <1>1, FS_Union
<1>5. Cardinality(A) \in Nat /\ Cardinality(B) \in Nat
  BY <1>1, FS_CardinalityType
<1> HIDE DEF A, B
<1>6. Cardinality(A \cap B) = 0 /\ Cardinality(A \cup B) = Len(s)
  BY <1>2, <1>3, FS_EmptySet
<1>7. Len(s) = Cardinality(A) + Cardinality(B)
  BY <1>4, <1>5, <1>6
<1> QED  BY <1>7 DEF A, B, CountIn

LEMMA CountAppend ==
  ASSUME NEW T, NEW s \in Seq(T), NEW e \in T, NEW X
  PROVE  CountIn(Append(s, e), X) = CountIn(s, X) + (IF e \in X THEN 1 ELSE 0)
<1> DEFINE A == {i \in DOMAIN s : s[i] \in X}
           r == Append(s, e)
<1>1. IsFiniteSet(A) /\ CountIn(s, X) \in Nat /\ CountIn(s, X) = Cardinality(A)
  BY CountBounded DEF CountIn
<1>2. /\ Len(s) \in Nat /\ DOMAIN s = 1..Len(s) /\ DOMAIN r = 1..(Len(s) + 1)
      /\ \A i \in 1..Len(s) : r[i] = s[i]
      /\ r[Len(s) + 1] = e
  OBVIOUS
<1>3. CASE e \in X
  <2>1. {i \in DOMAIN r : r[i] \in X} = A \cup {Len(s) + 1}
    BY <1>2, <1>3
  <2>2. Len(s) + 1 \notin A
    BY <1>2
  <2>3. Cardinality(A \cup {Len(s) + 1}) = Cardinality(A) + 1
    BY <1>1, <2>2, FS_AddElement
  <2>4. CountIn(r, X) = CountIn(s, X) + 1
    BY <1>1, <2>1, <2>3 DEF CountIn
  <2> QED  BY <1>3, <2>4
<1>4. CASE e \notin X
  <2>1. {i \in DOMAIN r : r[i] \in X} = A
    BY <1>2, <1>4
  <2>2. CountIn(r, X) = CountIn(s, X)
    BY <1>1, <2>1 DEF CountIn
  <2> QED  BY <1>1, <1>4, <2>2
<1> QED  BY <1>3, <1>4

(* A sequence that is cut in two has what its parts have.                  *)
LEMMA CountSplit ==
  ASSUME NEW T, NEW s \in Seq(T), NEW X, NEW k \in 1..Len(s)
  PROVE  /\ SubSeq(s, 1, k) \in Seq(T) /\ SubSeq(s, k + 1, Len(s)) \in Seq(T)
         /\ Len(SubSeq(s, 1, k)) = k
         /\ CountIn(s, X) = CountIn(SubSeq(s, 1, k), X) + CountIn(SubSeq(s, k + 1, Len(s)), X)
<1> DEFINE front1 == SubSeq(s, 1, k)
           rest == SubSeq(s, k + 1, Len(s))
           A == {i \in DOMAIN front1 : front1[i] \in X}
           B == {i \in DOMAIN rest : rest[i] \in X}
           C == {i \in DOMAIN s : i > k /\ s[i] \in X}
<1>1. Len(s) \in Nat /\ DOMAIN s = 1..Len(s) /\ k \in Nat /\ k <= Len(s)
  OBVIOUS
<1>2. /\ front1 \in Seq(T) /\ Len(front1) = k
      /\ \A i \in 1..k : front1[i] = s[i]
  BY <1>1
<1>3. /\ rest \in Seq(T) /\ Len(rest) = Len(s) - k
      /\ \A i \in 1..(Len(s) - k) : rest[i] = s[i + k]
  <2>1. k + 1 \in Int /\ Len(s) \in Int /\ \A i \in (k + 1)..Len(s) : s[i] \in T
    BY <1>1
  <2>2. /\ rest \in Seq(T)
        /\ Len(rest) = IF k + 1 <= Len(s) THEN Len(s) - (k + 1) + 1 ELSE 0
        /\ \A i \in 1..(Len(s) - (k + 1) + 1) : rest[i] = s[(k + 1) + i - 1]
    BY <2>1, SubSeqProperties
  <2>3. Len(s) - (k + 1) + 1 = Len(s) - k /\ \A i \in Nat : (k + 1) + i - 1 = i + k
    BY <1>1
  <2> HIDE DEF rest
  <2>4. Len(rest) = Len(s) - k
    <3>1. CASE k + 1 <= Len(s)
      BY <2>2, <2>3, <3>1
    <3>2. CASE ~(k + 1 <= Len(s))
      <4>1. \A j, m \in Nat : j <= m /\ ~(j + 1 <= m) => m - j = 0
        OBVIOUS
      <4>2. Len(s) - k = 0
        BY <1>1, <3>2, <4>1
      <4> QED  BY <2>2, <3>2, <4>2
    <3> QED  BY <3>1, <3>2
  <2>5. ASSUME NEW i \in 1..(Len(s) - k) PROVE rest[i] = s[i + k]
    <3>1. i \in Nat /\ i \in 1..(Len(s) - (k + 1) + 1)
      BY <1>1, <2>3
    <3> QED  BY <2>2, <2>3, <3>1
  <2> QED  BY <2>2, <2>4, <2>5
<1> HIDE DEF front1, rest
<1>4. DOMAIN front1 = 1..k /\ DOMAIN rest = 1..(Len(s) - k)
  <2>1. DOMAIN front1 = 1..Len(front1)
    BY <1>2
  <2>2. DOMAIN rest = 1..Len(rest)
    BY <1>3
  <2> QED  BY <1>2, <1>3, <2>1, <2>2
<1>5. /\ IsFiniteSet(A) /\ Cardinality(A) = CountIn(front1, X)
      /\ IsFiniteSet(B) /\ Cardinality(B) = CountIn(rest, X)
  BY <1>2, <1>3, CountBounded DEF CountIn
<1>6. Cardinality(C) = Cardinality(B) /\ IsFiniteSet(C)
  <2> DEFINE f == [i \in B |-> i + k]
  <2>1. f \in [B -> C]
    BY <1>1, <1>3, <1>4
  <2>2. \A i, j \in B : f[i] = f[j] => i = j
    BY <1>1, <1>4
  <2>3. \A c \in C : \E i \in B : f[i] = c
    <3> SUFFICES ASSUME NEW c \in C PROVE \E i \in B : f[i] = c
      OBVIOUS
    <3>1. c - k \in 1..(Len(s) - k) /\ (c - k) + k = c
      BY <1>1
    <3>2. c - k \in B
      BY <1>3, <1>4, <3>1
    <3> QED  BY <3>1, <3>2
  <2>4. f \in Bijection(B, C)
    BY <2>1, <2>2, <2>3 DEF Bijection, Injection, Surjection, IsInjective
  <2>5. ExistsBijection(B, C)
    BY <2>4 DEF ExistsBijection
  <2> QED  BY <1>5, <2>5, FS_Bijection
<1>7. {i \in DOMAIN s : s[i] \in X} = A \cup C /\ A \cap C = {}
  BY <1>1, <1>2, <1>4
<1>8. Cardinality(A \cup C) = Cardinality(A) + Cardinality(C) - Cardinality(A \cap C)
  BY <1>5, <1>6, FS_Union
<1>9. CountIn(front1, X) \in Nat /\ CountIn(rest, X) \in Nat
  BY <1>2, <1>3, CountBounded
<1> HIDE DEF A, B, C
<1>10. CountIn(s, X) = Cardinality(A \cup C) /\ Cardinality(A \cap C) = 0
  BY <1>7, FS_EmptySet DEF CountIn
<1>11. CountIn(s, X) = CountIn(front1, X) + CountIn(rest, X)
  BY <1>5, <1>6, <1>8, <1>9, <1>10
<1> QED  BY <1>2, <1>3, <1>11 DEF front1, rest

(* The pusher's writes on the wire have numbers it has given.              *)
Given == \A i \in DOMAIN wire : wire[i][1] = Pusher => wire[i][2] \in 1..n[Pusher]

(* Where the pusher is in send at each place of the push.                  *)
Placed ==
  /\ push \in {"idle", "data", "line", "reboot"} => at[Pusher] = "idle"
  /\ push = "verify" => at[Pusher] \in {"reading", "idle"}
  /\ push \in {"flash", "ping"} => n[Pusher] > 0 /\ kinds[n[Pusher]] # "chunk"
  /\ n[Pusher] = 0 => received = 0 /\ ~flashMode /\ push = "idle"

ChunkCalls == {call \in Call : IsChunk(call)}

(* A chunk that was written is on the wire, or it is gone, as data or as   *)
(* text.                                                                   *)
Conserved ==
  /\ lost <= received
  /\ received + CountIn(wire, ChunkCalls) <= lost + Chunks
  /\ push # "idle" => received + CountIn(wire, ChunkCalls) <= lost + sent

PushInv == PushTypeOK /\ Streamed /\ Given /\ Placed /\ Conserved

(* A call that was made is a chunk or not as before, whatever is written.  *)
LEMMA KindsStay ==
  ASSUME PushInv, NEW call \in Call, call[1] = Pusher => call[2] \in 1..n[Pusher],
         kinds' = kinds \/ \E kind \in Kinds : kinds' = Append(kinds, kind)
  PROVE  call \in ChunkCalls' <=> call \in ChunkCalls
<1>1. kinds \in Seq(Kinds) /\ Len(kinds) = n[Pusher]
  BY DEF PushInv, PushTypeOK, Kinds
<1>2. call[1] = Pusher => kinds'[call[2]] = kinds[call[2]]
  BY <1>1
<1>3. IsChunk(call)' <=> IsChunk(call)
  BY <1>2 DEF IsChunk, KindOf
<1> QED  BY <1>3 DEF ChunkCalls

LEMMA ChunksStay ==
  ASSUME PushInv, kinds' = kinds \/ \E kind \in Kinds : kinds' = Append(kinds, kind)
  PROVE  CountIn(wire, ChunkCalls') = CountIn(wire, ChunkCalls)
<1>1. \A i \in DOMAIN wire : wire[i] \in ChunkCalls' <=> wire[i] \in ChunkCalls
  BY KindsStay DEF PushInv, PushTypeOK, LinkTypeOK, Given
<1>2. {i \in DOMAIN wire : wire[i] \in ChunkCalls'} = {i \in DOMAIN wire : wire[i] \in ChunkCalls}
  BY <1>1
<1> QED  BY <1>2 DEF CountIn

(* The first k writes on the wire, and the rest.                           *)
FirstOf(k) == SubSeq(wire, 1, k)
RestOf(k)  == SubSeq(wire, k + 1, Len(wire))

LEMMA Taken ==
  ASSUME PushInv, NEW k \in 1..Len(wire)
  PROVE  /\ CountIn(RestOf(k), ChunkCalls) \in Nat /\ CommandsIn(FirstOf(k)) \in 0..k
         /\ CountIn(wire, ChunkCalls)
               = (k - CommandsIn(FirstOf(k))) + CountIn(RestOf(k), ChunkCalls)
         /\ \A i \in DOMAIN RestOf(k) : \E j \in DOMAIN wire : RestOf(k)[i] = wire[j]
<1> DEFINE first == SubSeq(wire, 1, k)
           rest == SubSeq(wire, k + 1, Len(wire))
<1>1. wire \in Seq(Call)
  BY DEF PushInv, PushTypeOK, LinkTypeOK
<1>2. /\ first \in Seq(Call) /\ rest \in Seq(Call) /\ Len(first) = k /\ k \in Nat
      /\ CountIn(wire, ChunkCalls) = CountIn(first, ChunkCalls) + CountIn(rest, ChunkCalls)
  BY <1>1, CountSplit
<1>3. \A i \in DOMAIN rest : \E j \in DOMAIN wire : rest[i] = wire[j]
  <2> SUFFICES ASSUME NEW i \in DOMAIN rest PROVE \E j \in DOMAIN wire : rest[i] = wire[j]
    OBVIOUS
  <2>1. i + k \in DOMAIN wire /\ rest[i] = wire[i + k]
    BY <1>1, <1>2
  <2> QED  BY <2>1
<1> HIDE DEF first, rest
<1>4. CommandsIn(first) = CountIn(first, Call \ ChunkCalls)
  <2>1. {i \in DOMAIN first : ~IsChunk(first[i])} = {i \in DOMAIN first : first[i] \in Call \ ChunkCalls}
    BY <1>2 DEF ChunkCalls
  <2> QED  BY <2>1 DEF CommandsIn, CountIn
<1>5. CountIn(first, ChunkCalls) + CommandsIn(first) = k
  BY <1>2, <1>4, CountRest
<1>6. CountIn(first, ChunkCalls) \in Nat /\ CommandsIn(first) \in Nat /\ CountIn(rest, ChunkCalls) \in Nat
  BY <1>2, <1>4, CountBounded
<1>7. /\ CommandsIn(first) \in 0..k
      /\ CountIn(wire, ChunkCalls) = (k - CommandsIn(first)) + CountIn(rest, ChunkCalls)
  BY <1>2, <1>5, <1>6
<1> QED  BY <1>3, <1>6, <1>7 DEF first, rest, FirstOf, RestOf

(* What the device reads as text leaves the chunks that come after it.     *)
LEMMA TailTaken ==
  ASSUME PushInv, wire # <<>>
  PROVE  /\ CountIn(Tail(wire), ChunkCalls) \in Nat
         /\ CountIn(Tail(wire), ChunkCalls) <= CountIn(wire, ChunkCalls)
         /\ Head(wire) \in Call
         /\ Head(wire)[1] = Pusher => n[Pusher] > 0
         /\ \A i \in DOMAIN Tail(wire) : \E j \in DOMAIN wire : Tail(wire)[i] = wire[j]
<1>1. wire \in Seq(Call) /\ n[Pusher] \in Nat
  BY PushConstants DEF PushInv, PushTypeOK, LinkTypeOK
<1>2. 1 \in 1..Len(wire) /\ Tail(wire) = RestOf(1)
  BY <1>1, TailIsSubSeq DEF RestOf
<1>3. Head(wire) \in Call /\ 1 \in DOMAIN wire /\ Head(wire) = wire[1]
  BY <1>1
<1>4. Head(wire)[1] = Pusher => n[Pusher] > 0
  BY <1>1, <1>3 DEF PushInv, Given
<1>5. /\ CountIn(RestOf(1), ChunkCalls) \in Nat
      /\ CountIn(RestOf(1), ChunkCalls) <= CountIn(wire, ChunkCalls)
      /\ \A i \in DOMAIN RestOf(1) : \E j \in DOMAIN wire : RestOf(1)[i] = wire[j]
  BY <1>2, Taken
<1> QED  BY <1>2, <1>3, <1>4, <1>5

LEMMA GivenStep ==
  ASSUME PushInv, [PushNext]_pushVars
  PROVE  Given'
<1> USE PushConstants
<1>1. wire \in Seq(Call) /\ n \in [Clients -> Nat]
  BY DEF PushInv, PushTypeOK, LinkTypeOK
<1>2. ASSUME n'[Pusher] \in {n[Pusher], n[Pusher] + 1},
             \A i \in DOMAIN wire' : \E j \in DOMAIN wire : wire'[i] = wire[j]
      PROVE  Given'
  BY <1>1, <1>2 DEF PushInv, Given
<1>3. ASSUME NEW t \in Clients, wire' = Append(wire, <<t, n'[t]>>), t = Pusher => n'[t] > 0,
             n'[Pusher] \in {n[Pusher], n[Pusher] + 1}
      PROVE  Given'
  <2>1. \A i \in DOMAIN wire' : wire'[i] = IF i \in DOMAIN wire THEN wire[i] ELSE <<t, n'[t]>>
    BY <1>1, <1>3
  <2>2. t = Pusher => n'[t] \in 1..n'[Pusher]
    BY <1>1, <1>3
  <2> QED  BY <1>1, <1>3, <2>1, <2>2 DEF PushInv, Given
<1>4. CASE FlashBegin \/ PingSent
  BY <1>1, <1>2, <1>4 DEF FlashBegin, PingSent, Begin
<1>5. CASE FlashBegun \/ WaitForLine \/ LineRead \/ PingReturns \/ UNCHANGED pushVars
  BY <1>2, <1>5 DEF FlashBegun, WaitForLine, LineRead, PingReturns, pushVars, linkVars
<1>6. CASE WriteRaw \/ WriteRawFails
  <2>1. PutChunk \/ UNCHANGED <<n, wire>>
    BY <1>6 DEF WriteRaw, WriteRawFails
  <2>2. CASE PutChunk
    <3>1. n'[Pusher] = n[Pusher] + 1 /\ n'[Pusher] > 0
      BY <1>1, <2>2 DEF PutChunk
    <3> QED  BY <1>3, <2>2, <3>1 DEF PutChunk
  <2> QED  BY <1>2, <2>1, <2>2
<1>7. CASE SerialTask
  <2>1. n' = n
    BY <1>7 DEF SerialTask, TakesCommand, TakesGarbage, TakesData, DeviceTakes, DeviceAnswers
  <2>2. CASE TakesCommand \/ TakesGarbage
    BY <1>2, <2>1, <2>2, TailTaken DEF TakesCommand, DeviceTakes, TakesGarbage
  <2>3. CASE TakesData
    <3>1. PICK k \in 1..Len(wire) : wire' = RestOf(k)
      BY <2>3 DEF TakesData, RestOf
    <3>2. \A i \in DOMAIN RestOf(k) : \E j \in DOMAIN wire : RestOf(k)[i] = wire[j]
      BY Taken
    <3> QED  BY <1>2, <2>1, <3>1, <3>2
  <2>4. CASE DeviceAnswers
    BY <1>2, <2>4 DEF DeviceAnswers
  <2> QED  BY <1>7, <2>2, <2>3, <2>4 DEF SerialTask
<1>8. CASE Reset
  BY <1>8 DEF Reset, Given
<1>9. CASE LinkActs
  <2>1. ASSUME NEW t \in Clients, Write(t) PROVE Given'
    <3>1. t = Pusher => n[t] > 0
      <4>1. at[t] = "writing" /\ (t = Pusher => push \in {"flash", "ping"})
        BY <2>1 DEF Write, PushInv, PushTypeOK, Placed
      <4> QED  BY <4>1 DEF PushInv, Placed
    <3> QED  BY <1>3, <2>1, <3>1 DEF Write, Current
  <2>2. ASSUME NEW t \in Clients, Send(t), ~Write(t) PROVE Given'
    BY <1>2, <2>2 DEF Send, ClearInput, ReadLine, TimesOut, PortFails, Return
  <2>3. ASSUME NEW t \in Others, Begin(t) PROVE Given'
    BY <1>1, <1>2, <2>3 DEF Begin, Others
  <2>4. CASE Close \/ Reopen
    BY <1>2, <2>4 DEF Close, Reopen
  <2> QED  BY <1>9, <2>1, <2>2, <2>3, <2>4 DEF LinkActs, Others
<1> QED
  BY <1>4, <1>5, <1>6, <1>7, <1>8, <1>9 DEF PushNext, PushGoesOn

LEMMA PlacedStep ==
  ASSUME PushInv, [PushNext]_pushVars
  PROVE  Placed'
<1> USE PushConstants
<1>1. /\ wire \in Seq(Call) /\ n \in [Clients -> Nat] /\ at \in [Clients -> Steps]
      /\ kinds \in Seq(Kinds) /\ Len(kinds) = n[Pusher]
      /\ push \in {"idle", "flash", "data", "line", "verify", "reboot", "ping"}
  BY DEF PushInv, PushTypeOK, LinkTypeOK, Kinds
<1>2. CASE FlashBegin \/ PingSent
  <2>1. PICK kind \in {"flash", "ping"} : /\ Begin(Pusher) /\ kinds' = Append(kinds, kind)
                                          /\ push' = kind /\ UNCHANGED flashVars
    BY <1>2 DEF FlashBegin, PingSent
  <2>2. n'[Pusher] = n[Pusher] + 1 /\ n[Pusher] \in Nat
    BY <1>1, <2>1 DEF Begin
  <2>3. kinds'[n'[Pusher]] = kind
    BY <1>1, <2>1, <2>2 DEF Kinds
  <2> QED  BY <2>1, <2>2, <2>3 DEF Placed
<1>3. CASE FlashBegun \/ LineRead \/ PingReturns
  BY <1>3 DEF FlashBegun, LineRead, PingReturns, Returned, Ended, PushInv, Placed, linkVars,
     flashVars
<1>4. CASE WriteRaw \/ WriteRawFails
  <2>1. /\ push = "data" /\ push' \in {"data", "line", "idle"} /\ at' = at
        /\ n'[Pusher] = n[Pusher] \/ n'[Pusher] = n[Pusher] + 1
        /\ UNCHANGED flashVars
    BY <1>1, <1>4 DEF WriteRaw, WriteRawFails, PutChunk
  <2>2. n[Pusher] \in Nat
    BY <1>1
  <2> QED  BY <2>1, <2>2 DEF PushInv, Placed, flashVars
<1>5. CASE WaitForLine
  BY <1>1, <1>5 DEF WaitForLine, flashVars, PushInv, Placed
<1>6. CASE SerialTask
  <2>1. UNCHANGED <<n, at, push, kinds>>
    BY <1>6 DEF SerialTask, TakesCommand, TakesGarbage, TakesData, DeviceTakes, DeviceAnswers,
       pcVars
  <2>2. n[Pusher] = 0 => received' = 0 /\ ~flashMode'
    <3>1. CASE TakesCommand
      <4>1. PICK ok \in {~dirty, FALSE} :
              /\ flashMode' = (ok /\ KindOf(Head(wire)) = "flash")
              /\ IF flashMode' THEN received' = 0 /\ lost' = 0 ELSE UNCHANGED <<received, lost>>
        BY <3>1 DEF TakesCommand
      <4>2. flashMode' => Head(wire)[1] = Pusher
        BY <4>1 DEF KindOf
      <4>3. Head(wire)[1] = Pusher => n[Pusher] > 0
        BY <3>1, TailTaken DEF TakesCommand
      <4>4. n[Pusher] = 0 => ~flashMode'
        BY <1>1, <4>2, <4>3
      <4>5. n[Pusher] = 0 => received' = received
        BY <4>1, <4>4
      <4> QED  BY <4>4, <4>5 DEF PushInv, Placed
    <3>2. CASE TakesData
      BY <3>2 DEF TakesData, PushInv, Placed
    <3>3. CASE TakesGarbage \/ (DeviceAnswers /\ UNCHANGED <<pcVars, flashVars>>)
      BY <3>3 DEF TakesGarbage, flashVars, PushInv, Placed
    <3> QED  BY <1>6, <3>1, <3>2, <3>3 DEF SerialTask
  <2> QED  BY <2>1, <2>2 DEF PushInv, Placed
<1>7. CASE Reset
  BY <1>7 DEF Reset, pcVars, PushInv, Placed
<1>8. CASE LinkActs
  <2>1. UNCHANGED <<push, kinds, received, flashMode>>
    BY <1>8 DEF LinkActs, pcVars, flashVars
  <2>2. n'[Pusher] = n[Pusher]
    BY <1>1, <1>8 DEF LinkActs, Send, ClearInput, Write, ReadLine, TimesOut, PortFails, Return,
       Begin, Close, Reopen, Others
  <2>3. at[Pusher] = "idle" => at'[Pusher] = "idle"
    BY <1>1, <1>8 DEF LinkActs, Send, ClearInput, Write, ReadLine, TimesOut, PortFails, Return,
       Begin, Close, Reopen, Others
  <2>4. at[Pusher] = "reading" => at'[Pusher] \in {"reading", "idle"}
    BY <1>1, <1>8 DEF LinkActs, Send, ClearInput, Write, ReadLine, TimesOut, PortFails, Return,
       Begin, Close, Reopen, Others
  <2> QED  BY <2>1, <2>2, <2>3, <2>4 DEF PushInv, Placed
<1>9. CASE UNCHANGED pushVars
  BY <1>9 DEF pushVars, pcVars, flashVars, linkVars, PushInv, Placed
<1> QED
  BY <1>2, <1>3, <1>4, <1>5, <1>6, <1>7, <1>8, <1>9 DEF PushNext, PushGoesOn

(* What the pusher and the other threads write.                            *)
LEMMA WritesConserve ==
  ASSUME PushInv, NEW c \in Call, UNCHANGED <<received, lost>>,
         wire' = Append(wire, c),
         kinds' = kinds \/ \E kind \in Kinds : kinds' = Append(kinds, kind),
         c \in ChunkCalls' => sent < Chunks /\ (push' # "idle" => sent' = sent + 1),
         c \notin ChunkCalls' => (push' # "idle" => sent' = sent),
         push # "idle"
  PROVE  Conserved'
<1>1. /\ wire \in Seq(Call) /\ received \in Nat /\ lost \in Nat /\ sent \in Nat /\ Chunks \in Nat
  BY PushConstants DEF PushInv, PushTypeOK, LinkTypeOK
<1> DEFINE before == CountIn(wire, ChunkCalls)
           after  == CountIn(wire', ChunkCalls')
<1>2. after = CountIn(wire, ChunkCalls') + (IF c \in ChunkCalls' THEN 1 ELSE 0)
  BY <1>1, CountAppend
<1>3. after = before + (IF c \in ChunkCalls' THEN 1 ELSE 0)
  BY <1>2, ChunksStay
<1>4. before \in Nat
  BY <1>1, CountBounded
<1>5. /\ lost <= received /\ received + before <= lost + Chunks
      /\ received + before <= lost + sent
  BY DEF PushInv, Conserved
<1> HIDE DEF before, after
<1>6. /\ received + after <= lost + Chunks
      /\ push' # "idle" => received + after <= lost + sent'
  <2>1. CASE c \in ChunkCalls'
    <3>1. after = before + 1
      BY <1>3, <2>1
    <3>2. sent < Chunks /\ (push' # "idle" => sent' = sent + 1)
      BY <2>1
    <3> QED  BY <1>1, <1>4, <1>5, <3>1, <3>2
  <2>2. CASE c \notin ChunkCalls'
    <3>1. after = before
      BY <1>3, <1>4, <2>2
    <3> QED  BY <1>1, <1>4, <1>5, <2>2, <3>1
  <2> QED  BY <2>1, <2>2
<1> QED  BY <1>5, <1>6 DEF Conserved, after

(* What the device takes: as data it is counted, as text it is gone.       *)
LEMMA TakesConserve ==
  ASSUME PushInv, SerialTask
  PROVE  Conserved'
<1>1. /\ wire \in Seq(Call) /\ received \in Nat /\ lost \in Nat /\ sent \in Nat
      /\ Chunks \in Nat /\ Total \in Nat
  BY PushConstants DEF PushInv, PushTypeOK, LinkTypeOK
<1> DEFINE before == CountIn(wire, ChunkCalls)
           after  == CountIn(wire', ChunkCalls)
<1>2. UNCHANGED <<push, sent, kinds>> /\ ChunkCalls' = ChunkCalls
  <2>1. UNCHANGED <<push, sent, kinds>>
    BY DEF SerialTask, TakesCommand, TakesGarbage, TakesData, pcVars
  <2> QED  BY <2>1 DEF ChunkCalls, IsChunk, KindOf
<1>3. before \in Nat
  BY <1>1, CountBounded
<1>4. /\ lost <= received /\ received + before <= lost + Chunks
      /\ push # "idle" => received + before <= lost + sent
  BY DEF PushInv, Conserved
<1>5. ASSUME after \in Nat, after <= before,
             (received' = received /\ lost' = lost) \/ (received' = 0 /\ lost' = 0)
      PROVE  Conserved'
  <2> HIDE DEF before, after
  <2>1. /\ lost' <= received' /\ received' + after <= lost' + Chunks
        /\ push # "idle" => received' + after <= lost' + sent
    BY <1>1, <1>3, <1>4, <1>5
  <2> QED  BY <1>2, <2>1 DEF Conserved, after
<1>6. CASE TakesCommand \/ TakesGarbage
  <2>1. wire # <<>> /\ wire' = Tail(wire)
    BY <1>6 DEF TakesCommand, TakesGarbage, DeviceTakes
  <2>2. (received' = received /\ lost' = lost) \/ (received' = 0 /\ lost' = 0)
    BY <1>6 DEF TakesCommand, TakesGarbage
  <2> QED  BY <1>5, <2>1, <2>2, TailTaken
<1>7. CASE TakesData
  <2>1. PICK k \in 1..Len(wire) :
          /\ wire' = RestOf(k)
          /\ IF received + k > Total
             THEN UNCHANGED <<received, lost>>
             ELSE received' = received + k /\ lost' = lost + CommandsIn(FirstOf(k))
    BY <1>7 DEF TakesData, RestOf, FirstOf
  <2>2. /\ after \in Nat /\ CommandsIn(FirstOf(k)) \in 0..k
        /\ before = (k - CommandsIn(FirstOf(k))) + after
    BY <2>1, Taken
  <2>3. k \in Nat
    BY <1>1
  <2>4. CASE received' = received /\ lost' = lost
    <3> HIDE DEF before, after
    <3>1. after <= before
      BY <1>3, <2>2, <2>3
    <3> QED  BY <1>5, <2>2, <2>4, <3>1
  <2>5. CASE received' = received + k /\ lost' = lost + CommandsIn(FirstOf(k))
    <3> DEFINE m == CommandsIn(FirstOf(k))
    <3>1. m \in Nat /\ m <= k /\ after \in Nat /\ before + m = k + after
      BY <1>3, <2>2, <2>3
    <3>2. received' = received + k /\ lost' = lost + m
      BY <2>5
    <3> HIDE DEF before, after, m
    <3>3. lost' <= received' /\ received' + after <= lost' + Chunks
      BY <1>1, <1>3, <1>4, <2>3, <3>1, <3>2
    <3>4. push # "idle" => received' + after <= lost' + sent
      BY <1>1, <1>3, <1>4, <2>3, <3>1, <3>2
    <3> QED  BY <1>2, <3>3, <3>4 DEF Conserved, after
  <2> QED  BY <2>1, <2>4, <2>5
<1>8. CASE DeviceAnswers /\ UNCHANGED <<pcVars, flashVars>>
  BY <1>3, <1>5, <1>8 DEF DeviceAnswers, flashVars
<1> QED  BY <1>6, <1>7, <1>8 DEF SerialTask

LEMMA ConservedStep ==
  ASSUME PushInv, [PushNext]_pushVars
  PROVE  Conserved'
<1> USE PushConstants
<1>1. /\ wire \in Seq(Call) /\ n \in [Clients -> Nat] /\ at \in [Clients -> Steps]
      /\ kinds \in Seq(Kinds) /\ Len(kinds) = n[Pusher]
      /\ received \in Nat /\ lost \in Nat /\ sent \in Nat
  BY DEF PushInv, PushTypeOK, LinkTypeOK, Kinds
<1>2. CountIn(wire, ChunkCalls) \in Nat
  BY <1>1, CountBounded
<1>3. ASSUME wire' = wire, UNCHANGED <<received, lost>>, push' # "idle" => push # "idle",
             push' # "idle" => sent' = sent,
             kinds' = kinds \/ \E kind \in Kinds : kinds' = Append(kinds, kind)
      PROVE  Conserved'
  <2>1. CountIn(wire, ChunkCalls)' = CountIn(wire, ChunkCalls)
    BY <1>3, ChunksStay
  <2> QED  BY <1>3, <2>1 DEF PushInv, Conserved
<1>4. CASE n[Pusher] = 0 /\ FlashBegin
  <2>1. received = 0 /\ lost = 0
    BY <1>1, <1>4 DEF PushInv, Placed, Conserved
  <2>2. CountIn(wire, ChunkCalls) = 0
    <3>1. \A i \in DOMAIN wire : wire[i][1] # Pusher
      BY <1>4 DEF PushInv, Given
    <3>2. {i \in DOMAIN wire : wire[i] \in ChunkCalls} = {}
      BY <3>1 DEF ChunkCalls, IsChunk, KindOf
    <3> QED  BY <3>2, FS_EmptySet DEF CountIn
  <2>3. /\ wire' = wire /\ UNCHANGED <<received, lost>> /\ sent' = 0
        /\ kinds' = Append(kinds, "flash")
    BY <1>4 DEF FlashBegin, Begin, flashVars
  <2>4. CountIn(wire, ChunkCalls)' = 0
    BY <2>2, <2>3, ChunksStay DEF Kinds
  <2> QED  BY <2>1, <2>3, <2>4 DEF Conserved
<1>5. CASE PingSent
  BY <1>3, <1>5 DEF PingSent, Begin, flashVars, Kinds
<1>6. CASE FlashBegun \/ WaitForLine \/ LineRead \/ PingReturns \/ UNCHANGED pushVars
  BY <1>3, <1>6 DEF FlashBegun, WaitForLine, LineRead, PingReturns, pushVars, linkVars, pcVars,
     flashVars
<1>7. CASE WriteRaw \/ WriteRawFails
  <2>1. /\ push = "data" /\ sent < Chunks /\ UNCHANGED <<received, lost>>
    BY <1>7 DEF WriteRaw, WriteRawFails, flashVars, PushInv, Streamed
  <2>2. CASE PutChunk
    <3> DEFINE c == <<Pusher, n'[Pusher]>>
    <3>1. c \in Call /\ wire' = Append(wire, c) /\ kinds' = Append(kinds, "chunk")
          /\ n'[Pusher] = Len(kinds) + 1
      BY <1>1, <2>2 DEF PutChunk, Call
    <3>2. kinds'[n'[Pusher]] = "chunk"
      BY <1>1, <3>1 DEF Kinds
    <3>3. c \in ChunkCalls'
      BY <3>1, <3>2 DEF ChunkCalls, IsChunk, KindOf
    <3>4. push' # "idle" => sent' = sent + 1
      BY <1>7 DEF WriteRaw, WriteRawFails
    <3> HIDE DEF c
    <3> QED  BY <2>1, <3>1, <3>3, <3>4, WritesConserve DEF Kinds
  <2>3. CASE UNCHANGED <<n, wire, kinds>>
    <3>1. push' = "idle"
      <4>1. ~PutChunk
        BY <1>1, <2>3 DEF PutChunk
      <4> QED  BY <1>7, <4>1 DEF WriteRaw, WriteRawFails
    <3> QED  BY <1>3, <2>1, <2>3, <3>1
  <2> QED  BY <1>7, <2>2, <2>3 DEF WriteRaw, WriteRawFails
<1>8. CASE SerialTask
  BY <1>8, TakesConserve
<1>9. CASE Reset
  <2>1. wire' = <<>> /\ received' = 0 /\ lost' = 0 /\ UNCHANGED <<push, sent>>
    BY <1>9 DEF Reset, pcVars
  <2>2. CountIn(wire, ChunkCalls)' = 0
    <3>1. {i \in DOMAIN wire' : wire'[i] \in ChunkCalls'} = {}
      BY <2>1
    <3> QED  BY <3>1, FS_EmptySet DEF CountIn
  <2> QED  BY <1>1, <2>1, <2>2 DEF Conserved
<1>10. CASE LinkActs
  <2>1. UNCHANGED <<push, sent, kinds, received, lost>>
    BY <1>10 DEF LinkActs, pcVars, flashVars
  <2>2. ASSUME wire' # wire
        PROVE  \E t \in Clients : Write(t)
    BY <1>10, <2>2 DEF LinkActs, Send, ClearInput, ReadLine, TimesOut, PortFails, Return,
       Begin, Close, Reopen, Others
  <2>3. ASSUME NEW t \in Clients, Write(t) PROVE Conserved'
    <3> DEFINE c == Current(t)
    <3>1. c \in Call /\ wire' = Append(wire, c)
      BY <1>1, <2>3 DEF Write, Current, Call
    <3>2. t = Pusher => kinds[n[t]] # "chunk" /\ push # "idle"
      BY <2>3 DEF Write, PushInv, PushTypeOK, Placed
    <3>3. c \notin ChunkCalls'
      BY <2>1, <3>2 DEF ChunkCalls, IsChunk, KindOf, Current
    <3>4. CASE push # "idle"
      <4> HIDE DEF c
      <4> QED  BY <2>1, <3>1, <3>3, <3>4, WritesConserve
    <3>5. CASE push = "idle"
      <4>1. CountIn(wire', ChunkCalls') = CountIn(wire, ChunkCalls')
        <5>1. CountIn(Append(wire, c), ChunkCalls')
                = CountIn(wire, ChunkCalls') + (IF c \in ChunkCalls' THEN 1 ELSE 0)
          <6> HIDE DEF c
          <6> QED  BY <1>1, <3>1, CountAppend
        <5>2. CountIn(wire, ChunkCalls') \in Nat
          BY <1>1, CountBounded
        <5> HIDE DEF c
        <5> QED  BY <3>1, <3>3, <5>1, <5>2
      <4>2. CountIn(wire, ChunkCalls') = CountIn(wire, ChunkCalls)
        BY <2>1, ChunksStay
      <4> QED  BY <2>1, <3>5, <4>1, <4>2 DEF PushInv, Conserved
    <3> QED  BY <3>4, <3>5
  <2> QED  BY <1>3, <2>1, <2>2, <2>3
<1> QED
  BY <1>4, <1>5, <1>6, <1>7, <1>8, <1>9, <1>10 DEF PushNext, PushGoesOn

LEMMA PushInvAlways == PushSpec => []PushInv
<1>1. PushInit => Given /\ Placed /\ Conserved
  <2> SUFFICES ASSUME PushInit PROVE Given /\ Placed /\ Conserved
    OBVIOUS
  <2>1. /\ wire = <<>> /\ n[Pusher] = 0 /\ at[Pusher] = "idle" /\ push = "idle"
        /\ received = 0 /\ lost = 0 /\ flashMode = FALSE
    BY PushConstants DEF PushInit, LinkInit
  <2>2. CountIn(wire, ChunkCalls) = 0
    <3>1. {i \in DOMAIN wire : wire[i] \in ChunkCalls} = {}
      BY <2>1
    <3> QED  BY <3>1, FS_EmptySet DEF CountIn
  <2> QED  BY <2>1, <2>2, PushConstants DEF Given, Placed, Conserved
<1>2. PushInv /\ [PushNext]_pushVars => (Given /\ Placed /\ Conserved)'
  BY GivenStep, PlacedStep, ConservedStep
<1> QED  BY <1>1, <1>2, PushTypedAlways, PTL DEF PushSpec, PushInv

(* A device in flash mode takes no more chunks for data than the firmware  *)
(* has, so that complete data holds a hash's length of commands; once it   *)
(* has taken all chunks it takes commands for the hash, and leaves flash   *)
(* mode with as many as the hash is long (process_flash_data).             *)
THEOREM DeafNoLonger == PushSpec => []DeafForAHash
<1>1. PushInv => DeafForAHash
  <2> SUFFICES ASSUME PushInv PROVE DeafForAHash
    OBVIOUS
  <2>1. /\ received \in 0..Total /\ lost \in Nat
        /\ flashMode => received < Total
        /\ received + CountIn(wire, ChunkCalls) <= lost + Chunks
    BY DEF PushInv, PushTypeOK, Streamed, Conserved
  <2>2. CountIn(wire, ChunkCalls) \in Nat
    BY CountBounded DEF PushInv, PushTypeOK, LinkTypeOK
  <2> QED  BY <2>1, <2>2, PushConstants DEF DeafForAHash
<1> QED  BY <1>1, PushInvAlways, PTL

=============================================================================
