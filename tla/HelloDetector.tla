---------------------------- MODULE HelloDetector ---------------------------
(***************************************************************************)
(* The hello detector of the monitor (monitor/hello_detector.py, dialog.py *)
(* and _on_new_app_discovered of monitor/service.py) over the serial link: *)
(* it looks for the dialog of Windows Hello, brings it to the front and    *)
(* has the device type the PIN into whatever window has the focus by then. *)
(* Dialogs come, go and lose the focus between any two of its steps.       *)
(***************************************************************************)
EXTENDS SerialLink

CONSTANTS
  Hello,      \* the detector's thread, one of the clients
  Apps,       \* executables that own dialogs
  Listed,     \* those the device's configuration enables
  Refused,    \* those it disables
  None,       \* no executable
  Room,       \* apps the device can keep beside those: CONFIG_MAX_APPS less
              \* the entries that it has
  MaxDialogs, \* bound: dialogs shown
  MaxAsked,   \* bound: no dialog is handled after as many calls
  MaxLate     \* bound: nor after as many once a call was given up

ASSUME HelloAssumption ==
  /\ Hello \in Clients /\ None \notin Apps
  /\ Room \in Nat /\ Listed \subseteq Apps /\ Refused \subseteq Apps \ Listed

VARIABLES
  loc,         \* where the detection loop is
  exe,         \* owner_exe of the dialog it handles
  whitelist,   \* the apps enabled in its AppWhitelist
  noted,       \* the apps added to the service's _config, oldest first
  asked,       \* what the detector's calls ask for, by their number
  dialog,      \* the owner of the visible dialog, or None
  front,       \* the dialog has the focus
  dialogs,     \* dialogs shown so far
  deviceApps,  \* the apps added to the device's configuration
  unsent,      \* history: the apps whose last SET_CONFIG raised
  steady,      \* history: the dialog is the one that was looked at and has
               \* kept the focus since the last test
  pins,        \* history: PINs typed into this dialog
  escapes      \* history: ESCAPEs the device has taken since it was shown

loopVars   == <<loc, exe, whitelist, noted, asked, unsent>>
dialogVars == <<dialog, front, dialogs, pins, escapes>>
vars == <<linkVars, loopVars, dialogVars, deviceApps, steady>>

Goto(place) == loc' = place

Init ==
  /\ LinkInit
  /\ loc = "poll" /\ exe = None /\ whitelist = Listed /\ noted = <<>>
  /\ asked = <<>> /\ unsent = {} /\ steady = FALSE
  /\ dialog = None /\ front = FALSE /\ dialogs = 0 /\ pins = 0 /\ escapes = 0
  /\ deviceApps = {}

-----------------------------------------------------------------------------
(* _handle_next and _handle_dialog                                         *)

Visible == dialog # None

(* AppWhitelist                                                            *)
IsNew(app)     == app \notin whitelist \cup Refused
IsAllowed(app) == app \notin Refused
AddApp(app)    == whitelist' = whitelist \cup {app}

(* json_parse_apps: the first ones, as many as there is room for; the rest *)
(* is dropped and nobody is told.                                          *)
Kept(apps) == {apps[i] : i \in {k \in DOMAIN apps : k <= Room}}

(* dialog.py, each as the window is by then; Windows may fail the owner    *)
(* and the focus, and whoever waits sees the dialog go or stay.            *)
GetOwner     == exe' \in {dialog, None}
FocusDialog  == front' \in {front, Visible}
IsForeground == front
Dismissed    == ~Visible

LookForDialog ==
  /\ loc = "poll" /\ n[Hello] < (IF overdue THEN MaxLate ELSE MaxAsked)
  /\ Visible
  /\ Goto("owner")
  /\ UNCHANGED <<linkVars, exe, whitelist, noted, asked, unsent, dialogVars,
                 deviceApps, steady>>

(* stop() is seen between two dialogs.                                     *)
LoopEnds ==
  /\ loc = "poll"
  /\ Goto("dead")
  /\ UNCHANGED <<linkVars, exe, whitelist, noted, asked, unsent, dialogVars,
                 deviceApps, steady>>

(* A call of the detector's; SET_CONFIG carries the whole configuration.   *)
Ask(kind, apps) ==
  /\ Begin(Hello)
  /\ asked' = Append(asked, [kind |-> kind, apps |-> apps])

\* Mutant: the whitelist is not asked.
FindOwner_AnyAllowed ==
  /\ loc = "owner"
  /\ GetOwner /\ (exe' # None => ~IsNew(exe'))
  /\ steady' = Visible
  /\ Goto("focus")
  /\ UNCHANGED <<linkVars, whitelist, noted, asked, unsent, dialogVars, deviceApps>>

(* get_owner_exe finds no owner, which is allowed, or one that is known.   *)
FindOwner ==
  /\ loc = "owner"
  /\ GetOwner /\ (exe' # None => ~IsNew(exe'))
  /\ steady' = Visible
  /\ Goto(IF IsAllowed(exe') THEN "focus" ELSE "poll")
  /\ UNCHANGED <<linkVars, whitelist, noted, asked, unsent, dialogVars, deviceApps>>

\* Mutant: the configuration is sent as it was before the application.
NewApp_SentBefore ==
  /\ loc = "owner" /\ GetOwner /\ exe' # None /\ IsNew(exe')
  /\ steady' = TRUE /\ AddApp(exe')
  /\ noted' = Append(noted, exe') /\ Ask("config", noted) /\ Goto("pushing")
  /\ UNCHANGED <<unsent, dialogVars, deviceApps>>

(* _on_new_app_discovered; a device that has just gone may still be taken  *)
(* for connected.                                                          *)
OnNewApp(app) ==
  noted' = Append(noted, app) /\ Ask("config", noted') /\ Goto("pushing")
NotConnected  == ~open /\ Goto("focus") /\ UNCHANGED <<linkVars, noted, asked>>

(* A new application is enabled in the whitelist, whatever auto_discover   *)
(* says.                                                                   *)
NewApp ==
  /\ loc = "owner" /\ GetOwner /\ exe' # None /\ IsNew(exe')
  /\ steady' = TRUE /\ AddApp(exe')
  /\ OnNewApp(exe') \/ NotConnected
  /\ UNCHANGED <<unsent, dialogVars, deviceApps>>

Idle == at[Hello] = "idle"
Succeeded == \E answer \in result[Hello] : answer.ok

(* set_config returns or raises, which is only logged.                     *)
ConfigReturns ==
  /\ loc = "pushing" /\ Idle
  /\ unsent' = IF result[Hello] = {} THEN Kept(noted) ELSE {}
  /\ Goto("focus")
  /\ UNCHANGED <<linkVars, exe, whitelist, noted, asked, dialogVars,
                 deviceApps, steady>>

(* focus() may be refused by Windows.                                      *)
Focus ==
  /\ loc \in {"focus", "refocus"}
  /\ FocusDialog
  /\ Goto(IF loc = "focus" THEN "test" ELSE "retest")
  /\ UNCHANGED <<linkVars, exe, whitelist, noted, asked, unsent, dialog, dialogs,
                 pins, escapes, deviceApps, steady>>

TestFocus ==
  /\ loc \in {"test", "retest"}
  /\ Goto(IF IsForeground THEN "gate" ELSE IF loc = "test" THEN "refocus" ELSE "poll")
  /\ UNCHANGED <<linkVars, exe, whitelist, noted, asked, unsent, dialogVars,
                 deviceApps, steady>>

LastTest ==
  /\ loc = "gate"
  /\ IF IsForeground THEN Ask("hello", <<>>) /\ Goto("typing")
                     ELSE Goto("poll") /\ UNCHANGED <<linkVars, asked>>
  /\ UNCHANGED <<exe, whitelist, noted, unsent, dialogVars, deviceApps, steady>>

HelloReturns ==
  /\ loc = "typing" /\ Idle
  /\ Goto(IF Succeeded THEN "dismiss" ELSE "poll")
  /\ UNCHANGED <<linkVars, exe, whitelist, noted, asked, unsent, dialogVars,
                 deviceApps, steady>>

\* Mutant: a dialog that stays is handled again at once.
WaitForDismiss_NoEscape ==
  /\ loc = "dismiss" /\ Goto("poll") /\ UNCHANGED <<linkVars, asked>>
  /\ UNCHANGED <<exe, whitelist, noted, unsent, dialogVars, deviceApps, steady>>

(* wait_for_dismiss; a dialog that stays is to be closed with ESCAPE.      *)
WaitForDismiss ==
  /\ loc = "dismiss"
  /\ IF Dismissed THEN Goto("poll") /\ UNCHANGED <<linkVars, asked>>
                  ELSE Ask("escape", <<>>) /\ Goto("escaping")
  /\ UNCHANGED <<exe, whitelist, noted, unsent, dialogVars, deviceApps, steady>>

(* Whatever came of it, and whether or not the dialog closes in 3 s.       *)
EscapeReturns ==
  /\ loc = "escaping" /\ Idle
  /\ Goto("poll")
  /\ UNCHANGED <<linkVars, exe, whitelist, noted, asked, unsent, dialogVars,
                 deviceApps, steady>>

Loop == LookForDialog \/ LoopEnds \/ FindOwner \/ NewApp \/ ConfigReturns
        \/ Focus \/ TestFocus \/ LastTest \/ HelloReturns \/ WaitForDismiss \/ EscapeReturns

-----------------------------------------------------------------------------
(* Dialogs                                                                 *)

ShowDialog ==
  /\ ~Visible /\ dialogs < MaxDialogs
  /\ dialog' \in Apps /\ front' \in BOOLEAN /\ dialogs' = dialogs + 1
  /\ pins' = 0 /\ escapes' = 0
  /\ UNCHANGED <<linkVars, loopVars, deviceApps, steady>>

CloseDialog ==
  /\ Visible
  /\ dialog' = None /\ front' = FALSE /\ steady' = FALSE
  /\ UNCHANGED <<linkVars, loopVars, dialogs, pins, escapes, deviceApps>>

LoseFocus ==
  /\ front /\ front' = FALSE
  /\ steady' = (steady /\ loc # "typing")
  /\ UNCHANGED <<linkVars, loopVars, dialog, dialogs, pins, escapes, deviceApps>>

-----------------------------------------------------------------------------
(* The link and the device                                                 *)

ThreadsSend ==
  /\ Send(Hello) \/ \E t \in Clients \ {Hello} : (n[t] < MaxCalls /\ Begin(t)) \/ Send(t)
  /\ UNCHANGED <<loopVars, dialogVars, deviceApps, steady>>

ClosePort ==
  /\ Close
  /\ UNCHANGED <<loopVars, dialogVars, deviceApps, steady>>

Requested(call) == IF call[1] = Hello THEN asked[call[2]].kind ELSE "other"

(* handle_hello types the PIN without Enter, into the window that has the  *)
(* focus; handle_press types ESCAPE, which need not reach the dialog       *)
(* either; handle_set_config takes the apps of the payload for the         *)
(* device's, answers OK, and keeps what it has room for.                   *)
DeviceActs ==
  /\ \E ok \in BOOLEAN :
       /\ DeviceTakes(ok)
       /\ LET what == Requested(Head(wire)) IN
          /\ pins' = IF what = "hello" /\ ok /\ front THEN pins + 1 ELSE pins
          /\ escapes' = IF what = "escape" THEN escapes + 1 ELSE escapes
          /\ deviceApps' = IF what = "config" THEN Kept(asked[Head(wire)[2]].apps)
                           ELSE deviceApps
  /\ UNCHANGED <<loopVars, dialog, front, dialogs, steady>>

DeviceReplies ==
  /\ DeviceAnswers
  /\ UNCHANGED <<loopVars, dialogVars, deviceApps, steady>>

Next == Loop \/ ShowDialog \/ CloseDialog \/ LoseFocus
        \/ ThreadsSend \/ ClosePort \/ DeviceActs \/ DeviceReplies

Spec == Init /\ [][Next]_vars

-----------------------------------------------------------------------------
(* Properties                                                              *)

Places == {"poll", "owner", "pushing", "focus", "test", "refocus", "retest",
           "gate", "typing", "dismiss", "escaping", "dead"}

TypeOK ==
  /\ LinkTypeOK
  /\ loc \in Places /\ {exe, dialog} \subseteq Apps \cup {None}
  /\ UNION {whitelist, deviceApps, unsent} \subseteq Apps /\ noted \in Seq(Apps)
  /\ asked \in Seq([kind : {"config", "hello", "escape"}, apps : Seq(Apps)])
  /\ Len(asked) = n[Hello]
  /\ {front, steady} \subseteq BOOLEAN
  /\ {dialogs, pins, escapes} \subseteq Nat

PinTyped == busy = <<>> /\ busy' # <<>> /\ Requested(Head(wire)) = "hello" /\ busy'[1].ok

(* A PIN that is still waited for is typed into the dialog, and not into   *)
(* that of a disabled app, as long as the dialog that was looked at is     *)
(* there and has kept the focus since the last test, and its owner was     *)
(* found.  One that was given up may come into any dialog.                 *)
PinForAllowed ==
  [][PinTyped /\ loc = "typing" /\ Head(wire) = Current(Hello) /\ steady =>
       front /\ (exe # None => dialog \notin Refused)]_vars

(* A dialog that does not take the PIN gets it again only after the device *)
(* has typed ESCAPE, wherever the focus was: PINs typed one after the      *)
(* other would be counted as wrong ones.                                   *)
PinsWithinEscapes == ~overdue => pins <= escapes + 1

(* What the service has noted the device has too, as far as it has room    *)
(* for it, the oldest first, unless the last attempt to send it raised:    *)
(* one that succeeds makes up for those before.  What there is no room for *)
(* the service takes for sent and the device does not have.                *)
NotedReachesDevice ==
  loc = "poll" /\ (\A i \in DOMAIN wire : Requested(wire[i]) # "config") =>
    Kept(noted) \ deviceApps \subseteq unsent
=============================================================================
