----------------------------- MODULE AutoUpdate -----------------------------
(***************************************************************************)
(* The auto-updater of the monitor (monitor/updater.py): the daily check   *)
(* with its cached ETag, the download, the executable staged beside the    *)
(* running one and renamed at the next start, and the firmware push, whose *)
(* steps are in FirmwarePush.  The process may end at any step; its files  *)
(* stay.                                                                   *)
(*                                                                         *)
(* A release is a number, which is also its version; an executable is the  *)
(* release it is of, or Part when it is not whole.  External: the release  *)
(* page, and the rules of Windows for files (a running image can be        *)
(* renamed but not deleted, and nothing is renamed over a file).           *)
(***************************************************************************)
EXTENDS Naturals

CONSTANTS
  MaxRelease,  \* bound: releases published; the first is installed
  MaxExits     \* bound: ends of the process

ASSUME BoundAssumption == MaxRelease \in Nat \ {0} /\ MaxExits \in Nat

VARIABLES
  latest,   \* the release on the page
  etag,     \* the release the cached ETag is of, 0 without one
  step,     \* where the updater thread is
  found,    \* the release of its check
  running,  \* the release of the process, get_current_version
  image,    \* the file its image has: "exe" or "old"
  exe, old, new,   \* the executable, .exe.old and .exe.new
  exits,    \* ends of the process so far
  tried     \* history: the releases something went wrong with

files      == <<exe, old, new>>
page       == <<latest, etag, found>>
process    == <<running, image, exits>>
updateVars == <<page, step, process, files, tried>>

Releases == 1..MaxRelease
Absent == 0
Part == MaxRelease + 1
Whole(copy) == copy \in Releases

UpdateInit ==
  /\ latest = 1 /\ etag = 0 /\ found = 1 /\ step = "start" /\ running = 1
  /\ image = "exe" /\ exe = 1 /\ old = Absent /\ new = Absent
  /\ exits = 0 /\ tried = {}

Failed == tried' = tried \cup {found}
Goto(place) == step' = place

-----------------------------------------------------------------------------
(* AutoUpdater.start, at the start of the process and whenever the device  *)
(* is back: cleanup_old_update                                             *)

DeleteOld ==
  /\ step = "start"
  /\ old' \in {old} \cup (IF image = "old" THEN {} ELSE {Absent})
  /\ Goto("rename")
  /\ UNCHANGED <<page, process, exe, new, tried>>

\* Mutant: the new executable replaces the running one.
MoveAside_Replaces ==
  /\ step = "rename" /\ new # Absent
  /\ exe' = new /\ new' = Absent
  /\ Goto("wait")
  /\ UNCHANGED <<page, process, old, tried>>

MoveAside ==
  /\ step = "rename" /\ new # Absent /\ exe # Absent /\ old = Absent
  /\ old' = exe /\ exe' = Absent /\ image' = "old"
  /\ Goto("replace")
  /\ UNCHANGED <<page, running, exits, new, tried>>

PutInPlace ==
  /\ step = "replace" \/ (step = "rename" /\ new # Absent /\ exe = Absent)
  /\ exe' = new /\ new' = Absent
  /\ Goto("wait")
  /\ UNCHANGED <<page, process, old, tried>>

(* Nothing is staged, or a rename raises, which is only logged.            *)
CleanedUp ==
  /\ step \in {"rename", "replace"}
  /\ Goto("wait")
  /\ UNCHANGED <<page, process, files, tried>>

Rearm ==
  /\ step = "wait" /\ Goto("start")
  /\ UNCHANGED <<page, process, files, tried>>

Cleanup == DeleteOld \/ MoveAside \/ PutInPlace \/ CleanedUp \/ Rearm

-----------------------------------------------------------------------------
(* check_for_updates.  Errors of the network end the check before anything *)
(* is saved.                                                               *)

(* With the ETag of the release the page answers 304.                      *)
Unseen == etag # latest

(* _save_etag may fail, which is only logged.                              *)
SaveEtag == etag' \in {etag, latest}

\* Mutant: what is found is a draft that follows the latest release.
Check_Ahead ==
  /\ step = "wait" /\ Unseen
  /\ found' = latest + 1 /\ SaveEtag
  /\ Goto("manifest")
  /\ UNCHANGED <<latest, process, files, tried>>

(* The ETag is saved before the answer is read.                            *)
Check ==
  /\ step = "wait" /\ Unseen
  /\ found' = latest /\ SaveEtag
  /\ Goto("manifest")
  /\ UNCHANGED <<latest, process, files, tried>>

CheckFails ==
  /\ step = "manifest"
  /\ Failed /\ Goto("wait")
  /\ UNCHANGED <<page, process, files>>

(* compare_versions                                                        *)
Older(v1, v2) == v1 < v2

\* Mutant: the versions are compared the other way round.
Compare_Swapped ==
  /\ step = "manifest"
  /\ Goto(IF Older(found, running) THEN "software" ELSE "firmware")
  /\ UNCHANGED <<page, process, files, tried>>

Compare ==
  /\ step = "manifest"
  /\ Goto(IF Older(running, found) THEN "software" ELSE "firmware")
  /\ UNCHANGED <<page, process, files, tried>>

(* No such asset, a download that fails or no frozen build: _do_check goes *)
(* on with the firmware all the same.                                      *)
NotStaged ==
  /\ step = "software"
  /\ Failed /\ Goto("firmware")
  /\ UNCHANGED <<page, process, files>>

(* copy2 writes .exe.new in place ...                                      *)
CopyBegins ==
  /\ step = "software"
  /\ new' = Part /\ Goto("staging")
  /\ UNCHANGED <<page, process, exe, old, tried>>

(* ... and may fail.  A download that was cut short is staged as it is.    *)
Staged ==
  /\ step = "staging"
  /\ \/ new' = found /\ UNCHANGED tried
     \/ Failed /\ UNCHANGED new
  /\ Goto("firmware")
  /\ UNCHANGED <<page, process, exe, old>>

(* _firmware_version is that of the first release, read before the start.  *)
NoFirmware ==
  /\ step = "firmware"
  /\ IF Older(1, found) THEN Failed ELSE UNCHANGED tried
  /\ Goto("wait")
  /\ UNCHANGED <<page, process, files>>

(* apply_firmware_update: whatever came of it is only logged, and          *)
(* _firmware_version stays as it was.                                      *)
Push ==
  /\ step = "firmware" /\ Older(1, found)
  /\ Goto("pushing")
  /\ UNCHANGED <<page, process, files, tried>>

PushEnds ==
  /\ step = "pushing"
  /\ UNCHANGED tried \/ Failed
  /\ Goto("wait")
  /\ UNCHANGED <<page, process, files>>

(* What the thread does once a check has begun.                            *)
Checking == {"manifest", "software", "staging", "firmware", "pushing"}
Updating == CheckFails \/ Compare \/ NotStaged \/ CopyBegins \/ Staged \/ NoFirmware
            \/ Push \/ PushEnds

-----------------------------------------------------------------------------
(* The process and the release page                                        *)

Publish ==
  /\ latest < MaxRelease /\ latest' = latest + 1
  /\ UNCHANGED <<etag, found, step, process, files, tried>>

Exit ==
  /\ step # "down" /\ exits < MaxExits
  /\ exits' = exits + 1 /\ Goto("down")
  /\ IF step \in Checking THEN Failed ELSE UNCHANGED tried
  /\ UNCHANGED <<page, running, image, files>>

(* An executable that is not whole does not start.                         *)
Start ==
  /\ step = "down" /\ Whole(exe)
  /\ running' = exe /\ image' = "exe" /\ Goto("start")
  /\ UNCHANGED <<page, exits, files, tried>>

UpdateNext == Cleanup \/ Check \/ Updating \/ Publish \/ Exit \/ Start

UpdateSpec == UpdateInit /\ [][UpdateNext]_updateVars

-----------------------------------------------------------------------------
(* Properties                                                              *)

Places == {"start", "rename", "replace", "wait", "down"} \cup Checking

UpdateTypeOK ==
  /\ {latest, found, running} \subseteq Releases /\ etag \in 0..MaxRelease
  /\ step \in Places /\ image \in {"exe", "old"}
  /\ {exe, old, new} \subseteq Releases \cup {Absent, Part}
  /\ exits \in 0..MaxExits /\ tried \subseteq Releases

(* Whatever fails and whenever the process ends, an executable that is     *)
(* whole is left: the one in place or the one that was moved aside.        *)
WholeCopy == Whole(exe) \/ Whole(old)

(* Once the ETag of a release is cached it is not seen again.  It is then  *)
(* staged, in place or running, unless something failed with it, which is  *)
(* never made up for.                                                      *)
TakenOrFailed ==
  step = "wait" /\ etag = latest => latest \in {running, exe, new} \cup tried

=============================================================================
