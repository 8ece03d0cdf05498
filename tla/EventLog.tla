------------------------------ MODULE EventLog ------------------------------
(***************************************************************************)
(* The event log of the firmware (log.c) and its file (storage.c): a ring  *)
(* buffer in RAM, written to /log.bin after every event and read back at   *)
(* power-up.  A write, a delete, a read or the mount may fail, and the     *)
(* power may go at any time, in the middle of CLEAR too.  A write that     *)
(* fails leaves the old file: LittleFS commits a file when it is closed,   *)
(* and fs_write_file does not look at the result of lfs_file_close.        *)
(***************************************************************************)
EXTENDS Naturals, Sequences

CONSTANTS
  Event,      \* the entries log_event can make
  BootEvent,  \* the one main() makes at the end of its initialisation
  Blank,      \* a slot that memset has zeroed
  Capacity,   \* LOG_MAX_ENTRIES
  CloseMayFail  \* whether lfs_file_close may fail to commit the file

ASSUME EventAssumption    == BootEvent \in Event
ASSUME CapacityAssumption == Capacity \in Nat \ {0}
ASSUME CloseAssumption    == CloseMayFail \in BOOLEAN

VARIABLES
  entries,   \* _entries
  writeIdx,  \* _write_idx
  count,     \* _count
  dirty,     \* _dirty
  mounted,   \* the file system is mounted, so the callbacks are registered
  file,      \* /log.bin
  clearing   \* handle_clear is between storage_clear_all and log_clear

vars == <<entries, writeIdx, count, dirty, mounted, file, clearing>>

Slots == 0..(Capacity - 1)
Zeroed == [i \in Slots |-> Blank]

(* What log_persist_cb writes, and what log_restore_cb makes of it.  A     *)
(* missing file is like one without entries.                               *)
\* Mutant: the index is not saved.
FileImage_NoIndex(es, n, w) == [count |-> n, writeIdx |-> 0,
                                entries |-> [i \in 1..n |-> es[i - 1]]]

FileImage(es, n, w) == [count |-> n, writeIdx |-> w,
                        entries |-> [i \in 1..n |-> es[i - 1]]]
NoFile == [count |-> 0, writeIdx |-> 0, entries |-> << >>]
Restored(f) == [i \in Slots |-> IF i < f.count THEN f.entries[i + 1] ELSE Blank]

(* log_read_all with room for every entry.                                 *)
\* Mutant: a full buffer is read from its first slot.
ReadAll_FromZero(es, n, w) == [i \in 1..n |-> es[i - 1]]

ReadAll(es, n, w) ==
  [i \in 1..n |-> IF n < Capacity THEN es[i - 1] ELSE es[(w + (i - 1)) % Capacity]]

(* log_flush after a change, over the file f.                              *)
Flush(f) ==
  \/ mounted' /\ file' = FileImage(entries', count', writeIdx') /\ dirty' = FALSE
  \/ CloseMayFail /\ mounted' /\ file' = f /\ dirty' = FALSE
  \/ file' = f /\ dirty' = TRUE

(* log_event on a buffer of n entries.                                     *)
\* Mutant: the index does not come round.
LogOn_NoModulus(es, n, w, e) ==
  /\ entries'  = [es EXCEPT ![w] = e]
  /\ writeIdx' = w + 1
  /\ count'    = IF n < Capacity THEN n + 1 ELSE n

LogOn(es, n, w, e) ==
  /\ entries'  = [es EXCEPT ![w] = e]
  /\ writeIdx' = (w + 1) % Capacity
  /\ count'    = IF n < Capacity THEN n + 1 ELSE n

-----------------------------------------------------------------------------
(* A device at the end of its first boot.                                  *)
Init ==
  /\ entries = [Zeroed EXCEPT ![0] = BootEvent]
  /\ writeIdx = 1 % Capacity
  /\ count = 1
  /\ mounted \in BOOLEAN
  /\ \/ mounted /\ file = FileImage(entries, count, writeIdx) /\ dirty = FALSE
     \/ CloseMayFail /\ mounted /\ file = NoFile /\ dirty = FALSE
     \/ file = NoFile /\ dirty = TRUE
  /\ clearing = FALSE

(* log_event, called by UNLOCK, HELLO, boot unlock and the scheduled wake. *)
LogEvent ==
  /\ ~clearing
  /\ \E e \in Event : LogOn(entries, count, writeIdx, e)
  /\ UNCHANGED <<mounted, clearing>>
  /\ Flush(file)

(* handle_clear: storage_clear_all deletes the file and ignores whether    *)
(* that succeeded, then log_clear empties the buffer and writes it.        *)
ClearFiles ==
  /\ ~clearing /\ clearing' = TRUE
  /\ file' \in {file} \cup (IF mounted THEN {NoFile} ELSE {})
  /\ UNCHANGED <<entries, writeIdx, count, dirty, mounted>>

ClearLog ==
  /\ clearing /\ clearing' = FALSE
  /\ entries' = Zeroed /\ writeIdx' = 0 /\ count' = 0
  /\ UNCHANGED mounted
  /\ Flush(file)

(* Power-up: storage_init mounts the file system, formats it first if it   *)
(* must, or gives up; log_init restores the log or starts an empty one;    *)
(* main() logs the boot.                                                   *)
RestoredBoot ==
  /\ mounted' = TRUE /\ clearing' = FALSE
  /\ LogOn(Restored(file), file.count, file.writeIdx, BootEvent)
  /\ Flush(file)

(* The files are kept, or gone because the file system was formatted.      *)
EmptyBoot(kept) ==
  /\ mounted' \in BOOLEAN /\ clearing' = FALSE
  /\ LogOn(Zeroed, 0, 0, BootEvent)
  /\ Flush(IF kept THEN file ELSE NoFile)

Next ==
  \/ LogEvent \/ ClearFiles \/ ClearLog
  \/ RestoredBoot \/ \E kept \in BOOLEAN : EmptyBoot(kept)

Spec == Init /\ [][Next]_vars
-----------------------------------------------------------------------------
(* Properties                                                              *)

FileType == UNION {[count : {n}, writeIdx : Slots, entries : [1..n -> Event]] :
                     n \in 0..Capacity}

(* Every variable has its type: the index stays inside the buffer and the  *)
(* file never holds a slot that no event was written to.                   *)
TypeOK ==
  /\ entries \in [Slots -> Event \cup {Blank}]
  /\ writeIdx \in Slots
  /\ count \in 0..Capacity
  /\ {dirty, mounted, clearing} \subseteq BOOLEAN
  /\ file \in FileType

ReadOut == ReadAll(entries, count, writeIdx)
SavedOut == ReadAll(Restored(file), file.count, file.writeIdx)

(* When the log believes that flash is up to date, it is: after any        *)
(* sequence of failed writes, failed deletes and restarts, a restart with  *)
(* dirty FALSE loses nothing ("Persist current log buffer to flash",       *)
(* log.h).                                                                 *)
CleanMeansSaved == ~dirty /\ ~clearing => SavedOut = ReadOut

H == INSTANCE EventHistory WITH history <- ReadOut, saved <- SavedOut

(* The log is "persisted to /log.bin on flash" (log.h): a restart that can *)
(* read the file continues the history of a log whose last write           *)
(* succeeded: same events, same order, the boot's added, the oldest pushed *)
(* out if there is no room.                                                *)
WrittenSurvives ==
  [][RestoredBoot /\ ~dirty /\ ~clearing => ReadOut' = H!Remember(ReadOut, BootEvent)]_vars

(* The ring buffer and its file implement a bounded history and its saved  *)
(* copy.                                                                   *)
RefinesHistory == H!Spec
=============================================================================
