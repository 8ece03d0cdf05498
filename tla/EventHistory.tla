---------------------------- MODULE EventHistory ----------------------------
(***************************************************************************)
(* What the firmware's event log promises (log.h, log.c), without its ring *)
(* buffer and its file format: the device remembers the last Capacity      *)
(* events in the order they happened, and flash holds a history to come    *)
(* back to after a restart.  A write that fails leaves flash behind.       *)
(***************************************************************************)
EXTENDS Naturals, Sequences

CONSTANTS Event, BootEvent, Capacity

VARIABLES
  history,   \* the events GET_LOG reports, oldest first
  saved      \* the events a restart finds

hvars == <<history, saved>>

(* An event is added at the end; one too many pushes the oldest out.       *)
Remember(h, e) == IF Len(h) < Capacity THEN Append(h, e) ELSE Append(Tail(h), e)

(* A new device, after its first boot.                                     *)
Init ==
  /\ history = Remember(<< >>, BootEvent)
  /\ saved \in {<< >>, history}

Record(e) ==
  /\ history' = Remember(history, e)
  /\ saved' \in {saved, history'}

(* The saved history may be gone before the one in RAM is.                 *)
Erase ==
  /\ saved' = << >>
  /\ UNCHANGED history

Clear ==
  /\ history' = << >>
  /\ saved' \in {saved, << >>}

(* A restart takes up the saved history, or starts an empty one if it      *)
(* cannot be read; the first new event is that of the boot.                *)
Restart ==
  /\ history' \in {Remember(<< >>, BootEvent), Remember(saved, BootEvent)}
  /\ saved' \in {saved, << >>, history'}

Next == (\E e \in Event : Record(e)) \/ Erase \/ Clear \/ Restart

Spec == Init /\ [][Next]_hvars
=============================================================================
