---------------------------- MODULE FirmwarePush ----------------------------
(***************************************************************************)
(* The push of a firmware over the serial link: flash_and_verify of        *)
(* serial/flasher.py with write_raw and read_line of serial/protocol.py,   *)
(* against serial_task and process_flash_data of serial_proto.c.  In flash *)
(* mode whatever comes is data, the commands of other threads too.         *)
(*                                                                         *)
(* Data is counted in units: a chunk and a command take one each.  The PC  *)
(* never sends the hash the device waits for, so the hash is made of the   *)
(* commands that follow and finalize finds it wrong.                       *)
(***************************************************************************)
EXTENDS SerialLink, Integers, FiniteSets

CONSTANTS
  Pusher,   \* the thread that pushes, one of the clients
  Chunks,   \* units of a firmware
  Hash      \* units of its hash

ASSUME PushAssumption == Pusher \in Clients /\ {Chunks, Hash} \subseteq Nat \ {0}

VARIABLES
  push,       \* where flash_and_verify is
  sent,       \* chunks written
  verdict,    \* FlashResult.success of the last flash_firmware, "none" before
  kinds,      \* what the pusher's writes are, by number
  flashMode,  \* _flash_mode
  received,   \* _flash_received
  dirty,      \* _line_buf holds the rest of a chunk
  lost        \* history: commands taken for data since READY

pcVars     == <<push, sent, verdict, kinds>>
flashVars  == <<flashMode, received, dirty, lost>>
pushVars   == <<linkVars, pcVars, flashVars>>

Total == Chunks + Hash

(* PROGRESS is an answer to no call, and parse_response takes it for OK.   *)
Progress == [call |-> <<Pusher, 0>>, ok |-> TRUE]

KindOf(call) == IF call[1] = Pusher THEN kinds[call[2]] ELSE "command"
IsChunk(call) == KindOf(call) = "chunk"

PushInit ==
  /\ LinkInit
  /\ push = "idle" /\ sent = 0 /\ verdict = "none" /\ kinds = <<>>
  /\ flashMode = FALSE /\ received = 0 /\ dirty = FALSE /\ lost = 0

-----------------------------------------------------------------------------
(* flash_firmware and flash_and_verify                                     *)

Ended(success) == verdict' = IF success THEN "success" ELSE "failure"
Returned == at[Pusher] = "idle"

FlashBegin ==
  /\ push = "idle" /\ Begin(Pusher)
  /\ kinds' = Append(kinds, "flash") /\ push' = "flash" /\ sent' = 0 /\ verdict' = "none"
  /\ UNCHANGED flashVars

(* READY is the answer to a FLASH, be it that of an earlier push.          *)
FlashBegun ==
  /\ push = "flash" /\ Returned
  /\ IF \E a \in result[Pusher] : a.ok /\ a # Progress /\ KindOf(a.call) = "flash"
     THEN push' = "data" /\ UNCHANGED verdict
     ELSE push' = "idle" /\ Ended(FALSE)
  /\ UNCHANGED <<linkVars, sent, kinds, flashVars>>

PutChunk ==
  /\ n' = [n EXCEPT ![Pusher] = @ + 1]
  /\ wire' = Append(wire, <<Pusher, n'[Pusher]>>)
  /\ kinds' = Append(kinds, "chunk")

\* Mutant: one chunk too many.
WriteRaw_OffByOne ==
  /\ push = "data" /\ owner = {} /\ open
  /\ PutChunk /\ sent' = sent + 1
  /\ push' = IF sent' > Chunks THEN "line" ELSE "data"
  /\ UNCHANGED <<open, owner, at, result, busy, input, overdue, alone, verdict, flashVars>>

(* Each chunk takes the lock for itself.                                   *)
WriteRaw ==
  /\ push = "data" /\ owner = {} /\ open
  /\ PutChunk /\ sent' = sent + 1
  /\ push' = IF sent' = Chunks THEN "line" ELSE "data"
  /\ UNCHANGED <<open, owner, at, result, busy, input, overdue, alone, verdict, flashVars>>

(* A write that raises may have left the chunk on the wire.                *)
WriteRawFails ==
  /\ push = "data" /\ owner = {} /\ (TimeoutsHappen \/ ~open)
  /\ push' = "idle" /\ Ended(FALSE)
  /\ (open /\ PutChunk) \/ UNCHANGED <<n, wire, kinds>>
  /\ UNCHANGED <<open, owner, at, result, busy, input, overdue, alone, sent, flashVars>>

(* read_line does not clear the buffer: the first line there is counts.    *)
WaitForLine ==
  /\ push = "line" /\ owner = {}
  /\ owner' = {Pusher} /\ at' = [at EXCEPT ![Pusher] = "reading"]
  /\ push' = "verify"
  /\ UNCHANGED <<open, n, result, wire, busy, input, overdue, alone, sent,
                 verdict, kinds, flashVars>>

\* Mutant: a line that is late is waited for again.
LineRead_Again ==
  /\ push = "verify" /\ Returned
  /\ LET ok == \E a \in result[Pusher] : a.ok
     IN Ended(ok) /\ push' = (IF ok THEN "reboot" ELSE "line")
  /\ UNCHANGED <<linkVars, sent, kinds, flashVars>>

LineRead ==
  /\ push = "verify" /\ Returned
  /\ LET ok == \E a \in result[Pusher] : a.ok
     IN Ended(ok) /\ push' = (IF ok THEN "reboot" ELSE "idle")
  /\ UNCHANGED <<linkVars, sent, kinds, flashVars>>

PingSent ==
  /\ push = "reboot" /\ Begin(Pusher)
  /\ kinds' = Append(kinds, "ping") /\ push' = "ping"
  /\ UNCHANGED <<sent, verdict, flashVars>>

(* No answer has the new version: the device still runs the old one.       *)
PingReturns ==
  /\ push = "ping" /\ Returned
  /\ push' = "idle" /\ Ended(FALSE)
  /\ UNCHANGED <<linkVars, sent, kinds, flashVars>>

PushGoesOn == FlashBegun \/ WriteRaw \/ WriteRawFails \/ WaitForLine \/ LineRead
              \/ PingSent \/ PingReturns

-----------------------------------------------------------------------------
(* serial_task                                                             *)

(* A line that begins with the rest of a chunk is an unknown command.      *)
TakesCommand ==
  /\ ~flashMode /\ wire # <<>> /\ ~IsChunk(Head(wire))
  /\ \E ok \in {~dirty, FALSE} :
       /\ DeviceTakes(ok)
       /\ flashMode' = (ok /\ KindOf(Head(wire)) = "flash")
       /\ IF flashMode' THEN received' = 0 /\ lost' = 0 ELSE UNCHANGED <<received, lost>>
  /\ dirty' = FALSE
  /\ UNCHANGED pcVars

(* A chunk that comes as text may hold an end of line or not.              *)
TakesGarbage ==
  /\ ~flashMode /\ busy = <<>> /\ wire # <<>> /\ IsChunk(Head(wire))
  /\ wire' = Tail(wire) /\ dirty' \in BOOLEAN
  /\ busy' \in {<<>>, <<[call |-> Head(wire), ok |-> FALSE]>>}
  /\ UNCHANGED <<open, owner, at, n, result, input, overdue, alone, pcVars,
                 flashMode, received, lost>>

CommandsIn(calls) == Cardinality({i \in DOMAIN calls : ~IsChunk(calls[i])})

\* Mutant: the end of the data is looked for only before the next data.
TakesData_Late ==
  /\ flashMode /\ busy = <<>> /\ wire # <<>>
  /\ \E k \in 1..Len(wire) :
       /\ wire' = SubSeq(wire, k + 1, Len(wire))
       /\ flashMode' = (received + k <= Total)
       /\ received' = received + k
       /\ lost' = lost + CommandsIn(SubSeq(wire, 1, k))
       /\ busy' \in {<<>>, <<Progress>>}
  /\ UNCHANGED <<open, owner, at, n, result, input, overdue, alone, pcVars, dirty>>

(* feed_data refuses a read that goes beyond the hash.  Complete data is   *)
(* finalized, without an answer as the hash is wrong.                      *)
TakesData ==
  /\ flashMode /\ busy = <<>> /\ wire # <<>>
  /\ \E k \in 1..Len(wire) :
       /\ wire' = SubSeq(wire, k + 1, Len(wire))
       /\ flashMode' = (received + k < Total)
       /\ IF received + k > Total
          THEN /\ busy' = <<[call |-> Head(wire), ok |-> FALSE]>>
               /\ UNCHANGED <<received, lost>>
          ELSE /\ busy' \in {<<>>, <<Progress>>}
               /\ received' = received + k
               /\ lost' = lost + CommandsIn(SubSeq(wire, 1, k))
  /\ UNCHANGED <<open, owner, at, n, result, input, overdue, alone, pcVars, dirty>>

(* The device is reset or unplugged, which ends flash mode.                *)
Reset ==
  /\ open
  /\ open' = FALSE /\ input' = <<>> /\ wire' = <<>> /\ busy' = <<>>
  /\ flashMode' = FALSE /\ received' = 0 /\ dirty' = FALSE /\ lost' = 0
  /\ UNCHANGED <<owner, at, n, result, overdue, alone, pcVars>>

SerialTask == TakesCommand \/ TakesGarbage \/ TakesData
              \/ (DeviceAnswers /\ UNCHANGED <<pcVars, flashVars>>)

-----------------------------------------------------------------------------
(* The other threads                                                       *)

(* The monitor opens the port again when nothing of the old one is left.   *)
Reopen ==
  /\ ~open /\ push = "idle" /\ \A t \in Clients : at[t] = "idle"
  /\ open' = TRUE
  /\ UNCHANGED <<owner, at, n, result, wire, busy, input, overdue, alone>>

Others == Clients \ {Pusher}

LinkActs ==
  /\ \/ Send(Pusher)
     \/ \E t \in Others : (n[t] < MaxCalls /\ Begin(t)) \/ Send(t)
     \/ Close \/ Reopen
  /\ UNCHANGED <<pcVars, flashVars>>

PushNext == (n[Pusher] = 0 /\ FlashBegin) \/ PushGoesOn \/ SerialTask \/ Reset
            \/ LinkActs

PushSpec == PushInit /\ [][PushNext]_pushVars

(* As in SerialLink: the threads run, nothing is assumed of the device.    *)
FairPushSpec ==
  PushSpec /\ WF_pushVars(PushGoesOn) /\ \A t \in Clients : WF_linkVars(Send(t))
-----------------------------------------------------------------------------
(* Properties                                                              *)

PushTypeOK ==
  /\ LinkTypeOK
  /\ push \in {"idle", "flash", "data", "line", "verify", "reboot", "ping"}
  /\ sent \in 0..Chunks /\ verdict \in {"none", "success", "failure"}
  /\ kinds \in Seq({"flash", "chunk", "ping"}) /\ Len(kinds) = n[Pusher]
  /\ {flashMode, dirty} \subseteq BOOLEAN
  /\ received \in 0..Total /\ lost \in Nat

(* Flash mode has no time limit and the hash never comes.  No more chunks  *)
(* are taken as data than the firmware has, so that data is never complete *)
(* without a hash's length of other threads' commands in it; once all      *)
(* chunks have been taken, no more commands than that are lost.            *)
DeafForAHash ==
  /\ received - lost <= Chunks
  /\ received - lost = Chunks => lost <= Hash /\ (flashMode => lost < Hash)

(* A push ends, whatever the device and the other threads do.              *)
PushEnds == push # "idle" ~> push = "idle"

=============================================================================
