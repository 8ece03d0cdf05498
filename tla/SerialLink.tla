----------------------------- MODULE SerialLink -----------------------------
(***************************************************************************)
(* The monitor's end of the serial port, SerialProtocol.send of            *)
(* serial/protocol.py, with the device that answers one command after the  *)
(* other (serial_task of serial_proto.c).                                  *)
(*                                                                         *)
(* The clients are the monitor's threads.  An answer does not name its     *)
(* command, so a client takes the first line that comes after it has       *)
(* cleared the input buffer.  Here commands and answers carry the call     *)
(* they belong to, which no step of a client looks at.                     *)
(***************************************************************************)
EXTENDS Naturals, Sequences

CONSTANTS
  Clients,        \* the threads that share the port
  MaxCalls,       \* bound: calls by each of them
  TimeoutsHappen  \* whether the device may take longer than a time limit

ASSUME ClientAssumption  == Clients # {}
ASSUME TimeoutAssumption == TimeoutsHappen \in BOOLEAN

VARIABLES
  open,      \* the port is open, and the device behind it is there
  owner,     \* who holds _lock: {} or {client}
  at,        \* where each client is in send
  n,         \* calls each client has made
  result,    \* what its last call gave: {answer}, or {} if it raised
  wire,      \* commands the device has not read yet
  busy,      \* the answer to the command that the device executes: <<>> or 1
  input,     \* answers in the input buffer of the PC
  overdue,   \* history: a call was given up
  alone      \* history: nothing was under way when the call cleared the buffer

linkVars == <<open, owner, at, n, result, wire, busy, input, overdue, alone>>

Call   == Clients \X Nat
Answer == [call : Call, ok : BOOLEAN]
Steps  == {"idle", "locking", "writing", "reading"}

Current(t) == <<t, n[t]>>

LinkInit ==
  /\ open = TRUE /\ owner = {} /\ at = [t \in Clients |-> "idle"]
  /\ n = [t \in Clients |-> 0] /\ result = [t \in Clients |-> {}]
  /\ wire = <<>> /\ busy = <<>> /\ input = <<>>
  /\ overdue = FALSE /\ alone = [t \in Clients |-> FALSE]

-----------------------------------------------------------------------------
(* send                                                                    *)

\* Mutant: a call on a closed port does not come back to its caller.
Begin_Lost(t) ==
  /\ at[t] = "idle"
  /\ n' = [n EXCEPT ![t] = @ + 1]
  /\ result' = [result EXCEPT ![t] = {}]
  /\ at' = [at EXCEPT ![t] = IF open THEN "locking" ELSE "closed"]
  /\ alone' = [alone EXCEPT ![t] = FALSE]
  /\ UNCHANGED <<open, owner, wire, busy, input, overdue>>

(* The port is tested before the lock is taken.                            *)
Begin(t) ==
  /\ at[t] = "idle"
  /\ n' = [n EXCEPT ![t] = @ + 1]
  /\ result' = [result EXCEPT ![t] = {}]
  /\ at' = [at EXCEPT ![t] = IF open THEN "locking" ELSE "idle"]
  /\ alone' = [alone EXCEPT ![t] = FALSE]
  /\ UNCHANGED <<open, owner, wire, busy, input, overdue>>

\* Mutant: what is in the input buffer stays there.
ClearInput_Kept(t) ==
  /\ at[t] = "locking" /\ owner = {} /\ open
  /\ owner' = {t}
  /\ at' = [at EXCEPT ![t] = "writing"]
  /\ alone' = [alone EXCEPT ![t] = wire = <<>> /\ busy = <<>>]
  /\ UNCHANGED <<open, n, result, wire, busy, input, overdue>>

ClearInput(t) ==
  /\ at[t] = "locking" /\ owner = {} /\ open
  /\ owner' = {t}
  /\ input' = <<>>
  /\ at' = [at EXCEPT ![t] = "writing"]
  /\ alone' = [alone EXCEPT ![t] = wire = <<>> /\ busy = <<>>]
  /\ UNCHANGED <<open, n, result, wire, busy, overdue>>

\* Mutant: the lock is held for the writing only.
Write_Unlocks(t) ==
  /\ at[t] = "writing" /\ open
  /\ wire' = Append(wire, Current(t))
  /\ owner' = {}
  /\ at' = [at EXCEPT ![t] = "reading"]
  /\ UNCHANGED <<open, n, result, busy, input, overdue, alone>>

Write(t) ==
  /\ at[t] = "writing" /\ open
  /\ wire' = Append(wire, Current(t))
  /\ at' = [at EXCEPT ![t] = "reading"]
  /\ UNCHANGED <<open, owner, n, result, busy, input, overdue, alone>>

(* The call ends, with an answer or an exception, and the lock is freed.   *)
Return(t, answer) ==
  /\ result' = [result EXCEPT ![t] = answer]
  /\ at' = [at EXCEPT ![t] = "idle"]
  /\ owner' = {}
  /\ UNCHANGED <<open, n, wire, busy, alone>>

ReadLine(t) ==
  /\ at[t] = "reading" /\ open /\ input # <<>>
  /\ Return(t, {Head(input)})
  /\ input' = Tail(input)
  /\ UNCHANGED overdue

\* Mutant: a write may time out, a read waits for as long as it takes.
TimesOut_WriteOnly(t) ==
  /\ TimeoutsHappen /\ open
  /\ at[t] = "writing"
  /\ Return(t, {})
  /\ overdue' = TRUE
  /\ UNCHANGED input

(* write_timeout, or the time limit of the command.                        *)
TimesOut(t) ==
  /\ TimeoutsHappen /\ open
  /\ at[t] = "writing" \/ (at[t] = "reading" /\ input = <<>>)
  /\ Return(t, {})
  /\ overdue' = TRUE
  /\ UNCHANGED input

(* An access to a port that is closed, or whose device has gone, raises.   *)
PortFails(t) ==
  /\ ~open
  /\ at[t] \in {"writing", "reading"} \/ (at[t] = "locking" /\ owner = {})
  /\ Return(t, {})
  /\ UNCHANGED <<input, overdue>>

Send(t) == ClearInput(t) \/ Write(t) \/ ReadLine(t) \/ TimesOut(t) \/ PortFails(t)

(* close() takes no lock: it may come in the middle of a call.             *)
Close ==
  /\ open
  /\ open' = FALSE /\ input' = <<>>
  /\ UNCHANGED <<owner, at, n, result, wire, busy, overdue, alone>>

-----------------------------------------------------------------------------
(* The device reads a command when it is done with the one before, and     *)
(* answers it if the port is still open.                                   *)

DeviceTakes(ok) ==
  /\ busy = <<>> /\ wire # <<>>
  /\ busy' = <<[call |-> Head(wire), ok |-> ok]>>
  /\ wire' = Tail(wire)
  /\ UNCHANGED <<open, owner, at, n, result, input, overdue, alone>>

DeviceAnswers ==
  /\ busy # <<>>
  /\ input' = IF open THEN input \o busy ELSE input
  /\ busy' = <<>>
  /\ UNCHANGED <<open, owner, at, n, result, wire, overdue, alone>>

Device == (\E ok \in BOOLEAN : DeviceTakes(ok)) \/ DeviceAnswers

-----------------------------------------------------------------------------
LinkStep ==
  \/ \E t \in Clients : Begin(t) \/ Send(t)
  \/ Device \/ Close

LinkNext ==
  \/ \E t \in Clients : (n[t] < MaxCalls /\ Begin(t)) \/ Send(t)
  \/ Device \/ Close

LinkSpec == LinkInit /\ [][LinkNext]_linkVars

(* A client's thread runs; nothing is assumed of the device.  The calls    *)
(* are finite in number, so no client waits for the lock for ever.         *)
FairLinkSpec == LinkSpec /\ \A t \in Clients : WF_linkVars(Send(t))
-----------------------------------------------------------------------------
(* Properties                                                              *)

LinkTypeOK ==
  /\ open \in BOOLEAN /\ alone \in [Clients -> BOOLEAN]
  /\ owner \in SUBSET Clients
  /\ at \in [Clients -> Steps] /\ n \in [Clients -> Nat]
  /\ result \in [Clients -> SUBSET Answer]
  /\ wire \in Seq(Call) /\ busy \in Seq(Answer) /\ input \in Seq(Answer)
  /\ overdue \in BOOLEAN

(* As long as no call has been given up, what a call returns is its own    *)
(* answer, whichever threads call at the same time (_lock).                *)
OwnUntilOverdue ==
  ~overdue =>
    \A t \in Clients : \A answer \in result[t] : answer.call = Current(t)

(* A call that begins when the device has nothing left to do returns its   *)
(* own answer, whatever time limits have passed before: clearing the       *)
(* buffer brings the two back into step (reset_input_buffer).              *)
OwnWhenAlone ==
  \A t \in Clients : alone[t] =>
    \A answer \in result[t] : answer.call = Current(t)

(* Every call returns, whatever the device does.                           *)
CallsReturn == \A t \in Clients : at[t] # "idle" ~> at[t] = "idle"
=============================================================================
