-------------------------- MODULE SerialLink_proofs --------------------------
(* Proofs about SerialLink, for every set of clients.                      *)
EXTENDS SerialLink, SequenceTheorems, TLAPS

(* Every link variable has its type, whatever the clients do.              *)
LEMMA LinkTypeInit == LinkInit => LinkTypeOK
<1> SUFFICES ASSUME LinkInit PROVE LinkTypeOK
  OBVIOUS
<1>1. open \in BOOLEAN /\ overdue \in BOOLEAN
  BY DEF LinkInit
<1>2. /\ alone \in [Clients -> BOOLEAN] /\ owner \in SUBSET Clients
      /\ at \in [Clients -> Steps] /\ n \in [Clients -> Nat]
      /\ result \in [Clients -> SUBSET Answer]
      /\ wire \in Seq(Call) /\ busy \in Seq(Answer) /\ input \in Seq(Answer)
  BY DEF LinkInit, Steps
<1> QED  BY <1>1, <1>2 DEF LinkTypeOK

LEMMA LinkTypeStep ==
  ASSUME LinkTypeOK, [LinkStep]_linkVars
  PROVE  LinkTypeOK'
<1> USE DEF LinkTypeOK, Steps
<1>1. ASSUME NEW t \in Clients, Begin(t) PROVE LinkTypeOK'
  BY <1>1 DEF Begin
<1>2. ASSUME NEW t \in Clients, ClearInput(t) PROVE LinkTypeOK'
  BY <1>2 DEF ClearInput
<1>3. ASSUME NEW t \in Clients, Write(t) PROVE LinkTypeOK'
  <2>1. Current(t) \in Call  BY DEF Current, Call
  <2> QED  BY <1>3, <2>1 DEF Write
<1>4. ASSUME NEW t \in Clients, ReadLine(t) PROVE LinkTypeOK'
  <2>1. Head(input) \in Answer /\ Tail(input) \in Seq(Answer)
    BY <1>4 DEF ReadLine
  <2> QED  BY <1>4, <2>1 DEF ReadLine, Return
<1>5. ASSUME NEW t \in Clients, TimesOut(t) PROVE LinkTypeOK'
  BY <1>5 DEF TimesOut, Return, Current, Call
<1>6. ASSUME NEW t \in Clients, PortFails(t) PROVE LinkTypeOK'
  BY <1>6 DEF PortFails, Return
<1>7. ASSUME NEW ok \in BOOLEAN, DeviceTakes(ok) PROVE LinkTypeOK'
  <2>1. Head(wire) \in Call /\ Tail(wire) \in Seq(Call)
    BY <1>7 DEF DeviceTakes
  <2>2. [call |-> Head(wire), ok |-> ok] \in Answer  BY <2>1 DEF Answer
  <2> QED  BY <1>7, <2>1, <2>2 DEF DeviceTakes
<1>8. CASE DeviceAnswers
  BY <1>8 DEF DeviceAnswers
<1>9. CASE Close
  <2>1. open' \in BOOLEAN  BY <1>9 DEF Close
  <2>2. input' \in Seq(Answer)  BY <1>9, EmptySeq DEF Close
  <2> QED  BY <1>9, <2>1, <2>2 DEF Close
<1>10. CASE UNCHANGED linkVars
  BY <1>10 DEF linkVars
<1> QED
  BY <1>1, <1>2, <1>3, <1>4, <1>5, <1>6, <1>7, <1>8, <1>9, <1>10
  DEF LinkStep, Send, Device

(* The specification's steps are among them: MaxCalls only bounds them.    *)
LEMMA NextIsStep == [LinkNext]_linkVars => [LinkStep]_linkVars
  BY DEF LinkNext, LinkStep

(* Every variable of the link has its type, for every set of clients.      *)
THEOREM TypeCorrect == LinkSpec => []LinkTypeOK
<1>1. LinkTypeOK /\ [LinkNext]_linkVars => LinkTypeOK'
  BY LinkTypeStep, NextIsStep
<1> QED  BY <1>1, LinkTypeInit, PTL DEF LinkSpec

-----------------------------------------------------------------------------
(* At most one client is past the taking of the lock, and it is the owner. *)

InCall(t) == at[t] \in {"writing", "reading"}

OneCaller == \A t \in Clients : InCall(t) <=> owner = {t}

LEMMA OneCallerStep ==
  ASSUME LinkTypeOK, OneCaller, [LinkStep]_linkVars
  PROVE  OneCaller'
<1> USE DEF LinkTypeOK, Steps, OneCaller, InCall
<1>1. ASSUME NEW t \in Clients, Begin(t) PROVE OneCaller'
  BY <1>1 DEF Begin
<1>2. ASSUME NEW t \in Clients, ClearInput(t) PROVE OneCaller'
  BY <1>2 DEF ClearInput
<1>3. ASSUME NEW t \in Clients, Write(t) PROVE OneCaller'
  BY <1>3 DEF Write
<1>4. ASSUME NEW t \in Clients, NEW answer, Return(t, answer),
             InCall(t) \/ owner = {}
      PROVE OneCaller'
  BY <1>4 DEF Return
<1>5. ASSUME NEW t \in Clients, ReadLine(t) \/ TimesOut(t) \/ PortFails(t)
      PROVE OneCaller'
  BY <1>4, <1>5 DEF ReadLine, TimesOut, PortFails
<1>6. ASSUME UNCHANGED <<owner, at>> PROVE OneCaller'
  BY <1>6
<1> QED
  BY <1>1, <1>2, <1>3, <1>5, <1>6
  DEF LinkStep, Send, Device, DeviceTakes, DeviceAnswers, Close, linkVars

-----------------------------------------------------------------------------
(* What is under way between the clients and the device: nothing, or one   *)
(* call and nothing else.                                                  *)

Quiet == wire = <<>> /\ busy = <<>> /\ input = <<>>

Pending(call) ==
  \/ wire = <<call>> /\ busy = <<>> /\ input = <<>>
  \/ wire = <<>> /\ (\E ok \in BOOLEAN : busy = <<[call |-> call, ok |-> ok]>>)
     /\ input = <<>>
  \/ wire = <<>> /\ busy = <<>>
     /\ \E ok \in BOOLEAN : input = <<[call |-> call, ok |-> ok]>>

(* The device moves the one call on; closing the port may lose it.         *)
LEMMA DeviceKeepsPending ==
  ASSUME NEW call, Pending(call), Device
  PROVE  IF open THEN Pending(call)' ELSE Pending(call)' \/ Quiet'
<1>1. ASSUME NEW ok \in BOOLEAN, DeviceTakes(ok) PROVE Pending(call)'
  <2>1. wire = <<call>> /\ input = <<>>
    BY <1>1 DEF DeviceTakes, Pending
  <2>2. wire' = <<>> /\ busy' = <<[call |-> call, ok |-> ok]>> /\ input' = <<>>
    BY <1>1, <2>1 DEF DeviceTakes
  <2> QED  BY <2>2 DEF Pending
<1>2. CASE DeviceAnswers
  <2>1. PICK ok \in BOOLEAN : busy = <<[call |-> call, ok |-> ok]>>
    BY <1>2 DEF DeviceAnswers, Pending
  <2>2. wire = <<>> /\ input = <<>>
    BY <1>2, <2>1 DEF DeviceAnswers, Pending
  <2>3. input \o busy = <<[call |-> call, ok |-> ok]>>
    BY <2>1, <2>2
  <2>4. CASE open
    <3>1. wire' = <<>> /\ busy' = <<>> /\ input' = <<[call |-> call, ok |-> ok]>>
      BY <1>2, <2>2, <2>3, <2>4 DEF DeviceAnswers
    <3> QED  BY <3>1, <2>4 DEF Pending
  <2>5. CASE ~open
    <3>1. wire' = <<>> /\ busy' = <<>> /\ input' = <<>>
      BY <1>2, <2>2, <2>5 DEF DeviceAnswers
    <3> QED  BY <3>1, <2>5 DEF Quiet
  <2> QED  BY <2>4, <2>5
<1> QED  BY <1>1, <1>2 DEF Device

LEMMA DeviceKeepsQuiet ==
  ASSUME Quiet  PROVE ~Device
  BY DEF Quiet, Device, DeviceTakes, DeviceAnswers

(* Writing to a link that is quiet makes the call pending; reading the     *)
(* answer to a pending call makes it quiet again.                          *)
LEMMA WritePends ==
  ASSUME NEW t \in Clients, Quiet, Write(t)
  PROVE  Pending(Current(t))'
<1>1. wire' = <<Current(t)>> /\ busy' = <<>> /\ input' = <<>>
  BY DEF Quiet, Write
<1>2. Current(t)' = Current(t)
  BY DEF Write, Current
<1> QED  BY <1>1, <1>2 DEF Pending

LEMMA ReadQuiets ==
  ASSUME NEW call, Pending(call), input # <<>>
  PROVE  Head(input).call = call /\ Tail(input) = <<>> /\ wire = <<>> /\ busy = <<>>
<1>1. /\ wire = <<>> /\ busy = <<>>
      /\ \E ok \in BOOLEAN : input = <<[call |-> call, ok |-> ok]>>
  BY DEF Pending
<1>2. PICK ok \in BOOLEAN : input = <<[call |-> call, ok |-> ok]>>
  BY <1>1
<1>3. Head(input) = [call |-> call, ok |-> ok] /\ Tail(input) = <<>>
  BY <1>2
<1> QED  BY <1>1, <1>3

-----------------------------------------------------------------------------
(* The answer a call returns is its own ...                                *)

Own(t) == \A answer \in result[t] : answer.call = Current(t)

(* ... as long as nothing is overdue: only what is read is under way.      *)
InStep ==
  ~overdue =>
    /\ \A t \in Clients : Own(t)
    /\ open => /\ (\A t \in Clients : at[t] # "reading") => Quiet
               /\ \A t \in Clients : at[t] = "reading" => Pending(Current(t))

LEMMA InStepStep ==
  ASSUME LinkTypeOK, OneCaller, InStep, [LinkStep]_linkVars
  PROVE  InStep'
<1> USE DEF LinkTypeOK, Steps, OneCaller, InCall, InStep
<1> SUFFICES ASSUME ~overdue' PROVE
      /\ \A t \in Clients : Own(t)'
      /\ open' => /\ (\A t \in Clients : at'[t] # "reading") => Quiet'
                  /\ \A t \in Clients : at'[t] = "reading" => Pending(Current(t))'
  OBVIOUS
<1>1. ASSUME NEW u \in Clients, Begin(u) PROVE InStep'
  BY <1>1 DEF Begin, Own, Quiet, Pending, Current
<1>2. ASSUME NEW u \in Clients, ClearInput(u) PROVE InStep'
  BY <1>2 DEF ClearInput, Own, Quiet, Pending, Current
<1>3. ASSUME NEW u \in Clients, Write(u) PROVE InStep'
  <2>1. Quiet /\ ~overdue /\ open
    BY <1>3 DEF Write
  <2>2. Pending(Current(u))'
    BY <1>3, <2>1, WritePends
  <2>3. \A t \in Clients : at'[t] = "reading" <=> t = u
    BY <1>3 DEF Write
  <2>4. \A t \in Clients : Own(t)'
    BY <1>3, <2>1 DEF Write, Own, Current
  <2> QED  BY <2>2, <2>3, <2>4
<1>4. ASSUME NEW u \in Clients, ReadLine(u) PROVE InStep'
  <2>1. ~overdue /\ open /\ Pending(Current(u)) /\ input # <<>>
    BY <1>4 DEF ReadLine
  <2>2. Head(input).call = Current(u) /\ Tail(input) = <<>> /\ wire = <<>> /\ busy = <<>>
    BY <2>1, ReadQuiets
  <2>3. Quiet'
    BY <1>4, <2>2 DEF ReadLine, Return, Quiet
  <2>4. \A t \in Clients : at'[t] # "reading"
    BY <1>4 DEF ReadLine, Return
  <2>5. \A t \in Clients : Own(t)'
    BY <1>4, <2>1, <2>2 DEF ReadLine, Return, Own, Current
  <2> QED  BY <2>3, <2>4, <2>5
<1>5. ASSUME NEW u \in Clients, TimesOut(u) PROVE InStep'
  BY <1>5 DEF TimesOut
<1>6. ASSUME NEW u \in Clients, PortFails(u) PROVE InStep'
  BY <1>6 DEF PortFails, Return, Own, Current
<1>7. CASE Device
  <2>1. UNCHANGED <<open, owner, at, n, result, overdue>>
    BY <1>7 DEF Device, DeviceTakes, DeviceAnswers
  <2>2. \A t \in Clients : Own(t)' /\ Current(t)' = Current(t)
    BY <2>1 DEF Own, Current
  <2>3. CASE open
    <3>1. ~Quiet
      BY <1>7, DeviceKeepsQuiet
    <3>2. \A t \in Clients : at[t] = "reading" => Pending(Current(t))'
      BY <1>7, <2>1, <2>2, <2>3, DeviceKeepsPending
    <3> QED  BY <2>1, <2>2, <2>3, <3>1, <3>2
  <2>4. CASE ~open
    BY <2>1, <2>2, <2>4
  <2> QED  BY <2>3, <2>4
<1>8. CASE Close
  BY <1>8 DEF Close, Own, Current
<1>9. CASE UNCHANGED linkVars
  BY <1>9 DEF linkVars, Own, Current, Quiet, Pending
<1> QED
  BY <1>1, <1>2, <1>3, <1>4, <1>5, <1>6, <1>7, <1>8, <1>9 DEF LinkStep, Send

(* As long as no call has been given up, what a call returns is its own    *)
(* answer (_lock).                                                         *)
THEOREM LockKeepsAnswersApart == LinkSpec => []OwnUntilOverdue
<1>1. LinkInit => OneCaller /\ InStep
  BY DEF LinkInit, OneCaller, InCall, InStep, Own, Quiet
<1>2. /\ LinkTypeOK /\ OneCaller /\ InStep /\ [LinkNext]_linkVars
      => OneCaller' /\ InStep'
  BY NextIsStep, OneCallerStep, InStepStep
<1>3. InStep => OwnUntilOverdue
  BY DEF InStep, Own, OwnUntilOverdue
<1> QED  BY <1>1, <1>2, <1>3, TypeCorrect, PTL DEF LinkSpec

-----------------------------------------------------------------------------
(* A call that was alone when it cleared the buffer: nothing but its own   *)
(* command and answer is under way until it returns.                       *)

Unanswered == \A t \in Clients : at[t] # "idle" => result[t] = {}

StaysAlone ==
  \A t \in Clients : alone[t] =>
    /\ Own(t)
    /\ at[t] = "writing" => Quiet
    /\ at[t] = "reading" => Quiet \/ Pending(Current(t))

LEMMA UnansweredStep ==
  ASSUME LinkTypeOK, Unanswered, [LinkStep]_linkVars
  PROVE  Unanswered'
  BY DEF LinkTypeOK, Unanswered, LinkStep, Send, Begin, ClearInput, Write, ReadLine,
         TimesOut, PortFails, Return, Device, DeviceTakes, DeviceAnswers, Close,
         linkVars

LEMMA StaysAloneStep ==
  ASSUME LinkTypeOK, OneCaller, Unanswered, StaysAlone, [LinkStep]_linkVars
  PROVE  StaysAlone'
<1> USE DEF LinkTypeOK, Steps, OneCaller, InCall, StaysAlone
<1>1. ASSUME NEW u \in Clients, Begin(u) PROVE StaysAlone'
  BY <1>1 DEF Begin, Own, Quiet, Pending, Current
<1>2. ASSUME NEW u \in Clients, ClearInput(u) PROVE StaysAlone'
  <2>1. \A t \in Clients : at'[t] # "reading" /\ (at'[t] = "writing" => t = u)
    BY <1>2 DEF ClearInput
  <2>2. alone'[u] => Quiet'
    BY <1>2 DEF ClearInput, Quiet
  <2>3. Own(u)'
    BY <1>2 DEF ClearInput, Unanswered, Own
  <2>4. \A t \in Clients \ {u} : alone'[t] => Own(t)'
    BY <1>2 DEF ClearInput, Own, Current
  <2> QED  BY <2>1, <2>2, <2>3, <2>4
<1>3. ASSUME NEW u \in Clients, Write(u) PROVE StaysAlone'
  <2>1. \A t \in Clients : at'[t] # "writing" /\ (at'[t] = "reading" => t = u)
    BY <1>3 DEF Write
  <2>2. alone[u] => Pending(Current(u))'
    BY <1>3, WritePends DEF Write
  <2>3. \A t \in Clients : alone'[t] => alone[t] /\ Own(t)'
    BY <1>3 DEF Write, Own, Current
  <2> QED  BY <2>1, <2>2, <2>3
<1>4. ASSUME NEW u \in Clients, ReadLine(u) PROVE StaysAlone'
  <2>1. \A t \in Clients : at'[t] \notin {"writing", "reading"}
    BY <1>4 DEF ReadLine, Return
  <2>2. alone[u] => Own(u)'
    <3> SUFFICES ASSUME alone[u] PROVE Own(u)'
      OBVIOUS
    <3>1. Pending(Current(u)) /\ input # <<>>
      BY <1>4 DEF ReadLine, Quiet
    <3>2. Head(input).call = Current(u)
      BY <3>1, ReadQuiets
    <3> QED  BY <1>4, <3>2 DEF ReadLine, Return, Own, Current
  <2>3. \A t \in Clients \ {u} : alone[t] => Own(t)'
    BY <1>4 DEF ReadLine, Return, Own, Current
  <2>4. alone' = alone
    BY <1>4 DEF ReadLine, Return
  <2> QED  BY <2>1, <2>2, <2>3, <2>4
<1>5. ASSUME NEW u \in Clients, TimesOut(u) \/ PortFails(u) PROVE StaysAlone'
  <2>1. \A t \in Clients : at'[t] \notin {"writing", "reading"}
    BY <1>5 DEF TimesOut, PortFails, Return
  <2>2. \A t \in Clients : alone'[t] => Own(t)'
    BY <1>5 DEF TimesOut, PortFails, Return, Own, Current
  <2> QED  BY <2>1, <2>2
<1>6. CASE Device
  <2>1. UNCHANGED <<at, n, result, alone>> /\ ~Quiet
    BY <1>6, DeviceKeepsQuiet DEF Device, DeviceTakes, DeviceAnswers
  <2>2. \A t \in Clients : (Own(t) => Own(t)') /\ Current(t)' = Current(t)
    BY <2>1 DEF Own, Current
  <2>3. \A t \in Clients : alone[t] /\ at[t] = "reading" =>
          Quiet' \/ Pending(Current(t))'
    BY <1>6, <2>1, <2>2, DeviceKeepsPending
  <2> QED  BY <2>1, <2>2, <2>3
<1>7. CASE Close
  <2>1. UNCHANGED <<at, n, result, alone, wire, busy>> /\ input' = <<>>
    BY <1>7 DEF Close
  <2>2. \A t \in Clients : (Own(t) => Own(t)') /\ Current(t)' = Current(t)
    BY <2>1 DEF Own, Current
  <2>3. Quiet => Quiet'
    BY <2>1 DEF Quiet
  <2>4. ASSUME NEW call, Pending(call) PROVE Quiet' \/ Pending(call)'
    BY <2>1, <2>4 DEF Quiet, Pending
  <2>5. \A t \in Clients : Pending(Current(t)) => Quiet' \/ Pending(Current(t))'
    BY <2>2, <2>4
  <2> QED  BY <2>1, <2>2, <2>3, <2>5
<1>8. CASE UNCHANGED linkVars
  BY <1>8 DEF linkVars, Own, Current, Quiet, Pending
<1> QED
  BY <1>1, <1>2, <1>3, <1>4, <1>5, <1>6, <1>7, <1>8 DEF LinkStep, Send

(* A call that begins when the device has nothing left to do returns its   *)
(* own answer (reset_input_buffer), whatever has been given up before.     *)
THEOREM ClearingResynchronises == LinkSpec => []OwnWhenAlone
<1>1. LinkInit => OneCaller /\ Unanswered /\ StaysAlone
  BY DEF LinkInit, OneCaller, InCall, Unanswered, StaysAlone
<1>2. /\ LinkTypeOK /\ OneCaller /\ Unanswered /\ StaysAlone
      /\ [LinkNext]_linkVars
      => OneCaller' /\ Unanswered' /\ StaysAlone'
  BY NextIsStep, OneCallerStep, UnansweredStep, StaysAloneStep
<1>3. StaysAlone => OwnWhenAlone
  BY DEF StaysAlone, Own, OwnWhenAlone
<1> QED  BY <1>1, <1>2, <1>3, TypeCorrect, PTL DEF LinkSpec
=============================================================================
