--------------------------- MODULE Storage_proofs ---------------------------
(***************************************************************************)
(* Proofs about EventLog for every set of events and every capacity, its   *)
(* invariants and that the ring buffer with its file implements            *)
(* EventHistory; and about Storage, which implements EventLog and keeps    *)
(* memory and flash together.                                              *)
(***************************************************************************)
EXTENDS Storage, SequenceTheorems, TLAPS

(* A buffer of n entries whose next slot is w.                             *)
IsLog(es, n, w) ==
  /\ es \in [Slots -> Event \cup {Blank}]
  /\ n \in 0..Capacity /\ w \in Slots
  /\ n < Capacity => w = n
  /\ \A i \in Slots : i < n => es[i] \in Event

IsFile(f) == f \in FileType /\ (f.count < Capacity => f.writeIdx = f.count)

(* While the buffer is not full its index is its count: without this the   *)
(* read-out of a buffer that fills up could not be in order.  A clean      *)
(* buffer is the one in the file, slot by slot, if files close as asked.   *)
IInv ==
  /\ {dirty, mounted, clearing} \subseteq BOOLEAN
  /\ IsLog(entries, count, writeIdx)
  /\ IsFile(file)
  /\ ~CloseMayFail /\ ~dirty /\ ~clearing => file = FileImage(entries, count, writeIdx)

-----------------------------------------------------------------------------
(* The ring buffer                                                         *)

LEMMA ModOnce ==
  ASSUME NEW x \in Nat, x < 2 * Capacity
  PROVE  x % Capacity = IF x < Capacity THEN x ELSE x - Capacity
BY CapacityAssumption

LEMMA LogOnIsLog ==
  ASSUME NEW es, NEW n, NEW w, NEW e \in Event,
         IsLog(es, n, w), LogOn(es, n, w, e)
  PROVE  IsLog(entries', count', writeIdx')
<1>1. n \in Nat /\ w \in Nat /\ w < Capacity /\ n <= Capacity /\ Capacity \in Nat \ {0}
  BY CapacityAssumption DEF IsLog, Slots
<1>2. writeIdx' = IF w + 1 < Capacity THEN w + 1 ELSE w + 1 - Capacity
  BY <1>1, ModOnce DEF LogOn
<1>3. writeIdx' \in Slots /\ count' \in 0..Capacity
  BY <1>1, <1>2 DEF LogOn, Slots
<1>4. count' < Capacity => writeIdx' = count'
  BY <1>1, <1>2 DEF LogOn, IsLog
<1>5. entries' = [es EXCEPT ![w] = e] /\ w \in Slots
  BY DEF LogOn, IsLog
<1>6. entries' \in [Slots -> Event \cup {Blank}]
  BY <1>5 DEF IsLog
<1>7. ASSUME NEW i \in Slots, i < count'
      PROVE  entries'[i] \in Event
  <2>1. i = w \/ i < n
    BY <1>1, <1>7 DEF LogOn, IsLog, Slots
  <2> QED BY <1>5, <2>1 DEF IsLog
<1> QED BY <1>3, <1>4, <1>6, <1>7 DEF IsLog

LEMMA ReadAllSeq ==
  ASSUME NEW es, NEW n, NEW w, IsLog(es, n, w)
  PROVE  /\ ReadAll(es, n, w) \in Seq(Event)
         /\ Len(ReadAll(es, n, w)) = n
         /\ \A i \in 1..n : ReadAll(es, n, w)[i] =
              IF n < Capacity THEN es[i - 1] ELSE es[(w + (i - 1)) % Capacity]
<1>1. n \in Nat /\ w \in Nat /\ w < Capacity /\ n <= Capacity /\ Capacity \in Nat \ {0}
  BY CapacityAssumption DEF IsLog, Slots
<1>2. ASSUME NEW i \in 1..n
      PROVE  (IF n < Capacity THEN es[i - 1] ELSE es[(w + (i - 1)) % Capacity]) \in Event
  <2>1. CASE n < Capacity
    <3>1. i - 1 \in Slots /\ i - 1 < n
      BY <1>1 DEF Slots
    <3> QED BY <2>1, <3>1 DEF IsLog
  <2>2. CASE n = Capacity
    <3>1. (w + (i - 1)) % Capacity \in Slots /\ (w + (i - 1)) % Capacity < n
      BY <1>1, <2>2 DEF Slots
    <3> QED BY <2>2, <3>1 DEF IsLog
  <2> QED BY <1>1, <2>1, <2>2
<1>3. ReadAll(es, n, w) \in [1..n -> Event]
  BY <1>2 DEF ReadAll
<1> QED BY <1>1, <1>3 DEF ReadAll

(* log_event adds its entry at the end of what log_read_all reports.       *)
LEMMA LogOnReads ==
  ASSUME NEW es, NEW n, NEW w, NEW e \in Event,
         IsLog(es, n, w), LogOn(es, n, w, e)
  PROVE  ReadAll(entries', count', writeIdx') = H!Remember(ReadAll(es, n, w), e)
<1> DEFINE old == ReadAll(es, n, w)
           new == ReadAll(entries', count', writeIdx')
<1>1. /\ n \in Nat /\ w \in Nat /\ w < Capacity /\ n <= Capacity
      /\ Capacity \in Nat \ {0} /\ (n < Capacity => w = n)
  BY CapacityAssumption DEF IsLog, Slots
<1>2. old \in Seq(Event) /\ Len(old) = n
  BY ReadAllSeq
<1>3. new \in Seq(Event) /\ Len(new) = count'
  BY LogOnIsLog, ReadAllSeq
<1>4. \A i \in 1..n : old[i] =
        IF n < Capacity THEN es[i - 1] ELSE es[(w + (i - 1)) % Capacity]
  BY ReadAllSeq
<1>5. \A i \in 1..count' : new[i] =
        IF count' < Capacity THEN entries'[i - 1]
                             ELSE entries'[(writeIdx' + (i - 1)) % Capacity]
  BY LogOnIsLog, ReadAllSeq
<1>6. /\ count' = IF n < Capacity THEN n + 1 ELSE n
      /\ writeIdx' = IF w + 1 < Capacity THEN w + 1 ELSE 0
      /\ entries'[w] = e
      /\ \A j \in Slots : j # w => entries'[j] = es[j]
  <2>1. writeIdx' = IF w + 1 < Capacity THEN w + 1 ELSE w + 1 - Capacity
    BY <1>1, ModOnce DEF LogOn
  <2> QED BY <1>1, <2>1 DEF LogOn, IsLog, Slots
<1> HIDE DEF old, new
<1>7. CASE n < Capacity
  <2>1. Append(old, e) \in Seq(Event) /\ Len(Append(old, e)) = n + 1
    BY <1>2, AppendProperties
  <2>2. ASSUME NEW i \in 1..(n + 1)
        PROVE  new[i] = Append(old, e)[i]
    <3>1. new[i] = entries'[i - 1]
      <4>1. CASE n + 1 < Capacity
        BY <1>1, <1>5, <1>6, <1>7, <4>1
      <4>2. CASE n + 1 = Capacity
        <5>1. writeIdx' = 0 /\ count' = Capacity /\ i - 1 \in Nat /\ i - 1 < Capacity
          BY <1>1, <1>6, <1>7, <4>2
        <5>2. (i - 1) % Capacity = i - 1
          BY <1>1, <5>1, ModOnce
        <5> QED BY <1>1, <1>5, <1>6, <1>7, <4>2, <5>1, <5>2
      <4> QED BY <1>1, <1>7, <4>1, <4>2
    <3>2. CASE i = n + 1
      BY <1>1, <1>2, <1>6, <1>7, <3>1, <3>2, AppendProperties
    <3>3. CASE i \in 1..n
      <4>1. i - 1 \in Slots /\ i - 1 # w
        BY <1>1, <1>7, <3>3 DEF Slots
      <4>2. Append(old, e)[i] = old[i]
        BY <1>2, <3>3, AppendProperties
      <4> QED BY <1>4, <1>6, <1>7, <3>1, <3>3, <4>1, <4>2
    <3>4. i = n + 1 \/ i \in 1..n
      BY <1>1
    <3> QED BY <3>2, <3>3, <3>4
  <2>3. new = Append(old, e)
    BY <1>3, <1>6, <1>7, <2>1, <2>2, SeqEqual
  <2> QED BY <1>2, <1>7, <2>3 DEF H!Remember, old, new
<1>8. CASE n = Capacity
  <2>1. Tail(old) \in Seq(Event) /\ Len(Tail(old)) = n - 1
        /\ \A i \in 1..(n - 1) : Tail(old)[i] = old[i + 1]
    BY <1>1, <1>2, <1>8, HeadTailProperties, EmptySeq
  <2>2. Append(Tail(old), e) \in Seq(Event) /\ Len(Append(Tail(old), e)) = n
    BY <1>1, <2>1, AppendProperties
  <2>3. ASSUME NEW i \in 1..n
        PROVE  new[i] = Append(Tail(old), e)[i]
    <3> DEFINE at == (writeIdx' + (i - 1)) % Capacity
    <3>1. new[i] = entries'[at]
      BY <1>1, <1>5, <1>6, <1>8
    <3>2. CASE i = n
      <4>1. at = w
        <5>1. CASE w + 1 < Capacity
          <6>1. writeIdx' + (i - 1) = w + Capacity
            BY <1>1, <1>6, <1>8, <3>2, <5>1
          <6> QED BY <1>1, <6>1, ModOnce
        <5>2. CASE w + 1 = Capacity
          <6>1. writeIdx' + (i - 1) = w
            BY <1>1, <1>6, <1>8, <3>2, <5>2
          <6> QED BY <1>1, <6>1, ModOnce
        <5> QED BY <1>1, <5>1, <5>2
      <4>2. Append(Tail(old), e)[i] = e
        BY <1>1, <2>1, <3>2, AppendProperties
      <4> QED BY <1>6, <3>1, <4>1, <4>2
    <3>3. CASE i \in 1..(n - 1)
      <4>1. Append(Tail(old), e)[i] = old[i + 1] /\ i + 1 \in 1..n
        BY <1>1, <2>1, <3>3, AppendProperties
      <4>2. old[i + 1] = es[(w + i) % Capacity]
        BY <1>1, <1>4, <1>8, <4>1
      <4>3. (w + i) % Capacity = IF w + i < Capacity THEN w + i ELSE w + i - Capacity
        BY <1>1, <1>8, <3>3, ModOnce
      <4>4. at = (w + i) % Capacity
        <5>1. CASE w + 1 < Capacity
          <6>1. writeIdx' + (i - 1) = w + i
            BY <1>1, <1>6, <3>3, <5>1
          <6> QED BY <6>1
        <5>2. CASE w + 1 = Capacity
          <6>1. writeIdx' + (i - 1) = i - 1 /\ i - 1 \in Nat /\ i - 1 < Capacity
            BY <1>1, <1>6, <1>8, <3>3, <5>2
          <6>2. at = i - 1
            BY <1>1, <6>1, ModOnce
          <6> QED BY <1>1, <3>3, <4>3, <5>2, <6>2
        <5> QED BY <1>1, <5>1, <5>2
      <4>5. at \in Slots /\ at # w
        BY <1>1, <1>8, <3>3, <4>3, <4>4 DEF Slots
      <4> HIDE DEF at
      <4> QED BY <1>6, <3>1, <4>1, <4>2, <4>4, <4>5
    <3>4. i = n \/ i \in 1..(n - 1)
      BY <1>1
    <3> QED BY <3>2, <3>3, <3>4
  <2>4. new = Append(Tail(old), e)
    BY <1>3, <1>6, <1>8, <2>2, <2>3, SeqEqual
  <2> QED BY <1>1, <1>2, <1>8, <2>4 DEF H!Remember, old, new
<1> QED BY <1>1, <1>7, <1>8
-----------------------------------------------------------------------------
(* The file                                                                *)

LEMMA ImageIsFile ==
  ASSUME NEW es, NEW n, NEW w, IsLog(es, n, w)
  PROVE  IsFile(FileImage(es, n, w))
<1> DEFINE es1 == [i \in 1..n |-> es[i - 1]]
<1>1. n \in 0..Capacity /\ w \in Slots /\ n \in Nat
  BY CapacityAssumption DEF IsLog
<1>2. es1 \in [1..n -> Event]
  <2>1. \A i \in 1..n : i - 1 \in Slots /\ i - 1 < n
    BY <1>1, CapacityAssumption DEF Slots
  <2> QED BY <2>1 DEF IsLog
<1> HIDE DEF es1
<1>3. [count |-> n, writeIdx |-> w, entries |-> es1]
        \in [count : {n}, writeIdx : Slots, entries : [1..n -> Event]]
  BY <1>1, <1>2
<1>4. [count |-> n, writeIdx |-> w, entries |-> es1] \in FileType
  BY <1>1, <1>3 DEF FileType
<1> QED BY <1>4 DEF IsFile, FileImage, es1, IsLog

LEMMA NoFileIsFile == IsFile(NoFile)
<1>1. << >> \in [1..0 -> Event]
  OBVIOUS
<1>2. 0 \in 0..Capacity /\ 0 \in Slots
  BY CapacityAssumption DEF Slots
<1>3. NoFile \in FileType
  BY <1>1, <1>2 DEF FileType, NoFile
<1> QED BY <1>3 DEF IsFile, NoFile

LEMMA RestoredIsLog ==
  ASSUME NEW f, IsFile(f)
  PROVE  IsLog(Restored(f), f.count, f.writeIdx)
<1>1. PICK n \in 0..Capacity : f \in [count : {n}, writeIdx : Slots, entries : [1..n -> Event]]
  BY DEF IsFile, FileType
<1>2. f.count = n /\ f.writeIdx \in Slots /\ f.entries \in [1..n -> Event]
  BY <1>1
<1>3. \A i \in Slots : i < n => f.entries[i + 1] \in Event
  <2>1. \A i \in Slots : i < n => i + 1 \in 1..n
    BY CapacityAssumption DEF Slots
  <2> QED BY <1>2, <2>1
<1>4. /\ Restored(f) \in [Slots -> Event \cup {Blank}]
      /\ \A i \in Slots : i < n => Restored(f)[i] \in Event
  BY <1>2, <1>3 DEF Restored
<1> QED BY <1>2, <1>4 DEF IsLog, IsFile

LEMMA ZeroedIsLog == IsLog(Zeroed, 0, 0)
BY CapacityAssumption DEF IsLog, Zeroed, Slots

(* What log_persist_cb has written, log_restore_cb reads back.             *)
LEMMA ImageReads ==
  ASSUME NEW es, NEW n, NEW w, IsLog(es, n, w)
  PROVE  LET f == FileImage(es, n, w)
         IN  ReadAll(Restored(f), f.count, f.writeIdx) = ReadAll(es, n, w)
<1> DEFINE f == FileImage(es, n, w)
<1>1. f.count = n /\ f.writeIdx = w /\ f.entries = [i \in 1..n |-> es[i - 1]]
  BY DEF FileImage
<1>2. /\ n \in Nat /\ w \in Nat /\ w < Capacity /\ n <= Capacity
      /\ Capacity \in Nat \ {0}
  BY CapacityAssumption DEF IsLog, Slots
<1> HIDE DEF f
<1>3. \A i \in Slots : i < n => Restored(f)[i] = es[i]
  <2>1. \A i \in Slots : i < n => i + 1 \in 1..n /\ (i + 1) - 1 = i
    BY <1>2 DEF Slots
  <2> QED BY <1>1, <2>1 DEF Restored
<1>4. ASSUME NEW i \in 1..n
      PROVE  IF n < Capacity THEN Restored(f)[i - 1] = es[i - 1]
             ELSE Restored(f)[(w + (i - 1)) % Capacity] = es[(w + (i - 1)) % Capacity]
  <2>1. i - 1 \in Slots /\ i - 1 < n
    BY <1>2 DEF Slots
  <2>2. (w + (i - 1)) % Capacity \in Slots
    BY <1>2 DEF Slots
  <2>3. n = Capacity => (w + (i - 1)) % Capacity < n
    BY <1>2
  <2> QED BY <1>2, <1>3, <2>1, <2>2, <2>3
<1>5. ReadAll(Restored(f), n, w) = ReadAll(es, n, w)
  BY <1>4 DEF ReadAll
<1> QED BY <1>1, <1>5 DEF f

LEMMA NothingReads ==
  /\ ReadAll(Zeroed, 0, 0) = << >>
  /\ ReadAll(Restored(NoFile), NoFile.count, NoFile.writeIdx) = << >>
BY DEF ReadAll, NoFile

-----------------------------------------------------------------------------
(* Invariance                                                              *)

Reads(f) == ReadAll(Restored(f), f.count, f.writeIdx)

(* A flush of a buffer over the file f leaves f, or the buffer's image.    *)
LEMMA FlushKeeps ==
  ASSUME NEW f, IsFile(f), Flush(f), IsLog(entries', count', writeIdx')
  PROVE  /\ dirty' \in BOOLEAN
         /\ IsFile(file')
         /\ ~CloseMayFail /\ ~dirty' => file' = FileImage(entries', count', writeIdx')
         /\ SavedOut' \in {Reads(f), ReadOut'}
<1>1. CASE mounted' /\ file' = FileImage(entries', count', writeIdx') /\ dirty' = FALSE
  <2>1. IsFile(file')
    BY <1>1, ImageIsFile
  <2>2. SavedOut' = ReadOut'
    BY <1>1, ImageReads DEF SavedOut, ReadOut
  <2> QED BY <1>1, <2>1, <2>2
<1>2. CASE file' = f /\ dirty' = TRUE
  BY <1>2 DEF SavedOut, Reads
<1>3. CASE CloseMayFail /\ file' = f /\ dirty' = FALSE
  BY <1>3 DEF SavedOut, Reads
<1> QED BY <1>1, <1>2, <1>3 DEF Flush

LEMMA InitIInv == ASSUME Init PROVE IInv
<1>1. IsLog(entries, count, writeIdx)
  <2>1. Capacity \in Nat \ {0} /\ 1 % Capacity = IF 1 < Capacity THEN 1 ELSE 0
    BY CapacityAssumption, ModOnce
  <2>2. count = 1 /\ writeIdx = (IF 1 < Capacity THEN 1 ELSE 0)
    BY <2>1 DEF Init
  <2>3. /\ entries \in [Slots -> Event \cup {Blank}]
        /\ \A i \in Slots : i < 1 => entries[i] \in Event
    BY <2>1, EventAssumption DEF Init, Zeroed, Slots
  <2> QED BY <2>1, <2>2, <2>3 DEF IsLog, Slots
<1>2. IsFile(file)
  BY <1>1, ImageIsFile, NoFileIsFile DEF Init
<1>3. {dirty, mounted, clearing} \subseteq BOOLEAN
  BY Zenon DEF Init
<1>4. ~CloseMayFail /\ ~dirty => file = FileImage(entries, count, writeIdx)
  BY DEF Init
<1> QED BY <1>1, <1>2, <1>3, <1>4 DEF IInv

LEMMA StepIInv == ASSUME IInv, [Next]_vars PROVE IInv'
<1> USE DEF IInv
<1>1. CASE LogEvent
  <2>1. PICK e \in Event : LogOn(entries, count, writeIdx, e)
    BY <1>1 DEF LogEvent
  <2>2. IsLog(entries', count', writeIdx')
    BY <2>1, LogOnIsLog
  <2>3. Flush(file) /\ mounted' = mounted /\ clearing' = clearing
    BY <1>1 DEF LogEvent
  <2> QED BY <2>2, <2>3, FlushKeeps, Zenon
<1>2. CASE ClearFiles
  <2>1. IsFile(file')
    BY <1>2, NoFileIsFile DEF ClearFiles
  <2>2. /\ clearing' = TRUE
        /\ UNCHANGED <<entries, writeIdx, count, dirty, mounted>>
    BY <1>2 DEF ClearFiles
  <2> QED BY <2>1, <2>2, Zenon
<1>3. CASE ClearLog
  <2>1. Flush(file) /\ mounted' = mounted /\ clearing' = FALSE
    BY <1>3 DEF ClearLog
  <2>2. IsLog(entries', count', writeIdx')
    BY <1>3, ZeroedIsLog DEF ClearLog
  <2> QED BY <2>1, <2>2, FlushKeeps, Zenon
<1>4. CASE RestoredBoot
  <2>1. Flush(file) /\ mounted' = TRUE /\ clearing' = FALSE
    BY <1>4 DEF RestoredBoot
  <2>2. IsLog(entries', count', writeIdx')
    BY <1>4, RestoredIsLog, LogOnIsLog, EventAssumption DEF RestoredBoot
  <2> QED BY <2>1, <2>2, FlushKeeps, Zenon
<1>5. ASSUME NEW kept \in BOOLEAN, EmptyBoot(kept) PROVE IInv'
  <2>1. (Flush(file) \/ Flush(NoFile)) /\ mounted' \in BOOLEAN /\ clearing' = FALSE
    BY <1>5, Zenon DEF EmptyBoot
  <2>2. IsLog(entries', count', writeIdx')
    BY <1>5, ZeroedIsLog, LogOnIsLog, EventAssumption DEF EmptyBoot
  <2> QED BY <2>1, <2>2, FlushKeeps, NoFileIsFile, Zenon
<1>6. CASE UNCHANGED vars
  BY <1>6 DEF vars
<1> QED BY <1>1, <1>2, <1>3, <1>4, <1>5, <1>6 DEF Next

LEMMA SpecIInv == Spec => []IInv
  BY InitIInv, StepIInv, PTL DEF Spec

-----------------------------------------------------------------------------

(* The index never leaves the buffer, and no slot that holds no event is   *)
(* counted or saved, for every capacity.                                   *)
THEOREM TypeCorrect == Spec => []TypeOK
<1>1. IInv => TypeOK
  BY DEF IInv, TypeOK, IsLog, IsFile
<1> QED BY <1>1, SpecIInv, PTL

(* A log that is not dirty has its history in flash, if files close.       *)
THEOREM CleanIsSaved == ASSUME ~CloseMayFail PROVE Spec => []CleanMeansSaved
<1>1. IInv => CleanMeansSaved
  BY ImageReads DEF IInv, CleanMeansSaved, SavedOut, ReadOut
<1> QED BY <1>1, SpecIInv, PTL

(* A restart that reads the file continues the history of a clean log.     *)
THEOREM CleanSurvives == ASSUME ~CloseMayFail PROVE Spec => WrittenSurvives
<1>1. ASSUME IInv, RestoredBoot, ~dirty, ~clearing
      PROVE  ReadOut' = H!Remember(ReadOut, BootEvent)
  <2>1. ReadOut = Reads(file)
    BY <1>1, ImageReads DEF IInv, Reads, ReadOut
  <2>2. IsLog(Restored(file), file.count, file.writeIdx)
    BY <1>1, RestoredIsLog DEF IInv
  <2> QED BY <1>1, <2>1, <2>2, LogOnReads, EventAssumption DEF RestoredBoot, Reads, ReadOut
<1>2. IInv /\ [Next]_vars =>
        [RestoredBoot /\ ~dirty /\ ~clearing => ReadOut' = H!Remember(ReadOut, BootEvent)]_vars
  BY <1>1
<1> QED BY <1>2, SpecIInv, PTL DEF Spec, WrittenSurvives

(* The ring buffer and its file implement the bounded history.             *)
THEOREM ImplementsHistory == Spec => RefinesHistory
<1>1. ASSUME Init PROVE H!Init
  <2>1. IsLog(entries, count, writeIdx) /\ count = 1
    BY <1>1, InitIInv DEF IInv, Init
  <2>2. Capacity \in Nat \ {0} /\ entries[0] = BootEvent
        /\ writeIdx = (IF 1 < Capacity THEN 1 ELSE 0)
    BY <1>1, CapacityAssumption, ModOnce DEF Init, Zeroed, Slots
  <2>3. ReadOut \in Seq(Event) /\ Len(ReadOut) = 1
    <3>1. IsLog(entries, count, writeIdx)
      BY <2>1
    <3>2. ReadOut \in Seq(Event) /\ Len(ReadOut) = count
      BY <3>1, ReadAllSeq DEF ReadOut
    <3> QED BY <2>1, <3>2
  <2>4. ReadOut[1] = BootEvent
    <3>1. ReadOut[1] = IF 1 < Capacity THEN entries[0] ELSE entries[writeIdx % Capacity]
      <4>1. 1 \in 1..count /\ writeIdx + (1 - 1) = writeIdx /\ 1 - 1 = 0
        BY <2>1, <2>2
      <4>2. ReadOut[1] = IF count < Capacity THEN entries[1 - 1]
                                             ELSE entries[(writeIdx + (1 - 1)) % Capacity]
        BY <2>1, <4>1 DEF ReadOut, ReadAll
      <4> QED BY <2>1, <4>1, <4>2
    <3>2. 1 = Capacity => writeIdx % Capacity = 0
      BY <2>2, ModOnce
    <3> QED BY <2>2, <3>1, <3>2
  <2>5. ReadOut = << BootEvent >>
    BY <2>3, <2>4
  <2>6. H!Remember(<< >>, BootEvent) = << BootEvent >>
    BY <2>2, EmptySeq DEF H!Remember
  <2>7. SavedOut \in {<< >>, ReadOut}
    BY <1>1, <2>1, ImageReads, NothingReads DEF Init, SavedOut, ReadOut
  <2> QED BY <2>5, <2>6, <2>7 DEF H!Init
<1>2. ASSUME IInv, [Next]_vars PROVE [H!Next]_(H!hvars)
  <2> USE DEF IInv
  <2>0. Reads(file) = SavedOut /\ Reads(NoFile) = << >> /\ ReadAll(Zeroed, 0, 0) = << >>
    BY NothingReads DEF Reads, SavedOut
  <2>1. CASE LogEvent
    <3>1. PICK e \in Event : LogOn(entries, count, writeIdx, e)
      BY <2>1 DEF LogEvent
    <3>2. ReadOut' = H!Remember(ReadOut, e) /\ IsLog(entries', count', writeIdx')
      BY <1>2, <3>1, LogOnReads, LogOnIsLog DEF ReadOut
    <3>3. SavedOut' \in {SavedOut, ReadOut'}
      BY <1>2, <2>0, <2>1, <3>2, FlushKeeps DEF LogEvent
    <3>4. H!Record(e)
      BY <3>2, <3>3 DEF H!Record
    <3> QED BY <3>4 DEF H!Next
  <2>2. CASE ClearFiles
    <3>1. ReadOut' = ReadOut
      BY <2>2 DEF ClearFiles, ReadOut
    <3>2. SavedOut' = SavedOut \/ SavedOut' = << >>
      BY <2>2, <2>0 DEF ClearFiles, SavedOut, Reads
    <3> QED BY <3>1, <3>2 DEF H!Next, H!Erase, H!hvars
  <2>3. CASE ClearLog
    <3>1. ReadOut' = << >> /\ IsLog(entries', count', writeIdx')
      BY <2>0, <2>3, ZeroedIsLog DEF ClearLog, ReadOut
    <3>2. SavedOut' \in {SavedOut, ReadOut'}
      BY <1>2, <2>0, <2>3, <3>1, FlushKeeps DEF ClearLog
    <3> QED BY <3>1, <3>2 DEF H!Next, H!Clear
  <2>4. CASE RestoredBoot
    <3>1. IsLog(Restored(file), file.count, file.writeIdx)
      BY <1>2, RestoredIsLog
    <3>2. /\ ReadOut' = H!Remember(SavedOut, BootEvent)
          /\ IsLog(entries', count', writeIdx')
      BY <2>4, <3>1, LogOnReads, LogOnIsLog, EventAssumption
         DEF RestoredBoot, ReadOut, SavedOut
    <3>3. SavedOut' \in {SavedOut, ReadOut'}
      BY <1>2, <2>0, <2>4, <3>2, FlushKeeps DEF RestoredBoot
    <3> QED BY <3>2, <3>3 DEF H!Next, H!Restart
  <2>5. ASSUME NEW kept \in BOOLEAN, EmptyBoot(kept) PROVE H!Next
    <3>1. /\ ReadOut' = H!Remember(<< >>, BootEvent)
          /\ IsLog(entries', count', writeIdx')
      BY <2>0, <2>5, ZeroedIsLog, LogOnReads, LogOnIsLog, EventAssumption
         DEF EmptyBoot, ReadOut
    <3>2. SavedOut' \in {SavedOut, << >>, ReadOut'}
      BY <1>2, <2>0, <2>5, <3>1, FlushKeeps, NoFileIsFile DEF EmptyBoot
    <3> QED BY <3>1, <3>2 DEF H!Next, H!Restart
  <2>6. CASE UNCHANGED vars
    BY <2>6 DEF vars, H!hvars, ReadOut, SavedOut
  <2> QED BY <1>2, <2>1, <2>2, <2>3, <2>4, <2>5, <2>6 DEF Next
<1> QED BY <1>1, <1>2, SpecIInv, PTL DEF Spec, RefinesHistory, H!Spec

-----------------------------------------------------------------------------
(***************************************************************************)
(*                                Storage                                  *)
(***************************************************************************)

(* Every step of the storage is one of the log or leaves the log alone, so *)
(* that what is proved of the log holds of the storage.                    *)
THEOREM ImplementsLog == StorageSpec => Spec
<1>1. StorageInit => Init
  BY DEF StorageInit
<1>2. ASSUME [StorageNext]_storageVars PROVE [Next]_vars
  <2>1. CASE Start
    BY <2>1 DEF Start, Next
  <2>2. CASE Logs \/ ClearsAll
    BY <2>2 DEF Logs, ClearsAll, Clear, DeletePin, DeleteConfig, DeleteLog, EmptyLog, Next
  <2>3. CASE SavesSchedule \/ SavesTiming \/ SavesApps \/ SavesLocale \/ SavesWifi \/ ChangesPin
    BY <2>3 DEF SavesSchedule, SavesTiming, SavesApps, SavesLocale, SavesWifi, ChangesPin,
                SetConfig, SetupPin
  <2>4. CASE UNCHANGED storageVars
    BY <2>4 DEF storageVars
  <2> QED BY <1>2, <2>1, <2>2, <2>3, <2>4 DEF StorageNext
<1> QED BY <1>1, <1>2, PTL DEF StorageSpec, Spec

-----------------------------------------------------------------------------
(* The configuration                                                       *)

(* A file holds one configuration, and one that could have been written,   *)
(* as what is read is taken as it is.  While a CLEAR deletes, the file is  *)
(* that of the configuration that still runs, or gone.                     *)
ConfigInv ==
  /\ config \in Config /\ unsaved \in BOOLEAN
  /\ deletes \in {"nothing", "config", "log"}
  /\ \/ configFile = {}
     \/ \E c \in Config : c = Written(c) /\ configFile = {c}
  /\ StoredIsRunning

LEMMA DefaultIsConfig == Default \in Config /\ Written(Default) = Default
BY DEF Default, Config, Written, Sections

LEMMA WrittenIsConfig ==
  ASSUME NEW c \in Config
  PROVE  Written(c) \in Config /\ Written(Written(c)) = Written(c)
BY DEF Written, Config, Sections

LEMMA ParsedIsConfig ==
  ASSUME NEW payload,
         \A s \in DOMAIN payload \cap Sections : payload[s] \in {"default", "chosen", "none"}
  PROVE  Parsed(payload) \in Config
BY DEF Parsed, Config

(* A save keeps the old file, and says so, or leaves what it was to write. *)
LEMMA SaveKeeps ==
  ASSUME NEW f, f = {} \/ \E c \in Config : c = Written(c) /\ f = {c},
         config' \in Config, deletes' \in {"nothing", "config", "log"}, Save(f)
  PROVE  ConfigInv'
<1>1. CASE configFile' = {Written(config')} /\ unsaved' = FALSE
  BY <1>1, WrittenIsConfig DEF ConfigInv, StoredIsRunning
<1>2. CASE configFile' = f /\ unsaved' = TRUE
  BY <1>2 DEF ConfigInv, StoredIsRunning
<1> QED BY <1>1, <1>2 DEF Save

LEMMA LoadConfigInv ==
  ASSUME NEW f, f = {} \/ \E c \in Config : c = Written(c) /\ f = {c},
         LoadConfig(f), deletes' = "nothing"
  PROVE  ConfigInv'
<1>1. CASE config' \in f /\ configFile' = f /\ unsaved' = FALSE
  BY <1>1 DEF ConfigInv, StoredIsRunning
<1>2. CASE config' = Default /\ Save(f)
  BY <1>2, DefaultIsConfig, SaveKeeps
<1> QED BY <1>1, <1>2 DEF LoadConfig

LEMMA SetConfigInv ==
  ASSUME NEW payload, Parsed(payload) \in Config, ConfigInv, SetConfig(payload)
  PROVE  ConfigInv'
<1>1. config' = Parsed(payload) /\ deletes' = deletes /\ Save(configFile)
  BY DEF SetConfig
<1> QED BY <1>1, SaveKeeps DEF ConfigInv

LEMMA ConfigStep == ASSUME ConfigInv, [StorageNext]_storageVars PROVE ConfigInv'
<1>1. CASE Start
  <2>1. PICK f \in {configFile, {}} : LoadConfig(f)
    BY <1>1 DEF Start
  <2> QED BY <1>1, <2>1, LoadConfigInv DEF Start, ConfigInv
<1>2. CASE Logs \/ EmptyLog \/ ChangesPin \/ UNCHANGED storageVars
  <2>1. UNCHANGED <<config, configFile, unsaved, deletes>>
    BY <1>2 DEF Logs, EmptyLog, ChangesPin, SetupPin, storageVars, configVars
  <2> QED BY <2>1 DEF ConfigInv, StoredIsRunning
<1>3. CASE DeletePin
  <2>1. UNCHANGED <<config, configFile, unsaved>> /\ deletes' = "config"
    BY <1>3 DEF DeletePin, configVars
  <2> QED BY <2>1 DEF ConfigInv, StoredIsRunning
<1>4. CASE DeleteConfig
  <2>1. UNCHANGED <<config, unsaved>> /\ deletes' = "log" /\ configFile' \in {configFile, {}}
    BY <1>4 DEF DeleteConfig, Deleted
  <2> QED BY <2>1 DEF ConfigInv, StoredIsRunning
<1>5. CASE DeleteLog
  <2>1. /\ config' = Default /\ configFile' = configFile /\ unsaved' = (configFile # {})
        /\ deletes' = "nothing"
    BY <1>5 DEF DeleteLog
  <2> QED BY <2>1, DefaultIsConfig DEF ConfigInv, StoredIsRunning
<1>6. CASE SavesSchedule
  <2>1. Parsed([time |-> "chosen", days |-> "none"]) \in Config
    BY ParsedIsConfig
  <2> QED BY <1>6, <2>1, SetConfigInv DEF SavesSchedule
<1>7. CASE SavesTiming \/ SavesApps
  <2>1. DOMAIN <<>> \cap Sections = {}
    BY DEF Sections
  <2>2. Parsed(<<>>) \in Config
    BY <2>1, ParsedIsConfig
  <2> QED BY <1>7, <2>2, SetConfigInv DEF SavesTiming, SavesApps
<1>8. CASE SavesLocale
  <2>1. PICK locale \in {"default", "chosen"} : SetConfig([locale |-> locale])
    BY <1>8 DEF SavesLocale
  <2>2. Parsed([locale |-> locale]) \in Config
    BY ParsedIsConfig
  <2> QED BY <2>1, <2>2, SetConfigInv
<1>9. CASE SavesWifi
  <2>1. Parsed([ssid |-> "chosen", password |-> "chosen"]) \in Config
    BY ParsedIsConfig
  <2> QED BY <1>9, <2>1, SetConfigInv DEF SavesWifi
<1> QED BY <1>1, <1>2, <1>3, <1>4, <1>5, <1>6, <1>7, <1>8, <1>9
        DEF StorageNext, ClearsAll, Clear

-----------------------------------------------------------------------------
(* The PIN                                                                 *)

(* An empty file, which a start takes for a PIN, is left by a SETUP_PIN    *)
(* that failed, and this is remembered as long as the file is there.       *)
PinInv ==
  /\ pinStored \in BOOLEAN
  /\ pinFile \in {"none", "empty", "pin"} /\ pinFaults \subseteq {"write", "delete"}
  /\ pinFile = "empty" => "write" \in pinFaults
  /\ PinAgrees

LEMMA FindPinInv ==
  ASSUME PinInv, NEW f \in {pinFile, "none"}, FindPin(f)
  PROVE  PinInv'
<1>1. pinFile' = f /\ pinStored' = (mounted' /\ f # "none")
  BY DEF FindPin
<1>2. pinFaults' = IF f = "empty" THEN pinFaults \cap {"write"} ELSE {}
  BY DEF FindPin
<1>3. f = "empty" => "write" \in pinFaults'
  BY <1>2 DEF PinInv
<1>4. pinStored' \in BOOLEAN
  BY <1>1, Zenon
<1>5. pinStored' => f # "none"
  BY <1>1, Zenon
<1>6. ~pinStored' /\ f = "pin" => ~mounted'
  BY <1>1, Zenon
<1> QED BY <1>1, <1>2, <1>3, <1>4, <1>5, <1>6 DEF PinInv, PinAgrees

LEMMA PinStep == ASSUME PinInv, [StorageNext]_storageVars PROVE PinInv'
<1>1. CASE Start
  <2>1. \E f \in {pinFile, "none"} : FindPin(f)
    BY <1>1 DEF Start
  <2> QED BY <2>1, FindPinInv
<1>2. CASE SetupPin
  <2>1. CASE pinStored' = TRUE /\ pinFile' = "pin" /\ pinFaults' = {}
    BY <2>1 DEF PinInv, PinAgrees
  <2>2. CASE /\ pinStored' \in {pinStored, mounted \/ pinStored}
             /\ pinFile' \in {pinFile, "empty"} /\ (pinFile' # pinFile => pinFile = "none")
             /\ pinFaults' = pinFaults \cup {"write"}
    <3>1. pinStored' \in BOOLEAN /\ (pinStored => pinStored')
      BY <2>2, Zenon DEF PinInv
    <3>2. deletes' = deletes /\ mounted' = mounted /\ deletes = "nothing"
      BY <1>2 DEF SetupPin, vars, Idle
    <3> QED BY <2>2, <3>1, <3>2 DEF PinInv, PinAgrees
  <2> QED BY <1>2, <2>1, <2>2 DEF SetupPin
<1>3. CASE DeletePin
  <2>1. /\ UNCHANGED <<pinStored, pinFaults>> /\ deletes' = "config"
        /\ pinFile' \in {pinFile, "none"}
    BY <1>3 DEF DeletePin, Deleted
  <2> QED BY <2>1 DEF PinInv, PinAgrees
<1>4. CASE DeleteConfig
  <2>1. UNCHANGED pinVars /\ deletes' = "log"
    BY <1>4 DEF DeleteConfig
  <2> QED BY <2>1 DEF PinInv, PinAgrees, pinVars
<1>5. CASE DeleteLog
  <2>1. /\ pinStored' = FALSE /\ pinFile' = pinFile
        /\ pinFaults' = IF pinFile = "none" THEN {} ELSE pinFaults \cup {"delete"}
    BY <1>5 DEF DeleteLog
  <2> QED BY <2>1 DEF PinInv, PinAgrees
<1>6. ASSUME UNCHANGED <<pinVars, deletes, mounted>> PROVE PinInv'
  BY <1>6 DEF PinInv, PinAgrees, pinVars
<1>7. CASE Logs \/ EmptyLog
  BY <1>6, <1>7 DEF Logs, EmptyLog, LogEvent, ClearLog
<1>8. CASE SavesSchedule \/ SavesTiming \/ SavesApps \/ SavesLocale \/ SavesWifi
  <2>1. UNCHANGED <<vars, pinVars, deletes>>
    BY <1>8 DEF SavesSchedule, SavesTiming, SavesApps, SavesLocale, SavesWifi, SetConfig
  <2> QED BY <1>6, <2>1 DEF vars
<1>9. CASE UNCHANGED storageVars
  BY <1>6, <1>9 DEF storageVars, vars
<1> QED BY <1>1, <1>2, <1>3, <1>4, <1>5, <1>7, <1>8, <1>9
        DEF StorageNext, ChangesPin, ClearsAll, Clear

-----------------------------------------------------------------------------
LEMMA StorageInvariance == StorageSpec => [](ConfigInv /\ PinInv)
<1>1. StorageInit => ConfigInv /\ PinInv
  BY DefaultIsConfig DEF StorageInit, ConfigInv, PinInv, StoredIsRunning, PinAgrees
<1>2. ConfigInv /\ PinInv /\ [StorageNext]_storageVars => (ConfigInv /\ PinInv)'
  BY ConfigStep, PinStep
<1> QED BY <1>1, <1>2, PTL DEF StorageSpec

(* The log, the configuration and the PIN keep their types.                *)
THEOREM StorageTypeCorrect == StorageSpec => []StorageTypeOK
<1>1. TypeOK /\ ConfigInv /\ PinInv => StorageTypeOK
  BY DEF ConfigInv, PinInv, StorageTypeOK
<1> QED BY <1>1, ImplementsLog, TypeCorrect, StorageInvariance, PTL

(* Whichever handlers run, between whatever starts and cuts of the power,  *)
(* the device runs with what it would load, but for the WiFi password,     *)
(* until a save or a delete fails.                                         *)
THEOREM RunsWhatIsStored == StorageSpec => []StoredIsRunning
<1>1. ConfigInv => StoredIsRunning
  BY DEF ConfigInv
<1> QED BY <1>1, StorageInvariance, PTL

(* Only a SETUP_PIN that failed lets a PIN be reported that is not there,  *)
(* and only a CLEAR that failed, until the next start, hides one that is.  *)
THEOREM PinIsWhereReported == StorageSpec => []PinAgrees
<1>1. PinInv => PinAgrees
  BY DEF PinInv
<1> QED BY <1>1, StorageInvariance, PTL

=============================================================================
