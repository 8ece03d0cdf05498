-------------------------- MODULE Bootloader_proofs -------------------------
(***************************************************************************)
(* Proofs about Bootloader for every layout of the partition, every set of *)
(* firmwares and every number of power cuts.                               *)
(***************************************************************************)
EXTENDS Bootloader, SequenceTheorems, TLAPS

F == FlagsIn(cells)

(* FLASH is accepted only for a size that leaves room for the hash.        *)
Announced == flashMode => expected + 1 <= Pages

(* What is in flash never claims to await BOOT_OK after BOOT_OK, and its   *)
(* count is positive only if a boot has been counted.                      *)
Unconfirmed(f) == f.pending => ~confirmed /\ (f.count >= 1 => boots >= 1)

FlagsFollow ==
  /\ Unconfirmed(F)
  /\ mode = "loop" => F \in {flags, DefaultFlags}
  /\ mode = "rollback" => ~confirmed /\ boots >= 2
  /\ mode = "flags" => Unconfirmed(flags)
  /\ mode = "flags" /\ next = "rollback" => ~confirmed /\ boots >= 2

IInv == TypeOK /\ Announced /\ FlagsFollow

(* While the power has been cut fewer than 255 times the count of the      *)
(* pending flags does not wrap: it is no less than the boots and, but for  *)
(* the boot under way, no more than the cuts.                              *)
CountOf(f, m) == f.pending => /\ boots <= f.count
                              /\ f.count <= cuts + (IF m = "off" THEN 0 ELSE 1)

Counted ==
  /\ CountOf(F, mode)
  /\ mode = "flags" => CountOf(flags, next)
  /\ mode = "flags" /\ next = "loop" /\ flags.pending => boots <= 1
  /\ UnconfirmedRunsOnce

CInv == cuts < 255 => Counted

(* As long as no update has begun over a selected partition B, flags that  *)
(* await BOOT_OK are those of a swap to B, so a rollback deselects B, an   *)
(* update is received with B deselected, and wherever B is selected, in    *)
(* flash or in RAM, a whole firmware is there.                             *)
Intact(cs) == \E fw \in Firmware : \A i \in 1..Size[fw] : cs[i] = Code(fw, i)

Swapped ==
  /\ F.pending => F.active = 1
  /\ mode # "off" /\ flags.pending => flags.active = 1
  /\ mode = "rollback" => flags.pending
  /\ mode = "flags" /\ next = "rollback" => flags.pending
  /\ mode # "off" /\ flashMode => flags.active = 0

Whole ==
  /\ F.active = 1 => Intact(cells)
  /\ mode # "off" /\ flags.active = 1 => Intact(cells)

WInv == ~fromB => Swapped /\ Whole

-----------------------------------------------------------------------------

LEMMA Layout ==
  /\ Pages \in Nat /\ FlagPage \in 1..Pages /\ FlagPage \in FlagPages
  /\ SectorPages \in Nat
BY LayoutAssumption DEF FlagPage, FlagPages

LEMMA StoredType == ASSUME NEW f \in Flags PROVE Stored(f) \in Content
BY DEF Stored, Content

LEMMA ErasedType == Erased \in Content
BY DEF Content

LEMMA DataType == ASSUME NEW i \in 1..Pages, NEW a \in Data(i)
                  PROVE a \in Content /\ a.kind # "flags"
<1>1. a \in Content
  BY DEF Content
<1>2. a.kind # "flags"
  BY DEF Data, Code, Hash, Junk
<1> QED BY <1>1, <1>2

LEMMA FlagsInType ==
  ASSUME NEW cs \in [1..Pages -> Content]
  PROVE  FlagsIn(cs) \in Flags
<1>1. DefaultFlags \in Flags
  BY DEF DefaultFlags, Flags
<1>2. ASSUME cs[FlagPage].kind = "flags"
      PROVE  cs[FlagPage].flags \in Flags
  <2>1. cs[FlagPage] \in Content
    BY Layout
  <2>2. \A i \in 1..Pages : \A a \in Data(i) : a.kind # "flags"
    BY DataType
  <2>3. Erased.kind # "flags"
    BY DEF Erased
  <2>4. cs[FlagPage] \in [kind : {"flags"}, flags : Flags]
    BY <1>2, <2>1, <2>2, <2>3, Zenon DEF Content
  <2> QED BY <2>4
<1> QED BY <1>1, <1>2 DEF FlagsIn

(* write_boot_flags first leaves no flags at all.                          *)
LEMMA ErasedFlags ==
  ASSUME NEW cs \in [1..Pages -> Content], NEW f, NEW then, WriteFlags(f, cs, then)
  PROVE  cells' \in [1..Pages -> Content] /\ FlagsIn(cells') = DefaultFlags
<1>1. cells' \in [1..Pages -> Content]
  BY ErasedType DEF WriteFlags
<1>2. cells'[FlagPage] = Erased
  BY Layout DEF WriteFlags
<1> QED BY <1>1, <1>2 DEF FlagsIn, Erased

LEMMA ProgrammedType ==
  ASSUME TypeOK, Announced, NEW data \in Pieces, Feed(data)
  PROVE  /\ Programmed(data) \in [1..Pages -> Content]
         /\ FlagsIn(Programmed(data)) \in {F, DefaultFlags}
         /\ received' \in 0..(expected + 1)
<1>1. /\ received \in Nat /\ expected \in Nat /\ expected + 1 <= Pages
      /\ received + Len(data) <= expected + 1 /\ flashMode
      /\ cells \in [1..Pages -> Content] /\ Pages \in Nat
  BY Layout DEF TypeOK, Announced, Feed
<1>2. /\ Len(data) \in {1, 2}
      /\ \A j \in 1..Len(data) : data[j] \in Data(received + j)
  <2>1. CASE \E a \in Data(received + 1) : data = <<a>>
    BY <2>1
  <2>2. CASE \E a \in Data(received + 1), b \in Data(received + 2) : data = <<a, b>>
    BY <2>2
  <2> QED BY <2>1, <2>2 DEF Pieces
<1>3. ASSUME NEW i \in (received + 1)..(received + Len(data))
      PROVE  /\ data[i - received] \in Content
             /\ data[i - received].kind # "flags"
  <2>1. i - received \in 1..Len(data) /\ received + (i - received) = i /\ i \in 1..Pages
    BY <1>1, <1>2
  <2>2. data[i - received] \in Data(i)
    BY <1>2, <2>1
  <2> QED BY <2>1, <2>2, DataType
<1>4. Programmed(data) \in [1..Pages -> Content]
  BY <1>1, <1>3 DEF Programmed
<1>5. FlagsIn(Programmed(data)) \in {F, DefaultFlags}
  <2>1. CASE FlagPage \in (received + 1)..(received + Len(data))
    <3>1. Programmed(data)[FlagPage].kind # "flags"
      BY <1>3, <2>1, Layout DEF Programmed
    <3> QED BY <3>1 DEF FlagsIn
  <2>2. CASE FlagPage \notin (received + 1)..(received + Len(data))
    <3>1. Programmed(data)[FlagPage] = cells[FlagPage]
      BY <2>2, Layout DEF Programmed
    <3> QED BY <3>1 DEF FlagsIn, F
  <2> QED BY <2>1, <2>2
<1>6. received' \in 0..(expected + 1)
  BY <1>1, <1>2 DEF Feed
<1> QED BY <1>4, <1>5, <1>6
-----------------------------------------------------------------------------
(* Invariance                                                              *)

LEMMA InitIInv == ASSUME Init PROVE IInv
<1>1. cells \in [1..Pages -> Content]
  BY ErasedType DEF Init
<1>2. F = DefaultFlags /\ DefaultFlags \in Flags
  BY Layout DEF Init, F, FlagsIn, Erased, DefaultFlags, Flags
<1>3. /\ mode = "off" /\ next = "off" /\ flags = DefaultFlags
      /\ expected = 0 /\ received = 0 /\ reply = "none" /\ cuts = 0 /\ boots = 0
  BY DEF Init
<1>4. flashMode = FALSE /\ confirmed = FALSE /\ fromB = FALSE
  BY DEF Init
<1>5. TypeOK
  <2>1. flashMode \in BOOLEAN /\ confirmed \in BOOLEAN /\ fromB \in BOOLEAN
    BY <1>4
  <2> QED BY <1>1, <1>2, <1>3, <2>1, Layout DEF TypeOK
<1>6. FlagsFollow
  BY <1>2, <1>3 DEF FlagsFollow, Unconfirmed, DefaultFlags
<1> QED BY <1>4, <1>5, <1>6 DEF IInv, Announced

(* boot_count++ on its byte                                                *)
LEMMA NextCount ==
  ASSUME NEW c \in 0..255
  PROVE  /\ (c + 1) % 256 \in 0..255 /\ ((c + 1) % 256 > 1 => c >= 1)
         /\ c < 255 => (c + 1) % 256 = c + 1
OBVIOUS

LEMMA BootStep == ASSUME IInv, BootVerified \/ BootCounted PROVE IInv'
<1> USE DEF IInv, TypeOK, PowerUp
<1>1. F \in Flags
  BY FlagsInType DEF F
<1>2. /\ boots' = Booted /\ boots' \in 0..3 /\ boots \in 0..3
      /\ expected' \in 0..Pages /\ received' \in 0..(expected' + 1)
      /\ reply' = "none" /\ cuts' = cuts
  BY Layout DEF Booted, BootVerified, BootCounted
<1>3. flashMode' = FALSE /\ confirmed' = confirmed /\ fromB' = fromB
  BY DEF BootVerified, BootCounted
<1>4. Announced'
  BY <1>3 DEF Announced
<1>5. CASE BootVerified
  <2>1. /\ flags' = F /\ ~F.pending /\ cells' = cells /\ mode' = "loop" /\ next' = "loop"
    BY <1>5 DEF BootVerified, F
  <2>2. F' = F
    BY <2>1 DEF F
  <2>3. TypeOK'
    BY <1>1, <1>2, <1>3, <2>1, Zenon
  <2>4. FlagsFollow'
    BY <2>1, <2>2 DEF FlagsFollow, Unconfirmed
  <2> QED BY <1>4, <2>3, <2>4
<1>6. CASE BootCounted
  <2> DEFINE n == (F.count + 1) % 256
             f == [F EXCEPT !.count = n]
             then == IF n > 1 THEN "rollback" ELSE "loop"
  <2>1. F.pending /\ WriteFlags(f, cells, then)
    BY <1>6 DEF BootCounted, F
  <2>0. F.count \in 0..255
    BY <1>1 DEF Flags
  <2>2. n \in 0..255 /\ (n > 1 => F.count >= 1)
    BY <2>0, NextCount
  <2>3. f \in Flags /\ f.count = n
    BY <1>1, <2>2 DEF Flags
  <2>4. cells' \in [1..Pages -> Content] /\ F' = DefaultFlags
    BY <2>1, ErasedFlags DEF F
  <2>5. flags' = f /\ mode' = "flags" /\ next' = then
    BY <2>1 DEF WriteFlags
  <2>6. then = "rollback" => boots' >= 2
    <3>1. n > 1 => F.count >= 1
      BY <2>2
    <3>2. F.count >= 1 => boots >= 1
      BY <2>1 DEF FlagsFollow, Unconfirmed
    <3> QED BY <1>2, <3>1, <3>2 DEF Booted
  <2>7. ~confirmed
    BY <2>1 DEF FlagsFollow, Unconfirmed
  <2>8. then \in {"loop", "rollback"}
    OBVIOUS
  <2> HIDE DEF n, f, then
  <2>9. TypeOK'
    BY <1>2, <1>3, <2>3, <2>4, <2>5, <2>8, Zenon
  <2>10. FlagsFollow'
    <3>1. boots' >= 1
      BY <1>2 DEF Booted
    <3>2. Unconfirmed(F)' /\ Unconfirmed(flags)'
      BY <1>3, <2>4, <2>5, <2>7, <3>1 DEF Unconfirmed, DefaultFlags
    <3>3. ~confirmed' /\ (next' = "rollback" => boots' >= 2)
      BY <1>3, <2>5, <2>6, <2>7
    <3> QED BY <2>5, <3>2, <3>3 DEF FlagsFollow
  <2> QED BY <1>4, <2>9, <2>10
<1> QED BY <1>5, <1>6

LEMMA FlagStep ==
  ASSUME IInv, ProgramFlags \/ Rollback \/ BootOk \/ PowerCut
  PROVE  IInv'
<1> USE DEF IInv, TypeOK
<1>1. CASE ProgramFlags
  <2>1. /\ mode = "flags" /\ mode' = next /\ cells' = [cells EXCEPT ![FlagPage] = Stored(flags)]
        /\ UNCHANGED <<next, flags, flashVars, reply, cuts, boots, confirmed>>
    BY <1>1 DEF ProgramFlags
  <2>2. cells' \in [1..Pages -> Content] /\ F' = flags
    BY <2>1, Layout, StoredType DEF F, FlagsIn, Stored
  <2>3. TypeOK'
    BY <2>1, <2>2, Zenon DEF flashVars
  <2>4. FlagsFollow'
    BY <2>1, <2>2 DEF FlagsFollow, Unconfirmed
  <2> QED BY <2>1, <2>3, <2>4 DEF Announced, flashVars
<1>2. CASE Rollback
  <2> DEFINE f == [active |-> Toggled(flags.active), pending |-> FALSE, count |-> 0]
  <2>1. /\ WriteFlags(f, cells, "off")
        /\ UNCHANGED <<flashVars, reply, cuts, boots, confirmed>>
    BY <1>2 DEF Rollback
  <2>2. f \in Flags /\ ~f.pending
    BY DEF Flags, Toggled
  <2>3. cells' \in [1..Pages -> Content] /\ F' = DefaultFlags
    BY <2>1, ErasedFlags DEF F
  <2>4. flags' = f /\ mode' = "flags" /\ next' = "off"
    BY <2>1 DEF WriteFlags
  <2> HIDE DEF f
  <2>5. TypeOK'
    BY <2>1, <2>2, <2>3, <2>4, Zenon DEF flashVars
  <2>6. FlagsFollow'
    BY <2>1, <2>2, <2>3, <2>4 DEF FlagsFollow, Unconfirmed, DefaultFlags
  <2> QED BY <2>1, <2>5, <2>6 DEF Announced, flashVars
<1>3. CASE BootOk /\ flags.pending
  <2> DEFINE f == [active |-> flags.active, pending |-> FALSE, count |-> 0]
  <2>1. /\ WriteFlags(f, cells, "loop") /\ reply' = "OK"
        /\ UNCHANGED <<flashVars, cuts, boots>>
    BY <1>3 DEF BootOk
  <2>2. f \in Flags /\ ~f.pending
    <3>1. flags.active \in {0, 1}
      BY DEF Flags
    <3> QED BY <3>1 DEF Flags
  <2>3. cells' \in [1..Pages -> Content] /\ F' = DefaultFlags
    BY <2>1, ErasedFlags DEF F
  <2>4. flags' = f /\ mode' = "flags" /\ next' = "loop"
    BY <2>1 DEF WriteFlags
  <2>5. confirmed' = TRUE
    BY <1>3 DEF BootOk
  <2> HIDE DEF f
  <2>6. TypeOK'
    BY <2>1, <2>2, <2>3, <2>4, <2>5, Zenon DEF flashVars
  <2>7. FlagsFollow'
    BY <2>1, <2>2, <2>3, <2>4 DEF FlagsFollow, Unconfirmed, DefaultFlags
  <2> QED BY <2>1, <2>6, <2>7 DEF Announced, flashVars
<1>4. CASE BootOk /\ ~flags.pending
  <2>1. /\ UNCHANGED <<mode, next, flags, cells, confirmed, flashVars, cuts, boots>>
        /\ reply' = "OK"
    BY <1>4 DEF BootOk
  <2> QED BY <2>1 DEF flashVars, Announced, FlagsFollow, Unconfirmed, F
<1>5. CASE PowerCut
  <2>1. /\ mode' = "off" /\ cuts' = cuts + 1
        /\ UNCHANGED <<next, flags, flashVars, cells, reply, boots, confirmed>>
    BY <1>5 DEF PowerCut
  <2> QED BY <2>1 DEF flashVars, Announced, FlagsFollow, Unconfirmed, F
<1> QED BY <1>1, <1>2, <1>3, <1>4, <1>5

LEMMA UpdateStep ==
  ASSUME IInv, FlashRefused \/ (\E fw \in Firmware : Flash(Size[fw])) \/ ReceiveData
  PROVE  IInv'
<1> USE DEF IInv, TypeOK
<1>1. CASE FlashRefused \/ TooMuchData
  <2>1. /\ UNCHANGED <<mode, next, flags, expected, received, cells, cuts, boots, fromB, confirmed>>
        /\ flashMode' \in {flashMode, FALSE} /\ reply' = "ERR"
    BY <1>1 DEF FlashRefused, TooMuchData, flashVars
  <2>2. TypeOK'
    BY <2>1, Zenon
  <2> QED BY <2>1, <2>2 DEF Announced, FlagsFollow, Unconfirmed, F
<1>2. ASSUME NEW fw \in Firmware, Flash(Size[fw])
      PROVE  IInv'
  <2>1. Size[fw] \in 1..Pages /\ Size[fw] <= Pages - 1 /\ Pages \in Nat
    BY <1>2, SizeAssumption, Layout DEF Flash
  <2>2. /\ expected' = Size[fw] /\ received' = 0 /\ reply' = "READY"
        /\ UNCHANGED <<mode, next, flags, cuts, boots, confirmed>>
    BY <1>2 DEF Flash
  <2>3. flashMode' \in BOOLEAN /\ fromB' \in BOOLEAN
    BY <1>2 DEF Flash
  <2>4. cells' \in [1..Pages -> Content] /\ F' \in {F, DefaultFlags}
    <3>1. cells' = [i \in 1..Pages |-> IF i <= SectorEnd(Size[fw] + 1) THEN Erased ELSE cells[i]]
      BY <1>2 DEF Flash
    <3>2. cells' \in [1..Pages -> Content]
      BY <3>1, ErasedType
    <3>3. cells'[FlagPage] \in {Erased, cells[FlagPage]}
      BY <3>1, Layout
    <3> QED BY <3>2, <3>3 DEF F, FlagsIn, Erased
  <2>5. expected' \in 0..Pages /\ received' \in 0..(expected' + 1) /\ expected' + 1 <= Pages
    BY <2>1, <2>2
  <2>6. TypeOK'
    BY <2>2, <2>3, <2>4, <2>5, Zenon
  <2>7. FlagsFollow'
    BY <2>2, <2>4 DEF FlagsFollow, Unconfirmed, DefaultFlags
  <2> QED BY <2>5, <2>6, <2>7 DEF Announced
<1>3. ASSUME NEW data \in Pieces, Feed(data)
      PROVE  /\ Programmed(data) \in [1..Pages -> Content]
             /\ FlagsIn(Programmed(data)) \in {F, DefaultFlags}
             /\ received' \in 0..(expected' + 1) /\ expected' = expected /\ cuts' = cuts
             /\ fromB' = fromB
             /\ mode = "loop"
  BY <1>3, ProgrammedType DEF Feed
<1>4. ASSUME NEW data \in Pieces, MoreData(data) \/ VerifyFails(data)
      PROVE  IInv'
  <2>1. Feed(data)
    BY <1>4 DEF MoreData, VerifyFails
  <2>2. /\ cells' = Programmed(data) /\ reply' = "none"
        /\ UNCHANGED <<mode, next, flags, boots, confirmed>>
    BY <1>4 DEF MoreData, VerifyFails
  <2>3. flashMode' \in {flashMode, FALSE}
    BY <1>4 DEF MoreData, VerifyFails
  <2>4. F' \in {F, DefaultFlags}
    BY <1>3, <2>1, <2>2 DEF F
  <2>5. TypeOK'
    BY <1>3, <2>1, <2>2, <2>3, Zenon
  <2>6. FlagsFollow'
    BY <2>2, <2>4 DEF FlagsFollow, Unconfirmed, DefaultFlags
  <2>7. Announced'
    BY <1>3, <2>1, <2>3 DEF Announced
  <2> QED BY <2>5, <2>6, <2>7
<1>5. ASSUME NEW data \in Pieces, VerifySucceeds(data)
      PROVE  IInv'
  <2> DEFINE f == [active |-> Toggled(flags.active), pending |-> TRUE, count |-> 0]
  <2>1. Feed(data) /\ WriteFlags(f, Programmed(data), "off") /\ reply' = "none" /\ boots' = 0
    BY <1>5 DEF VerifySucceeds
  <2>2. flashMode' = FALSE /\ confirmed' = FALSE
    BY <1>5 DEF VerifySucceeds
  <2>3. f \in Flags /\ f.count = 0
    BY DEF Flags, Toggled
  <2>4. cells' \in [1..Pages -> Content] /\ F' = DefaultFlags
    BY <1>3, <2>1, ErasedFlags DEF F
  <2>5. flags' = f /\ mode' = "flags" /\ next' = "off"
    BY <2>1 DEF WriteFlags
  <2> HIDE DEF f
  <2>6. TypeOK'
    <3>1. boots' \in 0..3
      BY <2>1
    <3> QED BY <1>3, <2>1, <2>2, <2>3, <2>4, <2>5, <3>1, Zenon
  <2>7. FlagsFollow'
    BY <2>2, <2>3, <2>4, <2>5 DEF FlagsFollow, Unconfirmed, DefaultFlags
  <2> QED BY <2>2, <2>6, <2>7 DEF Announced
<1> QED BY <1>1, <1>2, <1>4, <1>5 DEF ReceiveData

LEMMA StepIInv == ASSUME IInv, [Next]_vars PROVE IInv'
<1>1. CASE UNCHANGED vars
  BY <1>1 DEF vars, flashVars, IInv, TypeOK, Announced, FlagsFollow, Unconfirmed, F
<1> QED BY <1>1, BootStep, FlagStep, UpdateStep DEF Next

LEMMA SpecIInv == Spec => []IInv
  BY InitIInv, StepIInv, PTL DEF Spec

-----------------------------------------------------------------------------
(* The count of the boots                                                  *)

(* What a write of the flags leaves: the flags in RAM, none in flash.      *)
LEMMA WriteCounted ==
  ASSUME IInv, NEW f \in Flags, NEW then, NEW cs \in [1..Pages -> Content],
         WriteFlags(f, cs, then)
  PROVE  /\ flags' = f /\ mode' = "flags" /\ next' = then
         /\ ~F'.pending /\ F'.active = 0
<1>1. F' = DefaultFlags
  BY ErasedFlags DEF F
<1> QED BY <1>1 DEF WriteFlags, DefaultFlags

LEMMA InitCounted == ASSUME Init PROVE CInv
<1>1. F = DefaultFlags
  BY Layout DEF Init, F, FlagsIn, Erased
<1> QED BY <1>1 DEF Init, CInv, Counted, CountOf, DefaultFlags, UnconfirmedRunsOnce

LEMMA CountsBoot == ASSUME IInv, Counted, cuts < 255, BootCounted PROVE Counted'
<1> DEFINE n == (F.count + 1) % 256
           f == [F EXCEPT !.count = n]
           then == IF n > 1 THEN "rollback" ELSE "loop"
<1>1. /\ PowerUp /\ mode = "off" /\ F.pending /\ boots' = Booted /\ cuts' = cuts
      /\ WriteFlags(f, cells, then)
  BY DEF BootCounted, PowerUp, F
<1>2. /\ cells \in [1..Pages -> Content] /\ boots \in 0..3 /\ cuts \in Nat
      /\ F \in Flags
  BY FlagsInType DEF IInv, TypeOK, F
<1> DEFINE c == F.count
<1>3. c \in 0..255 /\ boots <= c /\ c <= cuts
  BY <1>1, <1>2 DEF Counted, CountOf, Flags
<1> HIDE DEF c
<1>4. n = c + 1 /\ n \in 0..255
  <2>1. c < 255
    BY <1>2, <1>3
  <2> QED BY <1>3, <2>1, NextCount DEF c
<1>5. f \in Flags /\ f.count = n
  BY <1>2, <1>4 DEF Flags
<1>6. then # "off" /\ (then = "loop" => ~(n > 1))
  OBVIOUS
<1> HIDE DEF n, f, then
<1>7. boots' <= n /\ n <= cuts' + 1
  <2>1. cuts' = cuts /\ boots' = Booted
    BY <1>1
  <2>2. Booted \in 0..3 /\ Booted <= boots + 1
    BY <1>2 DEF Booted
  <2> QED BY <1>2, <1>3, <1>4, <2>1, <2>2
<1>8. then = "loop" => boots' <= 1
  <2>1. boots' \in 0..3
    BY <1>1, <1>2 DEF Booted
  <2> QED BY <1>4, <1>6, <1>7, <2>1
<1>9. flags' = f /\ mode' = "flags" /\ next' = then /\ ~F'.pending
  BY <1>1, <1>2, <1>5, WriteCounted
<1> QED BY <1>5, <1>6, <1>7, <1>8, <1>9 DEF Counted, CountOf, UnconfirmedRunsOnce

(* The flags that every other write of them stores await nothing, but for  *)
(* those of a swap, which start the count and the boots at zero.           *)
LEMMA CountsWrite ==
  ASSUME IInv, Counted, Rollback \/ (BootOk /\ flags.pending)
           \/ (\E data \in Pieces : VerifySucceeds(data))
  PROVE  Counted'
<1> DEFINE Kept(active, pending) ==
             [active |-> active, pending |-> pending, count |-> 0]
<1>1. ASSUME NEW active \in {0, 1} PROVE Kept(active, FALSE) \in Flags /\ Kept(active, TRUE) \in Flags
  BY DEF Flags
<1>2. flags.active \in {0, 1} /\ Toggled(flags.active) \in {0, 1} /\ cuts \in Nat
  BY DEF IInv, TypeOK, Flags, Toggled
<1>3. CASE Rollback \/ (BootOk /\ flags.pending)
  <2>1. PICK active \in {0, 1}, then \in {"off", "loop"} :
          WriteFlags(Kept(active, FALSE), cells, then)
    BY <1>2, <1>3 DEF Rollback, BootOk
  <2>2. cells \in [1..Pages -> Content]
    BY DEF IInv, TypeOK
  <2>3. flags' = Kept(active, FALSE) /\ mode' = "flags" /\ ~F'.pending
    BY <1>1, <2>1, <2>2, WriteCounted
  <2> QED BY <2>3 DEF Counted, CountOf, UnconfirmedRunsOnce
<1>4. ASSUME NEW data \in Pieces, VerifySucceeds(data)
      PROVE  Counted'
  <2>1. /\ Feed(data) /\ boots' = 0 /\ cuts' = cuts
        /\ WriteFlags(Kept(Toggled(flags.active), TRUE), Programmed(data), "off")
    BY <1>4 DEF VerifySucceeds, Feed
  <2>2. Programmed(data) \in [1..Pages -> Content]
    BY <2>1, ProgrammedType DEF IInv
  <2>3. /\ mode' = "flags" /\ next' = "off" /\ ~F'.pending
        /\ flags' = Kept(Toggled(flags.active), TRUE)
    BY <1>1, <1>2, <2>1, <2>2, WriteCounted
  <2> QED BY <1>2, <2>1, <2>3 DEF Counted, CountOf, UnconfirmedRunsOnce
<1> QED BY <1>3, <1>4

(* A step that writes no flags and cuts no power changes no count.         *)
LEMMA KeepsCount ==
  ASSUME Counted, UNCHANGED <<mode, next, flags, cuts, boots>>,
         F' \in {F, DefaultFlags}
  PROVE  Counted'
BY DEF Counted, CountOf, UnconfirmedRunsOnce, DefaultFlags

(* What FLASH and its data leave of the flags in flash.                    *)
LEMMA UpdateKeepsFlags ==
  ASSUME IInv, FlashRefused \/ TooMuchData \/ (\E fw \in Firmware : Flash(Size[fw]))
           \/ (\E data \in Pieces : MoreData(data) \/ VerifyFails(data))
  PROVE  UNCHANGED <<mode, next, flags, cuts, boots>> /\ F' \in {F, DefaultFlags}
<1>1. CASE FlashRefused \/ TooMuchData
  BY <1>1 DEF FlashRefused, TooMuchData, F
<1>2. ASSUME NEW fw \in Firmware, Flash(Size[fw])
      PROVE  UNCHANGED <<mode, next, flags, cuts, boots>> /\ F' \in {F, DefaultFlags}
  <2>1. cells'[FlagPage] \in {Erased, cells[FlagPage]}
    BY <1>2, Layout DEF Flash
  <2> QED BY <1>2, <2>1 DEF Flash, F, FlagsIn, Erased
<1>3. ASSUME NEW data \in Pieces, MoreData(data) \/ VerifyFails(data)
      PROVE  UNCHANGED <<mode, next, flags, cuts, boots>> /\ F' \in {F, DefaultFlags}
  <2>1. /\ Feed(data) /\ cells' = Programmed(data)
        /\ UNCHANGED <<mode, next, flags, cuts, boots>>
    BY <1>3 DEF MoreData, VerifyFails, Feed
  <2> QED BY <2>1, ProgrammedType DEF IInv, F
<1> QED BY <1>1, <1>2, <1>3

LEMMA StepCounted == ASSUME IInv, CInv, [Next]_vars PROVE CInv'
<1> SUFFICES ASSUME cuts' < 255 PROVE Counted'
  BY DEF CInv
<1>1. cuts \in Nat /\ cuts' \in {cuts, cuts + 1} /\ cuts < 255 /\ Counted
  <2>1. cuts \in Nat
    BY DEF IInv, TypeOK
  <2>2. cuts' \in {cuts, cuts + 1}
    BY DEF Next, vars, BootVerified, BootCounted, PowerUp, Rollback, ProgramFlags, PowerCut,
           FlashRefused, Flash, ReceiveData, TooMuchData, MoreData, VerifyFails,
           VerifySucceeds, Feed, BootOk
  <2> QED BY <2>1, <2>2 DEF CInv
<1>2. CASE BootVerified
  <2>1. /\ flags' = F /\ ~F.pending /\ F' = F /\ mode' = "loop"
    BY <1>2 DEF BootVerified, F
  <2> QED BY <2>1 DEF Counted, CountOf, UnconfirmedRunsOnce
<1>3. CASE ProgramFlags
  <2>1. /\ mode = "flags" /\ mode' = next /\ UNCHANGED <<next, flags, cuts, boots>>
        /\ F' = flags
    <3>1. cells' = [cells EXCEPT ![FlagPage] = Stored(flags)]
      BY <1>3 DEF ProgramFlags
    <3> QED BY <1>3, <3>1, Layout DEF ProgramFlags, IInv, TypeOK, F, FlagsIn, Stored
  <2>2. next \in {"off", "loop", "rollback"}
    BY DEF IInv, TypeOK
  <2> QED BY <1>1, <2>1, <2>2 DEF Counted, CountOf, UnconfirmedRunsOnce
<1>4. CASE PowerCut
  <2>1. /\ mode # "off" /\ mode' = "off" /\ cuts' = cuts + 1 /\ UNCHANGED boots /\ F' = F
    BY <1>4 DEF PowerCut, F
  <2>2. F.count \in Nat /\ boots \in Nat
    <3>1. F \in Flags /\ boots \in 0..3
      BY FlagsInType DEF IInv, TypeOK, F
    <3> QED BY <3>1 DEF Flags
  <2> QED BY <1>1, <2>1, <2>2 DEF Counted, CountOf, UnconfirmedRunsOnce
<1>5. CASE BootOk /\ ~flags.pending
  <2>1. UNCHANGED <<mode, next, flags, cuts, boots, cells>>
    BY <1>5 DEF BootOk
  <2> QED BY <1>1, <2>1, KeepsCount DEF F
<1>6. CASE UNCHANGED vars
  <2>1. UNCHANGED <<mode, next, flags, cuts, boots, cells>>
    BY <1>6 DEF vars
  <2> QED BY <1>1, <2>1, KeepsCount DEF F
<1> QED BY <1>1, <1>2, <1>3, <1>4, <1>5, <1>6, CountsBoot, CountsWrite, KeepsCount,
           UpdateKeepsFlags DEF Next, ReceiveData

-----------------------------------------------------------------------------
(* The selected firmware                                                   *)

(* Every firmware ends below the sector of the flags; its hash need not.   *)
FitsBelowFlags == \A fw \in Firmware : Size[fw] < FlagPage

LEMMA WholeUntouched ==
  ASSUME FitsBelowFlags, NEW cs, NEW ds, Intact(cs),
         \A i \in 1..(FlagPage - 1) : ds[i] = cs[i]
  PROVE  Intact(ds)
<1>1. PICK fw \in Firmware : \A i \in 1..Size[fw] : cs[i] = Code(fw, i)
  BY DEF Intact
<1>2. Size[fw] \in Nat /\ Size[fw] < FlagPage /\ FlagPage \in Nat
  BY SizeAssumption, Layout DEF FitsBelowFlags
<1>3. ASSUME NEW i \in 1..Size[fw] PROVE ds[i] = Code(fw, i)
  <2>1. i \in 1..(FlagPage - 1)
    BY <1>2
  <2> QED BY <1>1, <2>1
<1> QED BY <1>3 DEF Intact

(* A write of the flags touches only the flags' sector.                    *)
LEMMA WriteUntouched ==
  ASSUME NEW f, NEW then, NEW cs \in [1..Pages -> Content], WriteFlags(f, cs, then)
  PROVE  \A i \in 1..(FlagPage - 1) : cells'[i] = cs[i]
<1> SUFFICES ASSUME NEW i \in 1..(FlagPage - 1)
             PROVE  cells'[i] = cs[i]
  OBVIOUS
<1>1. i \in 1..Pages /\ i \notin FlagPages
  BY Layout DEF FlagPages
<1> QED BY <1>1 DEF WriteFlags

LEMMA InitWhole == ASSUME Init PROVE WInv
<1>1. F = DefaultFlags
  BY Layout DEF Init, F, FlagsIn, Erased
<1> QED BY <1>1 DEF Init, WInv, Swapped, Whole, DefaultFlags

LEMMA WholeBoot ==
  ASSUME IInv, Swapped, Whole, FitsBelowFlags, BootVerified \/ BootCounted
  PROVE  Swapped' /\ Whole'
<1>1. F \in Flags /\ cells \in [1..Pages -> Content]
  BY FlagsInType DEF IInv, TypeOK, F
<1>2. flashMode' = FALSE
  BY DEF BootVerified, BootCounted, PowerUp
<1>3. CASE BootVerified
  <2>1. flags' = F /\ ~F.pending /\ F' = F /\ cells' = cells /\ mode' = "loop"
    BY <1>3 DEF BootVerified, F
  <2> QED BY <1>2, <2>1 DEF Swapped, Whole
<1>4. CASE BootCounted
  <2> DEFINE n == (F.count + 1) % 256
             f == [F EXCEPT !.count = n]
             then == IF n > 1 THEN "rollback" ELSE "loop"
  <2>1. F.pending /\ WriteFlags(f, cells, then)
    BY <1>4 DEF BootCounted, F
  <2>2. n \in 0..255
    <3>1. F.count \in 0..255
      BY <1>1 DEF Flags
    <3> QED BY <3>1, NextCount
  <2>3. f \in Flags /\ f.active = F.active /\ f.pending = F.pending
    BY <1>1, <2>2 DEF Flags
  <2> HIDE DEF n, f, then
  <2>4. /\ flags' = f /\ mode' = "flags" /\ next' = then
        /\ ~F'.pending /\ F'.active = 0
    BY <1>1, <2>1, <2>3, WriteCounted
  <2>5. F.active = 1
    BY <2>1 DEF Swapped
  <2>6. Intact(cells')
    BY <1>1, <2>1, <2>5, WriteUntouched, WholeUntouched DEF Whole
  <2> QED BY <1>2, <2>1, <2>3, <2>4, <2>5, <2>6 DEF Swapped, Whole
<1> QED BY <1>3, <1>4

(* Rolling back deselects B, confirming keeps what is selected.            *)
LEMMA WholeWrite ==
  ASSUME IInv, Swapped, Whole, FitsBelowFlags, Rollback \/ (BootOk /\ flags.pending)
  PROVE  Swapped' /\ Whole'
<1> DEFINE Kept(active) == [active |-> active, pending |-> FALSE, count |-> 0]
<1>1. \A active \in {0, 1} : Kept(active) \in Flags
  BY DEF Flags
<1>2. /\ flags.active \in {0, 1} /\ cells \in [1..Pages -> Content]
      /\ mode # "off" /\ flags.pending
  BY DEF IInv, TypeOK, Flags, Swapped, Rollback, BootOk, Listening
<1>3. flags.active = 1
  BY <1>2 DEF Swapped
<1>4. PICK active \in {0, 1}, then \in {"off", "loop"} :
        /\ WriteFlags(Kept(active), cells, then)
        /\ UNCHANGED flashMode
        /\ active = 1 => ~flashMode
  <2>1. CASE Rollback
    BY <1>3, <2>1 DEF Rollback, Toggled, flashVars
  <2>2. CASE BootOk
    BY <1>2, <1>3, <2>2 DEF BootOk, flashVars, Swapped
  <2> QED BY <2>1, <2>2
<1>5. /\ flags' = Kept(active) /\ mode' = "flags" /\ next' = then
      /\ ~F'.pending /\ F'.active = 0
  BY <1>1, <1>2, <1>4, WriteCounted
<1>6. Intact(cells')
  BY <1>2, <1>3, <1>4, WriteUntouched, WholeUntouched DEF Whole
<1> QED BY <1>4, <1>5, <1>6 DEF Swapped, Whole

(* Swapping: what has been verified is a whole firmware, below the flags.  *)
LEMMA WholeSwap ==
  ASSUME IInv, Swapped, FitsBelowFlags, NEW data \in Pieces, VerifySucceeds(data)
  PROVE  Swapped' /\ Whole'
<1> DEFINE f == [active |-> Toggled(flags.active), pending |-> TRUE, count |-> 0]
           page == Programmed(data)
<1>1. /\ Feed(data) /\ WriteFlags(f, page, "off") /\ flashMode' = FALSE
      /\ Verifies(page)
  BY DEF VerifySucceeds
<1>2. page \in [1..Pages -> Content]
  BY <1>1, ProgrammedType DEF IInv
<1>3. f \in Flags /\ f.active = 1
  BY <1>1 DEF IInv, TypeOK, Flags, Toggled, Feed, Swapped
<1>4. Intact(page)
  BY <1>1 DEF Verifies, Intact
<1> HIDE DEF f, page
<1>5. /\ flags' = f /\ mode' = "flags" /\ next' = "off"
      /\ ~F'.pending /\ F'.active = 0
  BY <1>1, <1>2, <1>3, WriteCounted
<1>6. Intact(cells')
  BY <1>1, <1>2, <1>4, WriteUntouched, WholeUntouched
<1> QED BY <1>1, <1>3, <1>5, <1>6 DEF Swapped, Whole

(* Receiving: partition B is not selected, by the flags in flash neither.  *)
LEMMA WholeUpdate ==
  ASSUME IInv, Swapped, ~fromB',
         TooMuchData \/ (\E fw \in Firmware : Flash(Size[fw]))
           \/ (\E data \in Pieces : MoreData(data) \/ VerifyFails(data))
  PROVE  Swapped' /\ Whole'
<1>1. /\ UNCHANGED <<mode, next, flags, cuts, boots>> /\ F' \in {F, DefaultFlags}
      /\ mode = "loop" /\ F \in {flags, DefaultFlags}
  BY UpdateKeepsFlags DEF IInv, FlagsFollow, TooMuchData, Flash, Listening, MoreData,
     VerifyFails, Feed
<1>2. flags.active = 0
  <2>1. CASE \E fw \in Firmware : Flash(Size[fw])
    BY <1>1, <2>1 DEF Flash, IInv, TypeOK, Flags
  <2>2. CASE flashMode
    BY <1>1, <2>2 DEF Swapped
  <2> QED BY <2>1, <2>2 DEF TooMuchData, MoreData, VerifyFails, Feed
<1>3. F'.active = 0 /\ (F'.pending => flags.pending)
  BY <1>1, <1>2 DEF DefaultFlags
<1> QED BY <1>1, <1>2, <1>3 DEF Swapped, Whole

LEMMA StepWhole == ASSUME IInv, WInv, FitsBelowFlags, [Next]_vars PROVE WInv'
<1> SUFFICES ASSUME ~fromB' PROVE Swapped' /\ Whole'
  BY DEF WInv
<1>1. ~fromB /\ Swapped /\ Whole
  <2>1. fromB => fromB'
    BY DEF Next, vars, flashVars, BootVerified, BootCounted, PowerUp, Rollback, ProgramFlags,
           PowerCut, FlashRefused, Flash, ReceiveData, TooMuchData, MoreData, VerifyFails,
           VerifySucceeds, Feed, BootOk
  <2> QED BY <2>1 DEF WInv
<1>2. CASE ProgramFlags
  <2>1. /\ mode = "flags" /\ mode' = next /\ cells' = [cells EXCEPT ![FlagPage] = Stored(flags)]
        /\ UNCHANGED <<next, flags, flashMode>> /\ cells \in [1..Pages -> Content]
    BY <1>2 DEF ProgramFlags, flashVars, IInv, TypeOK
  <2>2. F' = flags
    BY <2>1, Layout DEF F, FlagsIn, Stored
  <2>3. \A i \in 1..(FlagPage - 1) : cells'[i] = cells[i]
    BY <2>1, Layout
  <2>4. flags.active = 1 => Intact(cells')
    BY <1>1, <2>1, <2>3, WholeUntouched DEF Whole
  <2> QED BY <1>1, <2>1, <2>2, <2>4 DEF Swapped, Whole
<1>3. CASE PowerCut
  BY <1>1, <1>3 DEF PowerCut, Swapped, Whole, F
<1>4. CASE FlashRefused \/ (BootOk /\ ~flags.pending) \/ UNCHANGED vars
  <2>1. UNCHANGED <<mode, next, flags, cells, flashMode>>
    BY <1>4 DEF FlashRefused, BootOk, vars, flashVars
  <2> QED BY <1>1, <2>1 DEF Swapped, Whole, F
<1> QED BY <1>1, <1>2, <1>3, <1>4, WholeBoot, WholeWrite, WholeSwap, WholeUpdate
        DEF Next, ReceiveData

-----------------------------------------------------------------------------

(* Every variable has its type, for every layout and every firmware size.  *)
THEOREM TypeCorrect == Spec => []TypeOK
  BY SpecIInv, PTL DEF IInv

(* A confirmed firmware is never rolled back, wherever the power is cut.   *)
THEOREM ConfirmedIsKept == Spec => RollbackOnlyUnconfirmed
<1>1. ASSUME IInv, [Next]_vars, mode = "rollback"
      PROVE  ~confirmed /\ boots >= 2
  BY <1>1 DEF IInv, FlagsFollow
<1>2. IInv /\ [Next]_vars =>
        [mode = "rollback" /\ mode' = "flags" => ~confirmed /\ boots >= 2]_vars
  BY <1>1
<1> QED BY <1>2, SpecIInv, PTL DEF Spec, RollbackOnlyUnconfirmed

(* "If no BOOT_OK after 2 boots -> rollback": an unconfirmed firmware      *)
(* reaches the main loop in its first boot only, until the power has been  *)
(* cut 255 times: then the count of the boots, a byte, wraps.              *)
THEOREM RunsOnceBelowWrap == Spec => [](cuts < 255 => UnconfirmedRunsOnce)
<1>1. CInv => (cuts < 255 => UnconfirmedRunsOnce)
  BY DEF CInv, Counted
<1> QED BY <1>1, SpecIInv, InitCounted, StepCounted, PTL DEF Spec

(* No power cut, no failed update and no rollback loses the selected       *)
(* firmware: only an update that begins while partition B is selected can, *)
(* for every firmware that ends below the sector of the flags.             *)
THEOREM SelectedIsKept ==
  ASSUME FitsBelowFlags
  PROVE  Spec => []IntactUnlessFromB
<1>1. WInv => IntactUnlessFromB
  BY DEF WInv, Whole, Intact, IntactUnlessFromB, SelectedIsIntact, F
<1>2. IInv /\ WInv /\ [Next]_vars => WInv'
  BY StepWhole
<1> QED BY <1>1, <1>2, SpecIInv, InitWhole, PTL DEF Spec
=============================================================================
