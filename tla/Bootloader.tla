----------------------------- MODULE Bootloader -----------------------------
(***************************************************************************)
(* The update of the firmware over the serial port (bootloader.c, and its  *)
(* callers in serial_proto.c): FLASH fills partition B, the hash is        *)
(* verified, the boot flags are swapped and the device reboots; a firmware *)
(* that is not confirmed by BOOT_OK is rolled back.                        *)
(*                                                                         *)
(* Partition B is an array of pages, programmed page by page and erased by *)
(* sectors; its last sector is also the sector of the boot flags.  The     *)
(* power may go at any time, between the erasing and the programming of    *)
(* the flags too.  Nothing in the repository reads active_part to choose   *)
(* what to boot; "selected" is what a boot selector reading it would take. *)
(***************************************************************************)
EXTENDS Naturals, Sequences

CONSTANTS
  Firmware,     \* the firmwares a host may send
  Size,         \* their sizes, in pages; the hash takes one page more
  Pages,        \* pages of partition B
  SectorPages,  \* pages of a sector, a divisor of Pages
  MaxCuts       \* bound: power cuts

ASSUME LayoutAssumption ==
  /\ Pages \in Nat /\ SectorPages \in Nat \ {0}
  /\ SectorPages < Pages /\ Pages % SectorPages = 0
ASSUME SizeAssumption == Size \in [Firmware -> 1..Pages]
ASSUME BoundAssumption == MaxCuts \in Nat

VARIABLES
  mode,       \* "off", "loop", "rollback", or "flags": their sector is just erased
  next,       \* in "flags": the mode that follows
  flags,      \* _flags
  flashMode,  \* _flash_mode
  expected,   \* _flash_expected_size, in pages
  received,   \* _flash_received, in pages
  cells,      \* partition B, page by page
  reply,      \* the device's answer to the last input, "none" if it gave none
  cuts,       \* power cuts so far
  boots,      \* history: power-ups since the last swap, 3 for more than two
  fromB,      \* history: an update has begun while partition B was selected
  confirmed   \* history: BOOT_OK has been handled since the last swap

flashVars == <<flashMode, expected, received, fromB>>
vars == <<mode, next, flags, flashVars, cells, reply, cuts, boots, confirmed>>

FlagPage == Pages - SectorPages + 1   \* where FLASH_BOOT_FLAG_OFFSET points
FlagPages == FlagPage..Pages

Flags == [active : {0, 1}, pending : BOOLEAN, count : 0..255]
DefaultFlags == [active |-> 0, pending |-> FALSE, count |-> 0]

(* What a page may hold; "junk" is whatever no firmware has at that place. *)
Erased       == [kind |-> "erased"]
Junk         == [kind |-> "junk"]
Code(fw, i)  == [kind |-> "code", fw |-> fw, at |-> i]
Hash(fw)     == [kind |-> "hash", fw |-> fw]
Stored(f)    == [kind |-> "flags", flags |-> f]
Data(i)      == {Code(fw, i) : fw \in Firmware} \cup {Hash(fw) : fw \in Firmware} \cup {Junk}
Content      == (UNION {Data(i) : i \in 1..Pages}) \cup {Erased}
                  \cup [kind : {"flags"}, flags : Flags]

-----------------------------------------------------------------------------
(* The boot flags                                                          *)

(* read_boot_flags: no magic, no flags.                                    *)
FlagsIn(cs) == IF cs[FlagPage].kind = "flags" THEN cs[FlagPage].flags ELSE DefaultFlags

(* write_boot_flags, over the pages cs: it erases the sector ...           *)
WriteFlags(f, cs, then) ==
  /\ flags' = f
  /\ mode' = "flags" /\ next' = then
  /\ cells' = [i \in 1..Pages |-> IF i \in FlagPages THEN Erased ELSE cs[i]]

(* ... and programs its first page.                                        *)
ProgramFlags ==
  /\ mode = "flags"
  /\ mode' = next
  /\ cells' = [cells EXCEPT ![FlagPage] = Stored(flags)]
  /\ UNCHANGED <<next, flags, flashVars, reply, cuts, boots, confirmed>>

Toggled(part) == 1 - part

-----------------------------------------------------------------------------
(* Power                                                                   *)

Init ==
  /\ mode = "off" /\ next = "off"
  /\ flags = DefaultFlags
  /\ flashMode = FALSE /\ expected = 0 /\ received = 0
  /\ cells = [i \in 1..Pages |-> Erased]
  /\ reply = "none"
  /\ cuts = 0 /\ boots = 0 /\ fromB = FALSE /\ confirmed = FALSE

(* bootloader_init: flags that await verification count the boot, and from *)
(* the second boot on lead to a rollback, which writes the flags again.    *)
Booted == IF boots < 3 THEN boots + 1 ELSE boots

PowerUp ==
  /\ mode = "off"
  /\ boots' = Booted
  /\ flashMode' = FALSE /\ expected' = 0 /\ received' = 0 /\ reply' = "none"
  /\ UNCHANGED <<cuts, confirmed, fromB>>

BootVerified ==
  /\ PowerUp
  /\ ~FlagsIn(cells).pending
  /\ flags' = FlagsIn(cells)
  /\ mode' = "loop" /\ next' = "loop"
  /\ UNCHANGED cells

\* Mutant: one boot more before the rollback.
BootCounted_OffByOne ==
  LET n == (FlagsIn(cells).count + 1) % 256
  IN /\ PowerUp
     /\ FlagsIn(cells).pending
     /\ WriteFlags([FlagsIn(cells) EXCEPT !.count = n], cells,
                   IF n > 2 THEN "rollback" ELSE "loop")

BootCounted ==
  LET n == (FlagsIn(cells).count + 1) % 256
  IN /\ PowerUp
     /\ FlagsIn(cells).pending
     /\ WriteFlags([FlagsIn(cells) EXCEPT !.count = n], cells,
                   IF n > 1 THEN "rollback" ELSE "loop")

Rollback ==
  /\ mode = "rollback"
  /\ WriteFlags([active |-> Toggled(flags.active), pending |-> FALSE, count |-> 0],
                cells, "off")
  /\ UNCHANGED <<flashVars, reply, cuts, boots, confirmed>>

PowerCut ==
  /\ mode # "off" /\ cuts < MaxCuts
  /\ mode' = "off" /\ cuts' = cuts + 1
  /\ UNCHANGED <<next, flags, flashVars, cells, reply, boots, confirmed>>

-----------------------------------------------------------------------------
(* FLASH                                                                   *)

SectorEnd(n) == ((n + SectorPages - 1) \div SectorPages) * SectorPages

(* Commands are read outside flash mode, and those that were in the FIFO   *)
(* behind FLASH also after it.                                             *)
Listening == mode = "loop" /\ (flashMode => received = 0)

(* handle_flash and bootloader_start_flash: a size that is missing, zero   *)
(* or leaves no room for the hash is refused.                              *)
FlashRefused ==
  /\ Listening
  /\ reply' = "ERR"
  /\ UNCHANGED <<mode, next, flags, flashVars, cells, cuts, boots, confirmed>>

Flash(n) ==
  /\ Listening
  /\ n <= Pages - 1
  /\ flashMode' = TRUE /\ expected' = n /\ received' = 0
  /\ fromB' = (fromB \/ flags.active = 1)
  /\ cells' = [i \in 1..Pages |-> IF i <= SectorEnd(n + 1) THEN Erased ELSE cells[i]]
  /\ reply' = "READY"
  /\ UNCHANGED <<mode, next, flags, cuts, boots, confirmed>>

(* process_flash_data with one or two pages of the host's bytes.           *)
Programmed(data) == [i \in 1..Pages |->
  IF i \in (received + 1)..(received + Len(data)) THEN data[i - received] ELSE cells[i]]

(* More than was announced: bootloader_feed_data programs nothing.         *)
TooMuchData ==
  /\ mode = "loop" /\ flashMode
  /\ received + 2 > expected + 1
  /\ flashMode' = FALSE /\ reply' = "ERR"
  /\ UNCHANGED <<mode, next, flags, expected, received, cells, cuts, boots, fromB,
                 confirmed>>

\* Mutant: more data than announced is programmed all the same.
Feed_Unchecked(data) ==
  /\ mode = "loop" /\ flashMode
  /\ received' = received + Len(data)
  /\ UNCHANGED <<expected, cuts, fromB>>

Feed(data) ==
  /\ mode = "loop" /\ flashMode
  /\ received + Len(data) <= expected + 1
  /\ received' = received + Len(data)
  /\ UNCHANGED <<expected, cuts, fromB>>

MoreData(data) ==
  /\ Feed(data)
  /\ received' < expected + 1
  /\ cells' = Programmed(data)
  /\ reply' = "none"
  /\ UNCHANGED <<mode, next, flags, flashMode, boots, confirmed>>

\* Mutant: the hash is compared, but not over every page of the firmware.
Verifies_LastPageOnly(cs) == \E fw \in Firmware :
  /\ Size[fw] = expected
  /\ cs[expected] = Code(fw, expected)
  /\ cs[expected + 1] = Hash(fw)

(* bootloader_finalize: the pages before the hash are the firmware.        *)
Verifies(cs) == \E fw \in Firmware :
  /\ Size[fw] = expected
  /\ \A i \in 1..expected : cs[i] = Code(fw, i)
  /\ cs[expected + 1] = Hash(fw)

(* It returns FALSE, and its caller answers only if it returns TRUE.       *)
VerifyFails(data) ==
  /\ Feed(data)
  /\ received' >= expected + 1
  /\ ~Verifies(Programmed(data))
  /\ flashMode' = FALSE
  /\ cells' = Programmed(data)
  /\ reply' = "none"
  /\ UNCHANGED <<mode, next, flags, boots, confirmed>>

VerifySucceeds(data) ==
  /\ Feed(data)
  /\ received' >= expected + 1
  /\ Verifies(Programmed(data))
  /\ flashMode' = FALSE
  /\ WriteFlags([active |-> Toggled(flags.active), pending |-> TRUE, count |-> 0],
                Programmed(data), "off")
  /\ reply' = "none"
  /\ boots' = 0 /\ confirmed' = FALSE

\* Mutant: the confirmation is not written to flash.
BootOk_RamOnly ==
  /\ Listening
  /\ reply' = "OK"
  /\ IF flags.pending
       THEN /\ flags' = [flags EXCEPT !.pending = FALSE, !.count = 0]
            /\ confirmed' = TRUE
       ELSE UNCHANGED <<flags, confirmed>>
  /\ UNCHANGED <<mode, next, cells, flashVars, cuts, boots>>

(* BOOT_OK: handle_boot_ok answers OK in any case.                         *)
BootOk ==
  /\ Listening
  /\ reply' = "OK"
  /\ IF flags.pending
       THEN /\ WriteFlags([active |-> flags.active, pending |-> FALSE, count |-> 0],
                          cells, "loop")
            /\ confirmed' = TRUE
       ELSE UNCHANGED <<mode, next, flags, cells, confirmed>>
  /\ UNCHANGED <<flashVars, cuts, boots>>

Pieces == {<<a>> : a \in Data(received + 1)}
            \cup {<<a, b>> : a \in Data(received + 1), b \in Data(received + 2)}

ReceiveData == TooMuchData \/ \E data \in Pieces :
                 MoreData(data) \/ VerifyFails(data) \/ VerifySucceeds(data)

Next ==
  \/ BootVerified \/ BootCounted \/ Rollback \/ ProgramFlags \/ PowerCut
  \/ FlashRefused \/ (\E fw \in Firmware : Flash(Size[fw])) \/ ReceiveData \/ BootOk

Spec == Init /\ [][Next]_vars
-----------------------------------------------------------------------------
(* Properties                                                              *)

(* Every variable has its type, the received pages never exceed the        *)
(* announced ones.                                                         *)
TypeOK ==
  /\ mode \in {"off", "loop", "rollback", "flags"}
  /\ next \in {"off", "loop", "rollback"}
  /\ flags \in Flags
  /\ flashMode \in BOOLEAN
  /\ expected \in 0..Pages /\ received \in 0..(expected + 1)
  /\ cells \in [1..Pages -> Content]
  /\ reply \in {"none", "READY", "ERR", "OK"}
  /\ cuts \in Nat /\ boots \in 0..3
  /\ fromB \in BOOLEAN /\ confirmed \in BOOLEAN

(* A firmware is rolled back only if it has not been confirmed and this is *)
(* at least its second boot, wherever the power was cut: no torn write of  *)
(* the flags makes a confirmed firmware look unconfirmed.                  *)
RollbackOnlyUnconfirmed ==
  [][mode = "rollback" /\ mode' = "flags" => ~confirmed /\ boots >= 2]_vars

(* "If no BOOT_OK after 2 boots -> rollback": an unconfirmed firmware      *)
(* reaches the main loop in its first boot only.                           *)
UnconfirmedRunsOnce == mode = "loop" /\ flags.pending => boots <= 1

(* If the flags select partition B, a whole firmware is there.             *)
SelectedIsIntact ==
  FlagsIn(cells).active = 1 =>
    \E fw \in Firmware : \A i \in 1..Size[fw] : cells[i] = Code(fw, i)

(* The selected firmware is lost in one way only: by an update that begins *)
(* while partition B, which every update erases, is selected.  No cut of   *)
(* the power, no failed update and no rollback loses it.                   *)
IntactUnlessFromB == ~fromB => SelectedIsIntact

=============================================================================
