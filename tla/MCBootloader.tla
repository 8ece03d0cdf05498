---------------------------- MODULE MCBootloader ----------------------------
(* A small instance of Bootloader: a partition of three sectors of two      *)
(* pages and two firmwares that, with their hashes, fit below the flags.    *)
EXTENDS Bootloader, TLC

CONSTANTS old, new

Two == {old, new}
Fitting == old :> 2 @@ new :> 3
=============================================================================
