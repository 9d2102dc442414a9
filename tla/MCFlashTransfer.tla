-------------------------- MODULE MCFlashTransfer --------------------------
(***************************************************************************)
(* FlashTransfer on a six-cell flash: a protected region, a writable one   *)
(* behind it, and a hole at the end.  WordMod leaves addresses above the   *)
(* flash, so that address + length can wrap; SeqMax is below the number of *)
(* blocks the writable region takes, so the block counter wraps too.       *)
(***************************************************************************)
EXTENDS FlashTransfer

MCRegions == << [base_address |-> 0, size |-> 2, protected |-> TRUE],
                [base_address |-> 2, size |-> 3, protected |-> FALSE] >>
MCByte == {0, 1}

============================================================================
