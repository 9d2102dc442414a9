------------------------- MODULE MCFlashProgrammer -------------------------
(***************************************************************************)
(* Flash jobs on a three-cell flash: a download of three one-byte blocks,  *)
(* so that the block counter wraps, a shorter one that overlaps it, and an *)
(* upload in two blocks, with address and length fields of different       *)
(* lengths, and an upload whose length does not fit its field.             *)
(***************************************************************************)
EXTENDS FlashProgrammer

MCRegions == << [base_address |-> 0, size |-> 3, protected |-> FALSE] >>
MCByte == {0, 1}
MCBuses == {"clean", "faulty"}
MCJobs ==
  { [kind |-> "download", address |-> 0, addr_len |-> 2,
     length |-> 3, size_len |-> 2, bytes |-> <<0, 1, 0>>],
    [kind |-> "download", address |-> 1, addr_len |-> 1,
     length |-> 2, size_len |-> 2, bytes |-> <<0, 0>>],
    [kind |-> "upload", address |-> 0, addr_len |-> 1,
     length |-> 3, size_len |-> 2, bytes |-> <<>>],
    [kind |-> "upload", address |-> 1, addr_len |-> 2,
     length |-> 2, size_len |-> 1, bytes |-> <<>>] }
MCLossy == {"lossy"}
MCDownloads == {j \in MCJobs : j.kind = "download"}

\* CleanJobSucceeds is about jobs the device accepts, and all of these are.
ASSUME AcceptedAssumption == JobsAccepted
=============================================================================
