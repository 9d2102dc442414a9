------------------------------ MODULE MCIsoTp ------------------------------
(***************************************************************************)
(* IsoTp with short frames and one-bit sequence numbers.  On a clean bus   *)
(* the PDUs take one frame, part of a block, exactly one, one block and a  *)
(* frame (so that sequence numbers repeat), more than the receiver's       *)
(* buffer, and, on classic CAN, more than a first frame can announce; on   *)
(* CAN FD, single frames of both forms and first frames of both forms.     *)
(* The faulty bus makes do with fewer lengths.                             *)
(***************************************************************************)
EXTENDS IsoTp

MCBuses == {"clean", "faulty"}
MCLosable == {"SF", "FF", "CF", "FC"}
MCModes == BOOLEAN
MCBufSize == [m \in BOOLEAN |-> IF m THEN 11 ELSE 7]
MCLengths ==
  [b \in MCBuses |->
    [m \in MCModes |->
      CASE b = "clean" /\ ~ m -> {1, 3, 5, 7, 8, 9}
        [] b = "clean" /\ m -> {2, 3, 4, 8, 9, 10, 11, 12}
        [] b = "faulty" /\ ~ m -> {2, 7, 8}
        [] b = "faulty" /\ m -> {3, 11}]]
=============================================================================
