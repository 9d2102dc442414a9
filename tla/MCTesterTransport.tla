------------------------- MODULE MCTesterTransport -------------------------
(***************************************************************************)
(* Requests and their responses, each of one frame or of a first frame and *)
(* up to three consecutive ones, with short frames and one-bit sequence    *)
(* numbers, on classic CAN and on CAN FD with both forms of single and     *)
(* first frames.                                                           *)
(***************************************************************************)
EXTENDS TesterTransport

MCBuses == {"clean", "faulty"}
MCLosable == {"SF", "FF", "CF", "FC"}
MCModes == BOOLEAN
MCBufSize == [m \in BOOLEAN |-> IF m THEN 11 ELSE 7]
MCLengths ==
  [b \in MCBuses |->
    [m \in MCModes |->
      CASE b = "clean" /\ ~ m -> {1, 3, 7}
        [] b = "clean" /\ m -> {3, 7, 10}
        [] b = "faulty" /\ ~ m -> {2, 7}
        [] b = "faulty" /\ m -> {2, 11}]]

\* What the theorems about the two refinements assume holds of this instance.
ASSUME CallersAssumption == NoBlocks /\ RequestsFit /\ BoundedBy(11)
=============================================================================
