-------------------------- MODULE MCTesterServices --------------------------
(***************************************************************************)
(* Calls of every service against an ECU with a part number of two bytes,  *)
(* a VIN that is written after an unlock only, an odometer whose           *)
(* identifier can overlap with the end of a value, and two trouble codes   *)
(* of different groups.  Some calls are refused: a session, an identifier, *)
(* a length, a trouble code group that the ECU does not know.              *)
(***************************************************************************)
EXTENDS TesterServices

MCRegions == << [base_address |-> 0, size |-> 1, protected |-> FALSE] >>
MCByte == {0}
MCLevels == {1}
MCSeeds == {0, 1, 2}
MCDrawnSeeds == {0, 1}
MCNonzero == MCSeeds \ {0}
MCKeyOf == [s \in MCSeeds |-> 2 - s]

PART == <<2, 3>>
VIN == <<2, 4>>
ODOMETER == <<1, 1>>
MCUnknownDid == <<9, 9>>
MCDids == {PART, VIN, ODOMETER}
MCDidTable ==
  [d \in MCDids |-> [data_len |-> IF d = PART THEN 2 ELSE 1, writable |-> TRUE,
                     min_write_session |-> 3, requires_security |-> d = VIN]]
MCDidValues == {<<0, 2>>, <<0, 1>>, <<7>>, <<8>>}
MCDidDefaults == [d \in MCDids |-> IF d = PART THEN <<0, 2>> ELSE <<7>>]
MCDtcCodes == << <<1, 0, 1>>, <<2, 0, 2>> >>
MCDtcDefaults == <<40, 4>>

MCBuses == {"clean", "lossy"}
MCCalls ==
  { change_session(3), change_session(9),
    tester_present(FALSE), tester_present(TRUE),
    unlock(1),
    read(<<PART>>), read(<<PART, ODOMETER>>), read(<<ODOMETER, VIN, PART>>),
    read(<<MCUnknownDid>>),
    write(PART, <<0, 1>>), write(PART, <<8>>), write(VIN, <<8>>), write(VIN, <<>>),
    ecu_reset(1), comm_control(0, 1),
    read_count(255), read_by_status(8), read_all,
    clear(<<255, 255, 255>>), clear(<<2, 0, 0>>), clear(<<3, 0, 0>>) }

MCClean == {"clean"}
MCCounts == {read_count(255)}
MCLate == {"late"}
MCUnlocks == {unlock(1)}
=============================================================================
