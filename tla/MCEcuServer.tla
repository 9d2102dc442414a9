---------------------------- MODULE MCEcuServer ----------------------------
(***************************************************************************)
(* The server with a one-cell flash, two security levels and two DIDs: one *)
(* read-only, one writable in the extended session after an unlock.  The   *)
(* clock runs to the end of one lockout.                                   *)
(***************************************************************************)
EXTENDS EcuServer

MCRegions == << [base_address |-> 0, size |-> 1, protected |-> FALSE] >>
MCByte == {0, 1}
MCLevels == {1, 3}
MCSeeds == {0, 1}
MCKeyOf == [s \in MCSeeds |-> 1 - s]
HW_VERSION == <<241, 145>>
VIN == <<241, 144>>
MCDids == {HW_VERSION, VIN}
MCUnknownDid == <<0, 0>>
MCDidTable ==
  [d \in MCDids |-> [data_len |-> 1, writable |-> d # HW_VERSION,
                     min_write_session |-> EXTENDED,
                     requires_security |-> d = VIN]]
MCDidValues == {<<0>>, <<1>>, <<1, 1>>}
MCDidDefaults == [d \in MCDids |-> <<0>>]
MCDtcCodes == << <<1, 0, 1>> >>
MCDtcDefaults == <<40>>

\* No guard reads an old response, so states that differ only in the responses
\* have the same successors: the view leaves the responses out.  TLC evaluates
\* the action properties on every step it generates, responses included.
MCView == <<now, sec, issued, failures, data, xfer, origin, image, counters,
            session, did, dtc, granted>>
============================================================================
