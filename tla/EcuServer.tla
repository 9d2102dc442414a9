----------------------------- MODULE EcuServer -----------------------------
(***************************************************************************)
(* The ECU simulator's request handling (src/src/ecusim/ecusim.c): the     *)
(* dispatcher, the diagnostic session (src/src/core/session.c), the data   *)
(* identifiers and ECUReset (data.c), the trouble codes (dtc.c), composed  *)
(* with SecurityAccess and FlashTransfer.                                  *)
(*                                                                         *)
(* ecusim_run handles one request at a time to its end, so a request is    *)
(* one step.  Between requests only the clock moves.                       *)
(*                                                                         *)
(* flashReply and secReply are the last responses of those two services;   *)
(* reply is the last response of all the others.                           *)
(***************************************************************************)
EXTENDS Integers, Sequences

CONSTANTS
  \* of FlashTransfer
  WordMod, FlashSize, Regions, Byte, EraseValue, MaxBlockData, SeqMax, MaxDataLen,
  \* of SecurityAccess
  Levels, Seeds, KeyOf, MaxAttempts, LockoutSecs, SeedTimeoutSecs, MaxTime,
  \* of the server
  Dids,         \* the identifiers of the registry, as <<high byte, low byte>>
  UnknownDid,   \* an identifier that is not in the registry
  DidTable,     \* their UdsDidEntry
  DidValues,    \* byte sequences to write
  DidDefaults,  \* the contents that ecusim_populate_defaults registers
  DtcCodes,     \* the trouble codes of the registry, as three bytes, in its order
  DtcDefaults,  \* the status bytes that ecusim_populate_defaults registers
  MaxDidList    \* 16, the size of did_list in the dispatcher

VARIABLES
  now, sec, secReply, issued, failures,                    \* SecurityAccess
  data, xfer, flashReply, origin, image, counters,         \* FlashTransfer
  session,     \* UdsCoreSession: type, security_level, last_activity
  did,         \* contents of the DID registry
  dtc,         \* status bytes of the DTC registry
  reply,       \* response of the last session, data or DTC service
  granted      \* history: level of the last right key since the last reset

Sec == INSTANCE SecurityAccess WITH reply <- secReply
Flash == INSTANCE FlashTransfer WITH reply <- flashReply

secVars == <<now, sec, secReply, issued, failures>>
flashVars == <<data, xfer, flashReply, origin, image, counters>>
coreVars == <<session, did, dtc, reply>>
vars == <<secVars, flashVars, coreVars, granted>>

\* UdsSessionType
DEFAULT == 1
PROGRAMMING == 2
EXTENDED == 3
SAFETY == 4
SessionTypes == {DEFAULT, PROGRAMMING, EXTENDED, SAFETY}

UdsCoreSession == [type : SessionTypes, security_level : Levels \cup {0},
                   last_activity : Nat]
UdsDidEntry == [data_len : Nat, writable : BOOLEAN, min_write_session : SessionTypes,
                requires_security : BOOLEAN]

NoReply == "none"
Positive == "positive"
Nrcs == {"SERVICE_NOT_SUPPORTED", "SUB_FUNCTION_NOT_SUPPORTED",
         "INCORRECT_MSG_LEN_OR_FORMAT", "REQUEST_OUT_OF_RANGE",
         "SECURITY_ACCESS_DENIED"}

ASSUME ServerAssumption ==
  /\ MaxDidList \in Nat
  /\ Dids \subseteq Nat \X Nat /\ UnknownDid \notin Dids
  /\ DidTable \in [Dids -> UdsDidEntry]
  /\ DidDefaults \in [Dids -> DidValues]
  /\ \A d \in Dids : Len(DidDefaults[d]) = DidTable[d].data_len
  /\ DtcCodes \in Seq(Nat \X Nat \X Nat)
  /\ DtcDefaults \in [DOMAIN DtcCodes -> Nat]

ASSUME ComponentsAssumption ==
  Sec!SecurityAssumption /\ Flash!SizesAssumption /\ Flash!RegionsAssumption

\* Every service other than 0x27 and 0x34 .. 0x37 leaves those components alone.
OthersUnchanged == UNCHANGED <<secVars, flashVars, granted>>

\* A response, negative or positive, and no change of state
Respond(r) ==
  /\ reply' = r
  /\ UNCHANGED <<session, did, dtc>>
  /\ OthersUnchanged

----------------------------------------------------------------------------
(* Sessions: session.c *)

uds_core_session_init ==
  [type |-> DEFAULT, security_level |-> 0, last_activity |-> now]

NewSession(session_type) ==
  [type |-> session_type,
   security_level |-> IF session_type = DEFAULT THEN 0 ELSE session.security_level,
   last_activity |-> now]

\* Mutant of uds_core_dsc: a session change also clears the attempt counter.
DscClearsAttempts(session_type) ==
  /\ session_type \in SessionTypes
  /\ session' = NewSession(session_type)
  /\ reply' = Positive
  /\ sec' = [sec EXCEPT !.fail_count = 0, !.locked = FALSE]
  /\ UNCHANGED <<did, dtc, now, secReply, issued, failures, flashVars, granted>>

\* Mutant of uds_core_dsc: the return to the default session clears the whole
\* security record, a lockout included.
DscResetsSecurity(session_type) ==
  /\ session_type \in SessionTypes
  /\ session' = NewSession(session_type)
  /\ reply' = Positive
  /\ IF session_type = DEFAULT
     THEN sec' = Sec!uds_core_security_init /\ failures' = <<>> /\ granted' = 0
     ELSE UNCHANGED <<sec, failures, granted>>
  /\ UNCHANGED <<did, dtc, now, secReply, issued, flashVars>>

\* Mutant of uds_core_dsc: a session change starts an active transfer over, and
\* keeps its mode and window.
DscRewindsTransfer(session_type) ==
  /\ session_type \in SessionTypes
  /\ session' = NewSession(session_type)
  /\ reply' = Positive
  /\ xfer' = [xfer EXCEPT !.transferred = 0]
  /\ UNCHANGED <<did, dtc, secVars, data, flashReply, origin, image, counters, granted>>

\* 0x10
uds_core_dsc(session_type) ==
  \/ session_type \notin SessionTypes /\ Respond("SUB_FUNCTION_NOT_SUPPORTED")
  \/ /\ session_type \in SessionTypes
     /\ session' = NewSession(session_type)
     /\ reply' = Positive
     /\ UNCHANGED <<did, dtc>>
     /\ OthersUnchanged

\* 0x3E: sub_fn is 0 apart from the suppress bit, or not supported
uds_core_tester_present(supported, suppress) ==
  \/ ~ supported /\ Respond("SUB_FUNCTION_NOT_SUPPORTED")
  \/ /\ supported
     /\ session' = [session EXCEPT !.last_activity = now]
     /\ reply' = IF suppress THEN NoReply ELSE Positive
     /\ UNCHANGED <<did, dtc>>
     /\ OthersUnchanged

----------------------------------------------------------------------------
(* Security access: the dispatcher copies the unlocked level to the session *)

RequestSeed(sub_fn, seed) ==
  /\ Sec!uds_core_sec_request_seed(sub_fn, seed)
  /\ UNCHANGED <<flashVars, coreVars, granted>>

SendKey(sub_fn, key, len_ok) ==
  /\ Sec!uds_core_sec_send_key(sub_fn, key, len_ok)
  /\ \/ /\ secReply' = Positive
        /\ session' = [session EXCEPT !.security_level = sec'.unlocked_level]
        /\ granted' = sub_fn - 1
     \/ /\ secReply' # Positive
        /\ UNCHANGED <<session, granted>>
  /\ UNCHANGED <<flashVars, did, dtc, reply>>

----------------------------------------------------------------------------
(* Data identifiers: data.c *)

\* 0x22, after the dispatcher's check of the list's length
uds_svc_read_did(did_list) ==
  LET found == Len(did_list) <= MaxDidList /\ \A i \in DOMAIN did_list : did_list[i] \in Dids IN
  \/ ~ found /\ Respond("REQUEST_OUT_OF_RANGE")
  \/ found /\ Respond(Positive)

\* Mutant of MayWrite: the security requirement is not looked at.
MayWriteAnySecurity(d) ==
  DidTable[d].writable /\ session.type >= DidTable[d].min_write_session

\* The checks of uds_svc_write_did before the length, in its order.
MayWrite(d) ==
  /\ DidTable[d].writable
  /\ session.type >= DidTable[d].min_write_session
  /\ DidTable[d].requires_security => Sec!uds_core_sec_is_unlocked(1)

WriteRefusal(d) ==
  IF ~ DidTable[d].writable \/ session.type < DidTable[d].min_write_session
  THEN "REQUEST_OUT_OF_RANGE"
  ELSE "SECURITY_ACCESS_DENIED"

\* Mutant of uds_svc_write_did: the length is checked after the copy.
WriteThenCheckLength(d, value) ==
  /\ d \in Dids /\ MayWrite(d)
  /\ did' = [did EXCEPT ![d] = value]
  /\ reply' = IF Len(value) = DidTable[d].data_len THEN Positive ELSE "INCORRECT_MSG_LEN_OR_FORMAT"
  /\ UNCHANGED <<session, dtc>>
  /\ OthersUnchanged

\* 0x2E
uds_svc_write_did(d, value) ==
  \/ d \notin Dids /\ Respond("REQUEST_OUT_OF_RANGE")
  \/ d \in Dids /\ ~ MayWrite(d) /\ Respond(WriteRefusal(d))
  \/ /\ d \in Dids /\ MayWrite(d) /\ Len(value) # DidTable[d].data_len
     /\ Respond("INCORRECT_MSG_LEN_OR_FORMAT")
  \/ /\ d \in Dids /\ MayWrite(d) /\ Len(value) = DidTable[d].data_len
     /\ did' = [did EXCEPT ![d] = value]
     /\ reply' = Positive
     /\ UNCHANGED <<session, dtc>>
     /\ OthersUnchanged

\* Mutant of uds_svc_ecu_reset: only the security record is reinitialised.
ResetKeepsSession(reset_type) ==
  /\ reset_type \in 1 .. 3
  /\ Sec!SecurityReset
  /\ reply' = Positive
  /\ granted' = 0
  /\ UNCHANGED <<flashVars, session, did, dtc>>

\* 0x11, with the dispatcher's reinitialisation: session and security, neither
\* the transfer session nor the registries.
uds_svc_ecu_reset(reset_type) ==
  \/ reset_type \notin 1 .. 3 /\ Respond("SUB_FUNCTION_NOT_SUPPORTED")
  \/ /\ reset_type \in 1 .. 3
     /\ Sec!SecurityReset
     /\ session' = uds_core_session_init
     /\ reply' = Positive
     /\ granted' = 0
     /\ UNCHANGED <<flashVars, did, dtc>>

\* 0x28: answered, without any effect in the simulator
uds_svc_comm_control(control_type, comm_type) ==
  \/ control_type > 3 /\ Respond("SUB_FUNCTION_NOT_SUPPORTED")
  \/ control_type <= 3 /\ comm_type = 0 /\ Respond("REQUEST_OUT_OF_RANGE")
  \/ control_type <= 3 /\ comm_type # 0 /\ Respond(Positive)

----------------------------------------------------------------------------
(* Trouble codes: dtc.c *)

AllDtcs == <<255, 255, 255>>   \* the group 0xFFFFFF

\* 0x14: the high byte of the group selects the codes with the same high byte.
uds_svc_clear_dtc(group) ==
  LET cleared == {i \in DOMAIN DtcCodes : group = AllDtcs \/ DtcCodes[i][1] = group[1]} IN
  \/ group # AllDtcs /\ cleared = {} /\ Respond("REQUEST_OUT_OF_RANGE")
  \/ /\ group = AllDtcs \/ cleared # {}
     /\ dtc' = [i \in DOMAIN dtc |-> IF i \in cleared THEN 0 ELSE dtc[i]]
     /\ reply' = Positive
     /\ UNCHANGED <<session, did>>
     /\ OthersUnchanged

\* 0x19
uds_svc_read_dtc(sub_fn) ==
  \/ sub_fn \in {1, 2, 10} /\ Respond(Positive)
  \/ sub_fn \notin {1, 2, 10} /\ Respond("SUB_FUNCTION_NOT_SUPPORTED")

----------------------------------------------------------------------------
(* The dispatcher *)

\* Too short for its service, or a service the dispatcher does not know.
Malformed == Respond("INCORRECT_MSG_LEN_OR_FORMAT") \/ Respond("SERVICE_NOT_SUPPORTED")

FlashService ==
  /\ \/ \E fmt_ok \in BOOLEAN, address, mem_size \in Flash!Word :
           \/ Flash!uds_svc_request_download(fmt_ok, address, mem_size)
           \/ Flash!uds_svc_request_upload(fmt_ok, address, mem_size)
     \/ \E seq \in 0 .. SeqMax, bytes \in Flash!Blocks :
           Flash!uds_svc_transfer_data(seq, bytes)
     \/ Flash!uds_svc_transfer_exit
  /\ UNCHANGED <<secVars, coreVars, granted>>

SecurityService ==
  \/ \E sub_fn \in Levels, seed \in Seeds : RequestSeed(sub_fn, seed)
  \/ \E sub_fn \in {0} \cup {l + 1 : l \in Levels}, key \in Seeds, len_ok \in BOOLEAN :
        SendKey(sub_fn, key, len_ok)

SessionService ==
  \/ \E session_type \in 0 .. 4 : uds_core_dsc(session_type)
  \/ \E supported, suppress \in BOOLEAN : uds_core_tester_present(supported, suppress)
  \/ \E reset_type \in 0 .. 3 : uds_svc_ecu_reset(reset_type)

DataService ==
  \/ \E did_count \in 1 .. MaxDidList + 1 :
        \E did_list \in [1 .. did_count -> Dids \cup {UnknownDid}] : uds_svc_read_did(did_list)
  \/ \E d \in Dids \cup {UnknownDid}, value \in DidValues : uds_svc_write_did(d, value)
  \/ \E control_type \in 3 .. 4, comm_type \in 0 .. 1 :
        uds_svc_comm_control(control_type, comm_type)
  \/ \E group \in {AllDtcs, <<0, 0, 0>>} \cup {DtcCodes[i] : i \in DOMAIN DtcCodes} :
        uds_svc_clear_dtc(group)
  \/ \E sub_fn \in {0, 1, 2, 10} : uds_svc_read_dtc(sub_fn)

ecusim_dispatch ==
  Malformed \/ SessionService \/ SecurityService \/ DataService \/ FlashService

Tick == Sec!Tick /\ UNCHANGED <<flashVars, coreVars, granted>>

ecusim_init ==
  /\ Sec!Init
  /\ Flash!Init
  /\ session = uds_core_session_init
  /\ did = DidDefaults
  /\ dtc = DtcDefaults
  /\ reply = NoReply
  /\ granted = 0

Next == ecusim_dispatch \/ Tick

Spec == ecusim_init /\ [][Next]_vars

----------------------------------------------------------------------------
(* Properties *)

TypeOK ==
  /\ session \in UdsCoreSession
  /\ did \in [Dids -> DidValues]
  /\ \A d \in Dids : Len(did[d]) = DidTable[d].data_len
  /\ dtc \in [DOMAIN DtcCodes -> Nat]
  /\ reply \in {NoReply, Positive} \cup Nrcs
  /\ granted \in Levels \cup {0}

\* The session's copy of the unlocked level, which the dispatcher writes after
\* sendKey and the session code clears on its own, is never a level that the
\* security record does not hold, and neither outlives the key that earned it.
SecurityLevelSound ==
  /\ session.security_level \in {0, sec.unlocked_level}
  /\ sec.unlocked_level = granted
  /\ session.last_activity <= now

\* A data identifier changes only by a write in a session at or above its
\* write session, and one that requires security only after a right key for
\* level 1, with no reset or other unlock since.
DidWritesGated ==
  [][\A d \in Dids : did'[d] # did[d] =>
       /\ DidTable[d].writable
       /\ session.type >= DidTable[d].min_write_session
       /\ DidTable[d].requires_security => granted = 1]_vars

AcceptedReset == \E reset_type \in 1 .. 3 : uds_svc_ecu_reset(reset_type)

\* Session changes, resets, identifiers and trouble codes never disturb the
\* seed, key and lockout protocol: the server implements SecurityAccess.
ImplementsSecurity == Sec!Spec

\* The attempt counter falls, a lockout ends or begins earlier, or a wrong key is
\* struck off the record.
AttemptsTakenBack ==
  \/ sec'.fail_count < sec.fail_count
  \/ sec.locked /\ (sec'.locked => sec'.locked_ts < sec.locked_ts)
  \/ Len(failures') < Len(failures)

AnsweredRightKey ==
  /\ sec.seed_valid /\ ~ sec'.seed_valid
  /\ secReply' = Positive /\ sec'.unlocked_level = sec.pending_level

LockoutOver == sec.locked /\ ~ Sec!check_locked /\ Len(failures') >= Len(failures)

\* Between resets, no service gives a tester more attempts: wrong keys are taken
\* back by the right key for the pending seed only, or, off the counter but not
\* off the record, when the lockout they led to is over.
AttemptsKept ==
  [][AttemptsTakenBack => AcceptedReset \/ AnsweredRightKey \/ LockoutOver]_vars

\* A reset that also ends the transfer, as the design has it, and keeps the
\* flash.
ResetAsDesigned ==
  /\ Sec!SecurityReset
  /\ session' = uds_core_session_init
  /\ reply' = Positive
  /\ granted' = 0
  /\ xfer' = Flash!uds_xfer_init
  /\ UNCHANGED data

\* Between resets, nothing but the transfer services disturbs a transfer or the
\* flash: session changes, keys, identifiers and trouble codes may come between
\* any two blocks.  A reset keeps the flash.  Whether it ends the transfer, as
\* design/03-UDS_Protocol_Design.md:291 has it, or not, as the code has it, this
\* property leaves open.
FlashBetweenResets ==
  Flash!Init /\ [][Flash!Next \/ ResetAsDesigned]_flashVars

\* session.c:87, "Return to default session clears security access".
DefaultSessionLocks ==
  [][session'.type = DEFAULT /\ session'.type # session.type
       => sec'.unlocked_level = 0]_vars
============================================================================
