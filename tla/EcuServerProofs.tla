--------------------------- MODULE EcuServerProofs ---------------------------
(***************************************************************************)
(* Theorems about the ECU server, for any registries, levels, region table *)
(* and times.                                                              *)
(*                                                                         *)
(* First the refinements: whatever the other services do in between, the   *)
(* server implements SecurityAccess and FlashTransfer, so that all that is *)
(* proved about those two components on their own holds of the ECU.  Then  *)
(* the server's own invariants, which need SecurityAccess's type invariant.*)
(***************************************************************************)
EXTENDS EcuServer, TLAPS

SecTh == INSTANCE SecurityAccessProofs WITH reply <- secReply
FlashTh == INSTANCE FlashTransferProofs WITH reply <- flashReply

----------------------------------------------------------------------------
(* The components inside the server *)

\* The constants are what SecurityAccess assumes of its own.
LEMMA SecConstants ==
  SecTh!SecurityAssumption
BY ComponentsAssumption
   DEF Sec!SecurityAssumption, Sec!Keys, SecTh!SecurityAssumption, SecTh!Keys

\* The constants are what FlashTransfer assumes of its own.
LEMMA FlashConstants ==
  FlashTh!SizesAssumption /\ FlashTh!RegionsAssumption
BY ComponentsAssumption
   DEF Flash!SizesAssumption, Flash!RegionsAssumption, Flash!Region, Flash!Word,
       FlashTh!SizesAssumption, FlashTh!RegionsAssumption, FlashTh!Region, FlashTh!Word

\* The theorem module's copy of SecurityAccess starts as the server's ...
LEMMA SecInitSame ==
  Sec!Init <=> SecTh!Init
BY DEF Sec!Init, SecTh!Init, Sec!uds_core_security_init, SecTh!uds_core_security_init,
       Sec!NoSeed, SecTh!NoSeed, Sec!NoReply, SecTh!NoReply

\* ... takes the same steps ...
LEMMA SecNextSame ==
  [Sec!Next]_Sec!vars <=> [SecTh!Next]_SecTh!vars
<1>1. Sec!Next <=> SecTh!Next
  BY DEF Sec!Next, SecTh!Next, Sec!uds_core_sec_request_seed, SecTh!uds_core_sec_request_seed,
         Sec!uds_core_sec_send_key, SecTh!uds_core_sec_send_key,
         Sec!SecurityReset, SecTh!SecurityReset, Sec!Tick, SecTh!Tick,
         Sec!Keys, SecTh!Keys, Sec!Answer, SecTh!Answer, Sec!check_locked, SecTh!check_locked,
         Sec!LockChecked, SecTh!LockChecked, Sec!history, SecTh!history,
         Sec!seed_expired, SecTh!seed_expired, Sec!WrongKey, SecTh!WrongKey,
         Sec!RightKey, SecTh!RightKey, Sec!uds_core_sec_compute_key,
         SecTh!uds_core_sec_compute_key, Sec!uds_core_security_init,
         SecTh!uds_core_security_init, Sec!Positive, SecTh!Positive
<1> QED
  BY <1>1 DEF Sec!vars, SecTh!vars

\* ... and so is the same specification.
LEMMA SecSame ==
  Sec!Spec <=> SecTh!Spec
BY SecInitSame, SecNextSame, PTL DEF Sec!Spec, SecTh!Spec

\* The theorem module's copy of FlashTransfer is the server's.
LEMMA FlashSame ==
  Flash!Spec <=> FlashTh!Spec
<1>1. Flash!Init <=> FlashTh!Init
  BY DEF Flash!Init, FlashTh!Init, Flash!uds_xfer_init, FlashTh!uds_xfer_init,
         Flash!Cells, FlashTh!Cells, Flash!NoReply, FlashTh!NoReply
<1>2. ASSUME NEW fmt_ok, NEW address, NEW mem_size
      PROVE  /\ Flash!uds_svc_request_download(fmt_ok, address, mem_size)
                  <=> FlashTh!uds_svc_request_download(fmt_ok, address, mem_size)
             /\ Flash!uds_svc_request_upload(fmt_ok, address, mem_size)
                  <=> FlashTh!uds_svc_request_upload(fmt_ok, address, mem_size)
  BY DEF Flash!uds_svc_request_download, FlashTh!uds_svc_request_download,
         Flash!uds_svc_request_upload, FlashTh!uds_svc_request_upload,
         Flash!Refuse, FlashTh!Refuse, Flash!history, FlashTh!history,
         Flash!StartXfer, FlashTh!StartXfer, Flash!uds_flash_erase, FlashTh!uds_flash_erase,
         Flash!uds_flash_address_valid, FlashTh!uds_flash_address_valid,
         Flash!Programmable, FlashTh!Programmable, Flash!find_region, FlashTh!find_region,
         Flash!Contains, FlashTh!Contains, Flash!Cells, FlashTh!Cells,
         Flash!Positive, FlashTh!Positive
<1>3. ASSUME NEW seq, NEW bytes
      PROVE  Flash!uds_svc_transfer_data(seq, bytes) <=> FlashTh!uds_svc_transfer_data(seq, bytes)
  BY DEF Flash!uds_svc_transfer_data, FlashTh!uds_svc_transfer_data,
         Flash!DeviceRefuses, FlashTh!DeviceRefuses, Flash!Refuse, FlashTh!Refuse,
         Flash!TransferDownload, FlashTh!TransferDownload,
         Flash!TransferUpload, FlashTh!TransferUpload, Flash!history, FlashTh!history,
         Flash!Advance, FlashTh!Advance, Flash!NextBlockSeq, FlashTh!NextBlockSeq,
         Flash!uds_flash_write, FlashTh!uds_flash_write,
         Flash!uds_flash_read, FlashTh!uds_flash_read,
         Flash!uds_flash_address_valid, FlashTh!uds_flash_address_valid,
         Flash!Programmable, FlashTh!Programmable, Flash!find_region, FlashTh!find_region,
         Flash!Contains, FlashTh!Contains, Flash!Cells, FlashTh!Cells,
         Flash!Remaining, FlashTh!Remaining, Flash!Position, FlashTh!Position,
         Flash!ToRead, FlashTh!ToRead, Flash!Positive, FlashTh!Positive,
         Flash!NoReply, FlashTh!NoReply
<1>4. Flash!uds_svc_transfer_exit <=> FlashTh!uds_svc_transfer_exit
  BY DEF Flash!uds_svc_transfer_exit, FlashTh!uds_svc_transfer_exit,
         Flash!Refuse, FlashTh!Refuse, Flash!history, FlashTh!history,
         Flash!uds_xfer_init, FlashTh!uds_xfer_init, Flash!Positive, FlashTh!Positive
<1>5. Flash!Next <=> FlashTh!Next
  BY <1>2, <1>3, <1>4
     DEF Flash!Next, FlashTh!Next, Flash!Word, FlashTh!Word, Flash!Blocks, FlashTh!Blocks
<1>6. [Flash!Next]_Flash!vars <=> [FlashTh!Next]_FlashTh!vars
  BY <1>5 DEF Flash!vars, FlashTh!vars
<1> QED
  BY <1>1, <1>6, PTL DEF Flash!Spec, FlashTh!Spec

----------------------------------------------------------------------------
(* The refinements *)

\* A service other than 0x27 and 0x34 .. 0x37 is a stuttering step of both
\* components, except for an accepted ECUReset.
LEMMA OtherServices ==
  ASSUME Malformed \/ SessionService \/ DataService
  PROVE  /\ UNCHANGED flashVars
         /\ \/ UNCHANGED <<secVars, granted>>
            \/ /\ Sec!SecurityReset /\ granted' = 0 /\ session' = uds_core_session_init
               /\ AcceptedReset
<1> USE DEF Respond, OthersUnchanged
<1>1. CASE Malformed
  BY <1>1 DEF Malformed
<1>2. CASE SessionService
  <2>1. CASE \E session_type \in 0 .. 4 : uds_core_dsc(session_type)
    BY <2>1 DEF uds_core_dsc
  <2>2. CASE \E supported, suppress \in BOOLEAN : uds_core_tester_present(supported, suppress)
    BY <2>2 DEF uds_core_tester_present
  <2>3. CASE \E reset_type \in 0 .. 3 : uds_svc_ecu_reset(reset_type)
    <3>1. PICK reset_type \in 0 .. 3 : uds_svc_ecu_reset(reset_type)
      BY <2>3
    <3>2. reset_type \in 1 .. 3 => AcceptedReset
      BY <3>1 DEF AcceptedReset
    <3> QED
      BY <3>1, <3>2 DEF uds_svc_ecu_reset
  <2> QED
    BY <1>2, <2>1, <2>2, <2>3 DEF SessionService
<1>3. CASE DataService
  BY <1>3 DEF DataService, uds_svc_read_did, uds_svc_write_did, uds_svc_comm_control,
              uds_svc_clear_dtc, uds_svc_read_dtc
<1> QED
  BY <1>1, <1>2, <1>3

\* Every step of the server is one of SecurityAccess or leaves it alone.
LEMMA SecurityStepRefined ==
  ASSUME [Next]_vars
  PROVE  [Sec!Next]_Sec!vars
<1>1. CASE Malformed \/ SessionService \/ DataService
  BY <1>1, OtherServices DEF Sec!Next, Sec!vars, secVars
<1>2. CASE SecurityService
  BY <1>2 DEF SecurityService, RequestSeed, SendKey, Sec!Next, Sec!Keys
<1>3. CASE FlashService
  BY <1>3 DEF FlashService, Sec!vars, secVars
<1>4. CASE Tick
  BY <1>4 DEF Tick, Sec!Next
<1>5. CASE UNCHANGED vars
  BY <1>5 DEF vars, secVars, Sec!vars
<1> QED
  BY <1>1, <1>2, <1>3, <1>4, <1>5 DEF Next, ecusim_dispatch

\* Session changes, resets, data identifiers, trouble codes and transfers leave
\* the seed and key protocol to its own service: the server implements
\* SecurityAccess.
THEOREM SecurityRefined == Spec => ImplementsSecurity
<1>1. ecusim_init => Sec!Init
  BY DEF ecusim_init
<1>2. [Next]_vars => [Sec!Next]_Sec!vars
  BY SecurityStepRefined
<1> QED
  BY <1>1, <1>2, PTL DEF Spec, Sec!Spec, ImplementsSecurity

\* Nothing but the transfer services touches flash and transfer session.  In
\* this code an ECUReset does not either (the design differs), so the server
\* implements FlashTransfer, and what is proved of that module applies.
THEOREM FlashRefined == Spec => Flash!Spec
<1>1. ecusim_init => Flash!Init
  BY DEF ecusim_init
<1>2. [Next]_vars => [Flash!Next]_Flash!vars
  <2> SUFFICES ASSUME [Next]_vars PROVE [Flash!Next]_Flash!vars
    OBVIOUS
  <2>1. CASE Malformed \/ SessionService \/ DataService
    BY <2>1, OtherServices DEF Flash!vars, flashVars
  <2>2. CASE SecurityService
    BY <2>2 DEF SecurityService, RequestSeed, SendKey, Flash!vars, flashVars
  <2>3. CASE FlashService
    BY <2>3 DEF FlashService, Flash!Next
  <2>4. CASE Tick
    BY <2>4 DEF Tick, Flash!vars, flashVars
  <2>5. CASE UNCHANGED vars
    BY <2>5 DEF vars, flashVars, Flash!vars
  <2> QED
    BY <2>1, <2>2, <2>3, <2>4, <2>5 DEF Next, ecusim_dispatch
<1> QED
  BY <1>1, <1>2, PTL DEF Spec, Flash!Spec

\* What a tester may rely on however a reset treats the transfer: between
\* resets the other services leave transfer and flash alone, and a reset leaves
\* the flash alone.
THEOREM TransfersUndisturbed == Spec => FlashBetweenResets
<1>1. [Flash!Next]_Flash!vars => [Flash!Next \/ ResetAsDesigned]_flashVars
  BY DEF Flash!vars, flashVars
<1> QED
  BY <1>1, FlashRefined, PTL DEF Flash!Spec, FlashBetweenResets

----------------------------------------------------------------------------
(* What is proved of the components holds of the ECU. *)

\* Both copies have the same types.
LEMMA SecTypesSame == SecTh!TypeOK => Sec!TypeOK
BY DEF Sec!TypeOK, SecTh!TypeOK, Sec!Security, SecTh!Security, Sec!Replies, SecTh!Replies,
       Sec!NoReply, SecTh!NoReply, Sec!Positive, SecTh!Positive, Sec!Nrcs, SecTh!Nrcs

\* The types of the security part.
LEMMA SecTyped == Spec => []Sec!TypeOK
<1>1. SecTh!Spec => []SecTh!TypeOK
  BY SecTh!SecurityTypeCorrect, SecConstants
<1> QED
  BY <1>1, SecTypesSame, SecurityRefined, SecSame, PTL DEF ImplementsSecurity

\* The types of the flash part.
LEMMA FlashTyped == Spec => []Flash!TypeOK
<1>1. FlashTh!TypeOK => Flash!TypeOK
  BY DEF Flash!TypeOK, FlashTh!TypeOK, Flash!Cells, FlashTh!Cells, Flash!Xfer, FlashTh!Xfer,
         Flash!Modes, FlashTh!Modes, Flash!Word, FlashTh!Word, Flash!Replies, FlashTh!Replies,
         Flash!NoReply, FlashTh!NoReply, Flash!Positive, FlashTh!Positive,
         Flash!Nrcs, FlashTh!Nrcs
<1>2. FlashTh!Spec => []FlashTh!TypeOK
  BY FlashTh!TypeCorrect, FlashConstants
<1> QED
  BY <1>1, <1>2, FlashRefined, FlashSame, PTL

\* Any MaxAttempts + 1 wrong keys on record span a lockout.
LEMMA RecordRateLimited == Spec => []Sec!AttemptRate
<1>1. SecTh!AttemptRate => Sec!AttemptRate
  BY DEF Sec!AttemptRate, SecTh!AttemptRate
<1>2. SecTh!Spec => []SecTh!AttemptRate
  BY SecTh!AttemptsRateLimited, SecConstants
<1> QED
  BY <1>1, <1>2, SecurityRefined, SecSame, PTL DEF ImplementsSecurity

\* A security level of the ECU is unlocked only by the key of the seed issued
\* last, in time and outside a lockout, whatever else the tester asked for.
THEOREM EcuUnlocksJustified == Spec => Sec!UnlockAnswersSeed
<1>1. SecTh!UnlockAnswersSeed => Sec!UnlockAnswersSeed
  BY DEF Sec!UnlockAnswersSeed, SecTh!UnlockAnswersSeed, Sec!check_locked,
         SecTh!check_locked, Sec!vars, SecTh!vars
<1>2. SecTh!Spec => SecTh!UnlockAnswersSeed
  BY SecTh!UnlocksJustified, SecConstants
<1> QED
  BY <1>1, <1>2, SecurityRefined, SecSame, PTL DEF ImplementsSecurity

\* A download through the ECU holds exactly the accepted blocks, whatever
\* other services come between the blocks.
THEOREM EcuDownloadCorrect == Spec => []Flash!DownloadContents
<1>1. FlashTh!DownloadContents => Flash!DownloadContents
  BY DEF Flash!DownloadContents, FlashTh!DownloadContents, Flash!Cells, FlashTh!Cells,
         Flash!Window, FlashTh!Window
<1>2. FlashTh!Spec => []FlashTh!DownloadContents
  BY FlashTh!DownloadCorrect, FlashConstants
<1> QED
  BY <1>1, <1>2, FlashRefined, FlashSame, PTL

\* No request of any service changes a cell of a protected region.
THEOREM EcuProtectionHolds == Spec => Flash!ProtectedCellsFixed
<1>1. FlashTh!ProtectedCellsFixed => Flash!ProtectedCellsFixed
  BY DEF Flash!ProtectedCellsFixed, FlashTh!ProtectedCellsFixed, Flash!vars, FlashTh!vars
<1>2. FlashTh!Spec => FlashTh!ProtectedCellsFixed
  BY FlashTh!ProtectionHolds, FlashConstants
<1> QED
  BY <1>1, <1>2, FlashRefined, FlashSame, PTL

----------------------------------------------------------------------------
(* The server's own invariants *)

IInv == TypeOK /\ SecurityLevelSound

\* What an answer to sendKey says of the unlocked level: a positive one is for
\* the level of the key, any other leaves it as it was.
LEMMA SendKeyOutcome ==
  ASSUME Sec!TypeOK, NEW sub_fn \in {0} \cup {l + 1 : l \in Levels}, NEW key, NEW len_ok,
         Sec!uds_core_sec_send_key(sub_fn, key, len_ok)
  PROVE  /\ now' = now
         /\ secReply' = Positive => /\ sec'.unlocked_level = sub_fn - 1
                                    /\ sub_fn - 1 \in Levels
         /\ secReply' # Positive => sec'.unlocked_level = sec.unlocked_level
<1>1. sec \in Sec!Security
  BY DEF Sec!TypeOK
<1>2. /\ Sec!LockChecked \in Sec!Security
      /\ Sec!LockChecked.unlocked_level = sec.unlocked_level
  <2>1. 0 \in 0 .. MaxAttempts
    BY ComponentsAssumption DEF Sec!SecurityAssumption
  <2> QED
    BY <1>1, <2>1 DEF Sec!LockChecked, Sec!Security
<1>3. Levels \subseteq Nat
  BY ComponentsAssumption DEF Sec!SecurityAssumption
<1>4. sub_fn # 0 => sub_fn - 1 \in Levels
  BY <1>3
<1> DEFINE L == Sec!LockChecked
<1> HIDE DEF L
<1>5. ASSUME NEW n, NEW b, NEW t PROVE
       /\ [L EXCEPT !.seed_valid = FALSE].unlocked_level = sec.unlocked_level
       /\ [L EXCEPT !.fail_count = n, !.seed_valid = FALSE].unlocked_level = sec.unlocked_level
       /\ [[L EXCEPT !.fail_count = n, !.seed_valid = FALSE]
             EXCEPT !.locked = b, !.locked_ts = t].unlocked_level = sec.unlocked_level
       /\ [L EXCEPT !.seed_valid = FALSE, !.fail_count = 0,
                    !.unlocked_level = n].unlocked_level = n
  BY <1>2 DEF Sec!Security, L
<1>6. CASE sub_fn # 0 /\ Sec!RightKey(sub_fn - 1)
  BY <1>4, <1>5, <1>6 DEF Sec!RightKey, Sec!Answer, Sec!Positive, Positive, L
<1>7. CASE Sec!WrongKey
  <2> DEFINE n == L.fail_count + 1
             failed == [L EXCEPT !.fail_count = n, !.seed_valid = FALSE]
  <2>1. /\ now' = now /\ secReply' # Positive
        /\ sec' \in {failed, [failed EXCEPT !.locked = TRUE, !.locked_ts = now]}
    BY <1>7 DEF Sec!WrongKey, Sec!Answer, Positive, L
  <2>2. /\ failed.unlocked_level = sec.unlocked_level
        /\ [failed EXCEPT !.locked = TRUE, !.locked_ts = now].unlocked_level
             = sec.unlocked_level
    BY <1>5
  <2> HIDE DEF failed
  <2> QED
    BY <2>1, <2>2
<1>8. CASE /\ now' = now /\ secReply' # Positive
           /\ sec' \in {sec, L, [L EXCEPT !.seed_valid = FALSE]}
  BY <1>2, <1>5, <1>8 DEF L
<1> QED
  BY <1>6, <1>7, <1>8 DEF Sec!uds_core_sec_send_key, Sec!Answer, Positive, L

\* Asking for a seed unlocks nothing and locks nothing again.
LEMMA RequestSeedOutcome ==
  ASSUME Sec!TypeOK, NEW sub_fn, NEW seed, Sec!uds_core_sec_request_seed(sub_fn, seed)
  PROVE  now' = now /\ sec'.unlocked_level = sec.unlocked_level
<1>1. sec \in Sec!Security
  BY DEF Sec!TypeOK
<1>2. /\ Sec!LockChecked \in Sec!Security
      /\ Sec!LockChecked.unlocked_level = sec.unlocked_level
  <2>1. 0 \in 0 .. MaxAttempts
    BY ComponentsAssumption DEF Sec!SecurityAssumption
  <2> QED
    BY <1>1, <2>1 DEF Sec!LockChecked, Sec!Security
<1>3. [Sec!LockChecked EXCEPT !.seed = seed, !.seed_valid = TRUE, !.pending_level = sub_fn,
                              !.seed_ts = now].unlocked_level = sec.unlocked_level
  BY <1>2 DEF Sec!Security
<1> QED
  BY <1>2, <1>3 DEF Sec!uds_core_sec_request_seed, Sec!Answer

\* The invariant holds when the server starts.
LEMMA InitInv == ecusim_init => IInv
BY ServerAssumption
   DEF ecusim_init, IInv, TypeOK, SecurityLevelSound, Sec!Init, Sec!uds_core_security_init,
       uds_core_session_init, UdsCoreSession, SessionTypes, DEFAULT, NoReply

\* A change of session keeps the level or drops it to 0, and stamps the time.
LEMMA SessionStep ==
  ASSUME IInv, Sec!TypeOK, SessionService
  PROVE  IInv'
<1>1. /\ session \in UdsCoreSession
      /\ now \in Nat
  BY DEF IInv, TypeOK, Sec!TypeOK
<1>2. ASSUME NEW r \in {Positive} \cup Nrcs, Respond(r)
      PROVE  IInv'
  BY <1>2 DEF Respond, OthersUnchanged, secVars, IInv, TypeOK, SecurityLevelSound
<1>3. ASSUME NEW session_type \in SessionTypes, session' = NewSession(session_type),
             reply' = Positive, UNCHANGED <<did, dtc>>, OthersUnchanged
      PROVE  IInv'
  <2>1. /\ session' \in UdsCoreSession
        /\ session'.security_level \in {0, session.security_level}
        /\ session'.last_activity = now
    BY <1>1, <1>3 DEF NewSession, UdsCoreSession
  <2> QED
    BY <1>1, <1>3, <2>1 DEF OthersUnchanged, secVars, IInv, TypeOK, SecurityLevelSound
<1>4. ASSUME session' = [session EXCEPT !.last_activity = now],
             reply' \in {NoReply, Positive}, UNCHANGED <<did, dtc>>, OthersUnchanged
      PROVE  IInv'
  <2>1. /\ session' \in UdsCoreSession
        /\ session'.security_level = session.security_level
        /\ session'.last_activity = now
    BY <1>1, <1>4 DEF UdsCoreSession
  <2> QED
    BY <1>1, <1>4, <2>1 DEF OthersUnchanged, secVars, IInv, TypeOK, SecurityLevelSound
<1>5. ASSUME Sec!SecurityReset, session' = uds_core_session_init, reply' = Positive,
             granted' = 0, UNCHANGED <<did, dtc>>
      PROVE  IInv'
  <2>1. /\ session' \in UdsCoreSession
        /\ session'.security_level = 0
        /\ session'.last_activity = now
    BY <1>1, <1>5 DEF uds_core_session_init, UdsCoreSession, SessionTypes, DEFAULT
  <2>2. now' = now /\ sec'.unlocked_level = 0
    BY <1>5 DEF Sec!SecurityReset, Sec!Answer, Sec!uds_core_security_init
  <2> QED
    BY <1>1, <1>5, <2>1, <2>2 DEF IInv, TypeOK, SecurityLevelSound
<1>6. CASE \E session_type \in 0 .. 4 : uds_core_dsc(session_type)
  BY <1>2, <1>3, <1>6 DEF uds_core_dsc, Nrcs
<1>7. CASE \E supported, suppress \in BOOLEAN : uds_core_tester_present(supported, suppress)
  BY <1>2, <1>4, <1>7 DEF uds_core_tester_present, Nrcs
<1>8. CASE \E reset_type \in 0 .. 3 : uds_svc_ecu_reset(reset_type)
  BY <1>2, <1>5, <1>8 DEF uds_svc_ecu_reset, Nrcs
<1> QED
  BY <1>6, <1>7, <1>8 DEF SessionService

\* The dispatcher's copy after sendKey is the level of the key.
LEMMA SecurityStep ==
  ASSUME IInv, Sec!TypeOK, SecurityService
  PROVE  IInv'
<1>1. /\ session \in UdsCoreSession
      /\ now \in Nat
  BY DEF IInv, TypeOK, Sec!TypeOK
<1>2. CASE \E sub_fn \in Levels, seed \in Seeds : RequestSeed(sub_fn, seed)
  <2>1. /\ now' = now /\ sec'.unlocked_level = sec.unlocked_level
        /\ UNCHANGED <<coreVars, granted>>
    BY <1>2, RequestSeedOutcome DEF RequestSeed
  <2> QED
    BY <2>1 DEF IInv, TypeOK, SecurityLevelSound, coreVars
<1>3. ASSUME NEW sub_fn \in {0} \cup {l + 1 : l \in Levels}, NEW key \in Seeds,
             NEW len_ok \in BOOLEAN, SendKey(sub_fn, key, len_ok)
      PROVE  IInv'
  <2>1. /\ now' = now
        /\ secReply' = Positive => /\ sec'.unlocked_level = sub_fn - 1
                                   /\ sub_fn - 1 \in Levels
        /\ secReply' # Positive => sec'.unlocked_level = sec.unlocked_level
    BY <1>3, SendKeyOutcome DEF SendKey
  <2>2. UNCHANGED <<did, dtc, reply>>
    BY <1>3 DEF SendKey
  <2>3. CASE secReply' = Positive
    <3>1. /\ session' = [session EXCEPT !.security_level = sub_fn - 1]
          /\ granted' = sub_fn - 1
      BY <1>3, <2>1, <2>3 DEF SendKey
    <3>2. /\ session' \in UdsCoreSession
          /\ session'.security_level = sub_fn - 1
          /\ session'.last_activity = session.last_activity
      BY <1>1, <2>1, <2>3, <3>1 DEF UdsCoreSession
    <3> QED
      BY <2>1, <2>2, <2>3, <3>1, <3>2 DEF IInv, TypeOK, SecurityLevelSound
  <2>4. CASE secReply' # Positive
    <3>1. UNCHANGED <<session, granted>>
      BY <1>3, <2>4 DEF SendKey
    <3> QED
      BY <2>1, <2>2, <2>4, <3>1 DEF IInv, TypeOK, SecurityLevelSound
  <2> QED
    BY <2>3, <2>4
<1> QED
  BY <1>2, <1>3 DEF SecurityService

\* Writing an identifier keeps its length; clearing trouble codes keeps theirs.
LEMMA DataStep ==
  ASSUME IInv, Sec!TypeOK, DataService
  PROVE  IInv'
<1>1. ASSUME NEW r \in {Positive} \cup Nrcs, Respond(r)
      PROVE  IInv'
  BY <1>1 DEF Respond, OthersUnchanged, secVars, IInv, TypeOK, SecurityLevelSound
<1>2. CASE \E did_count \in 1 .. MaxDidList + 1 :
             \E did_list \in [1 .. did_count -> Dids \cup {UnknownDid}] :
               uds_svc_read_did(did_list)
  BY <1>1, <1>2 DEF uds_svc_read_did, Nrcs
<1>3. ASSUME NEW d \in Dids \cup {UnknownDid}, NEW value \in DidValues,
             uds_svc_write_did(d, value)
      PROVE  IInv'
  <2>1. CASE \E r \in {Positive} \cup Nrcs : Respond(r)
    BY <1>1, <2>1
  <2>2. CASE /\ d \in Dids /\ Len(value) = DidTable[d].data_len
             /\ did' = [did EXCEPT ![d] = value]
             /\ reply' = Positive
             /\ UNCHANGED <<session, dtc>>
             /\ OthersUnchanged
    <3>1. /\ did' \in [Dids -> DidValues]
          /\ \A e \in Dids : Len(did'[e]) = DidTable[e].data_len
      BY <2>2 DEF IInv, TypeOK
    <3> QED
      BY <2>2, <3>1 DEF OthersUnchanged, secVars, IInv, TypeOK, SecurityLevelSound
  <2> QED
    BY <1>3, <2>1, <2>2 DEF uds_svc_write_did, WriteRefusal, Nrcs
<1>4. CASE \E control_type \in 3 .. 4, comm_type \in 0 .. 1 :
             uds_svc_comm_control(control_type, comm_type)
  BY <1>1, <1>4 DEF uds_svc_comm_control, Nrcs
<1>5. ASSUME NEW group, uds_svc_clear_dtc(group)
      PROVE  IInv'
  <2>1. CASE \E r \in {Positive} \cup Nrcs : Respond(r)
    BY <1>1, <2>1
  <2>2. CASE ~ \E r \in {Positive} \cup Nrcs : Respond(r)
    <3>1. /\ \E S : dtc' = [i \in DOMAIN dtc |-> IF i \in S THEN 0 ELSE dtc[i]]
          /\ reply' = Positive
          /\ UNCHANGED <<session, did>>
          /\ OthersUnchanged
      BY <1>5, <2>2 DEF uds_svc_clear_dtc, Nrcs
    <3>2. dtc' \in [DOMAIN DtcCodes -> Nat]
      BY <3>1 DEF IInv, TypeOK
    <3> QED
      BY <3>1, <3>2 DEF OthersUnchanged, secVars, IInv, TypeOK, SecurityLevelSound
  <2> QED
    BY <2>1, <2>2
<1>6. CASE \E sub_fn \in {0, 1, 2, 10} : uds_svc_read_dtc(sub_fn)
  BY <1>1, <1>6 DEF uds_svc_read_dtc, Nrcs
<1> QED
  BY <1>2, <1>3, <1>4, <1>5, <1>6 DEF DataService

\* Every request, reset, lapse of time and stutter keeps it.
LEMMA NextInv ==
  ASSUME IInv, Sec!TypeOK, [Next]_vars
  PROVE  IInv'
<1>1. CASE Malformed
  BY <1>1 DEF Malformed, Respond, OthersUnchanged, secVars, Nrcs, IInv, TypeOK,
              SecurityLevelSound
<1>2. CASE FlashService
  BY <1>2 DEF FlashService, secVars, coreVars, IInv, TypeOK, SecurityLevelSound
<1>3. CASE Tick
  <2>1. /\ now \in Nat /\ now' = now + 1
        /\ session \in UdsCoreSession
        /\ UNCHANGED <<sec, coreVars, granted>>
    BY <1>3 DEF Tick, Sec!Tick, Sec!TypeOK, IInv, TypeOK
  <2>2. session.last_activity <= now + 1
    BY <2>1 DEF IInv, SecurityLevelSound, UdsCoreSession
  <2> QED
    BY <2>1, <2>2 DEF coreVars, IInv, TypeOK, SecurityLevelSound
<1>4. CASE UNCHANGED vars
  BY <1>4 DEF vars, secVars, coreVars, IInv, TypeOK, SecurityLevelSound
<1> QED
  BY <1>1, <1>2, <1>3, <1>4, SessionStep, SecurityStep, DataStep DEF Next, ecusim_dispatch

\* With SecurityAccess's own inductive invariant it is inductive on its own, as
\* a system that contains the server needs it.
FullInv == IInv /\ SecTh!IInv

\* It holds when the server starts ...
LEMMA InitFull == ecusim_init => FullInv
<1>1. ecusim_init => SecTh!Init
  BY SecInitSame DEF ecusim_init
<1> QED
  BY <1>1, InitInv, SecTh!InitInv, SecConstants DEF FullInv

\* ... and every step keeps it.
LEMMA NextFull ==
  ASSUME FullInv, [Next]_vars
  PROVE  FullInv'
<1>1. SecTh!IInv => SecTh!TypeOK
  BY DEF SecTh!IInv
<1>2. Sec!TypeOK
  BY <1>1, SecTypesSame DEF FullInv
<1>3. IInv'
  BY <1>2, NextInv DEF FullInv
<1>4. [SecTh!Next]_SecTh!vars
  BY SecurityStepRefined, SecNextSame
<1>5. SecTh!IInv'
  BY <1>4, SecTh!NextInv, SecConstants DEF FullInv
<1> QED
  BY <1>3, <1>5 DEF FullInv

\* The inductive invariant holds.
LEMMA Inductive == Spec => []IInv
BY InitInv, NextInv, SecTyped, PTL DEF Spec

\* Identifiers keep their lengths and trouble codes their registry, and security
\* record, flash and transfer session the types of their own modules, whatever
\* requests arrive in whatever order.
THEOREM EcuTypeCorrect == Spec => [](TypeOK /\ Sec!TypeOK /\ Flash!TypeOK)
<1>1. IInv => TypeOK
  BY DEF IInv
<1> QED
  BY <1>1, Inductive, SecTyped, FlashTyped, PTL

\* The level that the session shows is 0 or the one of the security record,
\* and that is the level of the last right key since the last reset.
THEOREM LevelSound == Spec => []SecurityLevelSound
<1>1. IInv => SecurityLevelSound
  BY DEF IInv
<1> QED
  BY <1>1, Inductive, PTL

\* A request of security access takes wrong keys back as it should only.
LEMMA SecurityServiceKeeps ==
  ASSUME Sec!TypeOK, SecurityService, AttemptsTakenBack
  PROVE  AnsweredRightKey \/ LockoutOver
<1>1. /\ sec \in Sec!Security /\ now \in Nat /\ failures \in Seq(Nat)
      /\ MaxAttempts \in Nat \ {0}
  BY ComponentsAssumption DEF Sec!TypeOK, Sec!SecurityAssumption
<1> DEFINE L == Sec!LockChecked
<1>2. /\ L \in Sec!Security
      /\ L.seed_valid = sec.seed_valid /\ L.pending_level = sec.pending_level
      /\ L.locked_ts = sec.locked_ts
      /\ L.locked => sec.locked
      /\ ~ (sec.locked /\ ~ Sec!check_locked) => L = sec
      /\ ~ Sec!check_locked => ~ L.locked
  <2>1. CASE sec.locked /\ ~ Sec!check_locked
    <3>1. L = [sec EXCEPT !.locked = FALSE, !.fail_count = 0]
      BY <2>1 DEF Sec!LockChecked
    <3>2. 0 \in 0 .. MaxAttempts
      BY <1>1
    <3> HIDE DEF L
    <3> QED
      BY <1>1, <2>1, <3>1, <3>2 DEF Sec!Security
  <2>2. CASE ~ (sec.locked /\ ~ Sec!check_locked)
    <3>1. L = sec
      BY <2>2 DEF Sec!LockChecked
    <3> HIDE DEF L
    <3> QED
      BY <1>1, <2>2, <3>1
  <2> QED
    BY <2>1, <2>2
<1> HIDE DEF L
<1>3. ~ (sec' = sec /\ failures' = failures)
  BY <1>1 DEF AttemptsTakenBack, Sec!Security
\* A request that compares no key: only an elapsed lockout goes.
<1>4. ASSUME ~ Sec!check_locked, failures' = failures,
             sec'.fail_count = L.fail_count, sec'.locked = L.locked,
             sec'.locked_ts = L.locked_ts
      PROVE  LockoutOver
  <2>1. CASE L = sec
    BY <1>1, <1>4, <2>1 DEF AttemptsTakenBack, Sec!Security
  <2>2. CASE sec.locked /\ ~ Sec!check_locked
    BY <1>1, <1>4, <2>2 DEF LockoutOver
  <2> QED
    BY <1>2, <2>1, <2>2
<1>5. ASSUME NEW sub_fn, NEW seed, RequestSeed(sub_fn, seed)
      PROVE  LockoutOver
  <2>1. CASE ~ Sec!check_locked
    <3>1. failures' = failures
          /\ \/ sec' = L
             \/ sec' = [L EXCEPT !.seed = seed, !.seed_valid = TRUE,
                                 !.pending_level = sub_fn, !.seed_ts = now]
      BY <1>5, <2>1
         DEF RequestSeed, Sec!uds_core_sec_request_seed, Sec!Answer, Sec!history, L
    <3>2. /\ sec'.fail_count = L.fail_count /\ sec'.locked = L.locked
          /\ sec'.locked_ts = L.locked_ts
      BY <1>2, <3>1 DEF Sec!Security
    <3> QED
      BY <1>4, <2>1, <3>1, <3>2
  <2>2. CASE Sec!check_locked
    BY <1>3, <1>5, <2>2
       DEF RequestSeed, Sec!uds_core_sec_request_seed, Sec!Answer, Sec!history
  <2> QED
    BY <2>1, <2>2
<1>6. ASSUME NEW sub_fn, NEW key, NEW len_ok, SendKey(sub_fn, key, len_ok)
      PROVE  AnsweredRightKey \/ LockoutOver
  <2>1. Sec!uds_core_sec_send_key(sub_fn, key, len_ok)
    BY <1>6 DEF SendKey
  <2>2. CASE sec' = sec /\ failures' = failures
    BY <1>3, <2>2
  <2>3. CASE ~ Sec!check_locked /\ failures' = failures
             /\ sec' \in {L, [L EXCEPT !.seed_valid = FALSE]}
    <3>1. /\ sec'.fail_count = L.fail_count /\ sec'.locked = L.locked
          /\ sec'.locked_ts = L.locked_ts
      BY <1>2, <2>3 DEF Sec!Security
    <3> QED
      BY <1>4, <2>3, <3>1
  <2>4. CASE ~ Sec!check_locked /\ Sec!WrongKey
    <3> DEFINE failed == [L EXCEPT !.fail_count = L.fail_count + 1, !.seed_valid = FALSE]
    <3>1. /\ failures' = Append(failures, now)
          /\ \/ sec' = failed
             \/ sec' = [failed EXCEPT !.locked = TRUE, !.locked_ts = now]
      BY <2>4 DEF Sec!WrongKey, Sec!Answer, L
    <3>2. Len(failures') >= Len(failures)
      BY <1>1, <3>1
    <3>3. failed.fail_count = L.fail_count + 1
          /\ [failed EXCEPT !.locked = TRUE, !.locked_ts = now].fail_count = L.fail_count + 1
      BY <1>2 DEF Sec!Security
    <3>4. sec'.fail_count = L.fail_count + 1
      BY <3>1, <3>3
    <3>5. CASE L = sec
      <4>1. ~ sec.locked
        BY <1>2, <2>4, <3>5
      <4> QED
        BY <1>1, <3>2, <3>4, <3>5, <4>1 DEF AttemptsTakenBack, Sec!Security
    <3>6. CASE sec.locked /\ ~ Sec!check_locked
      BY <3>2, <3>6 DEF LockoutOver
    <3> QED
      BY <1>2, <3>5, <3>6
  <2>5. CASE /\ sec.seed_valid /\ sec.pending_level = sub_fn - 1
             /\ Sec!RightKey(sub_fn - 1)
    <3>1. /\ secReply' = Positive
          /\ sec' = [L EXCEPT !.seed_valid = FALSE, !.fail_count = 0,
                              !.unlocked_level = sub_fn - 1]
      BY <2>5 DEF Sec!RightKey, Sec!Answer, Sec!Positive, Positive, L
    <3>2. ~ sec'.seed_valid /\ sec'.unlocked_level = sub_fn - 1
      BY <1>2, <3>1 DEF Sec!Security
    <3> QED
      BY <2>5, <3>1, <3>2 DEF AnsweredRightKey
  <2> QED
    BY <2>1, <2>2, <2>3, <2>4, <2>5
       DEF Sec!uds_core_sec_send_key, Sec!Answer, Sec!history, L
<1> QED
  BY <1>5, <1>6 DEF SecurityService

\* Between resets nothing but the right key and the end of a lockout takes wrong
\* keys back, whatever services a tester puts in between; and of the wrong keys
\* on record, any MaxAttempts + 1 in a row span a lockout.
THEOREM EcuAttemptsRateLimited == Spec => []Sec!AttemptRate /\ AttemptsKept
<1> DEFINE Kept == AttemptsTakenBack => AcceptedReset \/ AnsweredRightKey \/ LockoutOver
<1>1. Sec!TypeOK /\ [Next]_vars => [Kept]_vars
  <2> SUFFICES ASSUME Sec!TypeOK, Next, AttemptsTakenBack
               PROVE  AcceptedReset \/ AnsweredRightKey \/ LockoutOver
    OBVIOUS
  <2>1. ~ UNCHANGED <<sec, failures>>
    BY DEF AttemptsTakenBack, Sec!TypeOK, Sec!Security
  <2>2. CASE Malformed \/ SessionService \/ DataService
    BY <2>1, <2>2, OtherServices DEF secVars
  <2>3. CASE SecurityService
    BY <2>3, SecurityServiceKeeps
  <2>4. CASE FlashService
    BY <2>1, <2>4 DEF FlashService, secVars
  <2>5. CASE Tick
    BY <2>1, <2>5 DEF Tick, Sec!Tick, Sec!history
  <2> QED
    BY <2>2, <2>3, <2>4, <2>5 DEF Next, ecusim_dispatch
<1>2. Spec => [][Kept]_vars
  BY <1>1, SecTyped, PTL DEF Spec
<1> QED
  BY <1>2, RecordRateLimited DEF AttemptsKept


\* Nothing but a write in a sufficient session changes an identifier, and a
\* secured one needs the right key for level 1, not taken back since.
THEOREM WritesGated == Spec => DidWritesGated
<1> DEFINE Gated ==
      \A d \in Dids : did'[d] # did[d] =>
         /\ DidTable[d].writable
         /\ session.type >= DidTable[d].min_write_session
         /\ DidTable[d].requires_security => granted = 1
<1>1. IInv /\ [Next]_vars => [Gated]_vars
  <2> SUFFICES ASSUME IInv, Next PROVE Gated
    OBVIOUS
  <2>1. CASE UNCHANGED did
    BY <2>1
  <2>2. ASSUME NEW d \in Dids, NEW value, MayWrite(d), did' = [did EXCEPT ![d] = value]
        PROVE  Gated
    <3>1. \A e \in Dids \ {d} : did'[e] = did[e]
      BY <2>2 DEF IInv, TypeOK
    <3>2. DidTable[d].requires_security => granted = 1
      BY <2>2 DEF MayWrite, Sec!uds_core_sec_is_unlocked, IInv, SecurityLevelSound
    <3> QED
      BY <2>2, <3>1, <3>2 DEF MayWrite
  <2>3. CASE DataService
    BY <2>1, <2>2, <2>3
       DEF DataService, uds_svc_read_did, uds_svc_write_did, uds_svc_comm_control,
           uds_svc_clear_dtc, uds_svc_read_dtc, Respond
  <2>4. CASE ~ DataService
    BY <2>1, <2>4
       DEF Next, ecusim_dispatch, Malformed, SessionService, SecurityService, FlashService,
           Tick, uds_core_dsc, uds_core_tester_present, uds_svc_ecu_reset, RequestSeed,
           SendKey, Respond, coreVars
  <2> QED
    BY <2>3, <2>4
<1> QED
  BY <1>1, Inductive, PTL DEF Spec, DidWritesGated
=============================================================================
