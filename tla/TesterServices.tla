--------------------------- MODULE TesterServices ---------------------------
(***************************************************************************)
(* The tester's session, security, data and trouble code services          *)
(* (src/tools/uds/session.py, security.py, data.py, dtc.py) on             *)
(* UdsClient._request (client.py), talking to the ECU of EcuServer through *)
(* a request and a response channel.                                       *)
(*                                                                         *)
(* The channels carry whole PDUs in order, as PduChannel promises, on one  *)
(* of three buses: "clean", "lossy", where PDUs get lost, and "late", where*)
(* the client may time out too early instead.  PDUs are sequences of bytes,*)
(* because the two sides meet in nothing but their layout; seeds and keys  *)
(* are one byte long.  A call that raises may be followed by any other     *)
(* call on the same client.                                                *)
(*                                                                         *)
(* The ECU's clock stands still: seeds and lockouts that expire are        *)
(* EcuServer's.                                                            *)
(***************************************************************************)
EXTENDS Integers, Sequences, FiniteSets, SequencesExt

CONSTANTS
  WordMod, FlashSize, Regions, Byte, EraseValue, MaxBlockData, SeqMax, MaxDataLen,
  Levels, Seeds, KeyOf, MaxAttempts, LockoutSecs, SeedTimeoutSecs, MaxTime,
  Dids, UnknownDid, DidTable, DidValues, DidDefaults, DtcCodes, DtcDefaults,
  MaxDidList,     \* as in EcuServer
  DrawnSeeds,     \* the seeds that rand() draws
  P2, P2Star,     \* p2_ms and p2_star_ms of the ECU's session (50, 2000)
  Buses,          \* the buses considered
  Calls,          \* the calls considered
  MaxPending,     \* _MAX_PENDING_RETRIES
  MaxInFlight,    \* bound: no call is started with that many PDUs in flight
  MaxDisturb      \* bound: lost PDUs and RESPONSE_PENDING answers

ASSUME ServicesAssumption ==
  /\ DrawnSeeds \subseteq Seeds
  /\ Buses \subseteq {"clean", "lossy", "late"}
  /\ {P2, P2Star, MaxPending, MaxInFlight, MaxDisturb} \subseteq Nat
  /\ P2Star % 10 = 0                       \* it is sent in units of 10 ms
  /\ Seeds \subseteq Nat /\ DidValues \subseteq Seq(Nat)

\* The two times are uint16_t fields, which is what TwoBytes holds.
ASSUME TimesAssumption == P2 < 256 * 256 /\ P2Star < 256 * 256

VARIABLES
  now, sec, secReply, issued, failures, data, xfer, flashReply, origin, image,
  counters, session, did, dtc, ecuReply, granted,    \* the ECU
  reqs,      \* requests on their way to the ECU
  resps,     \* responses on their way to the client
  bus,       \* the bus of this behaviour
  disturbed, \* disturbances so far
  call,      \* the current or last call
  pc,        \* "idle", "recv", or "key" when unlock waits for its second response
  attempts,  \* turns of the loop in _request
  response,  \* what _request returned last
  outcome    \* how the last call ended

Ecu == INSTANCE EcuServer WITH reply <- ecuReply

ASSUME EcuAssumption == Ecu!ServerAssumption /\ Ecu!ComponentsAssumption

ecuVars == <<now, sec, secReply, issued, failures, data, xfer, flashReply, origin, image,
             counters, session, did, dtc, ecuReply, granted>>
callVars == <<call, pc, attempts, response, outcome>>
vars == <<ecuVars, reqs, resps, bus, disturbed, callVars>>

----------------------------------------------------------------------------
(* The calls: a method and the request it starts with *)

change_session(session_type) == [op |-> "change_session", request |-> <<16, session_type>>]
tester_present(suppress) ==
  [op |-> "tester_present", request |-> <<62, IF suppress THEN 128 ELSE 0>>]
unlock(level) == [op |-> "unlock", request |-> <<39, level>>]
read(dids) == [op |-> "read", request |-> <<34>> \o FlattenSeq(dids)]
write(did_id, bytes) == [op |-> "write", request |-> <<46>> \o did_id \o bytes]
ecu_reset(reset_type) == [op |-> "ecu_reset", request |-> <<17, reset_type>>]
comm_control(control_type, comm_type) ==
  [op |-> "comm_control", request |-> <<40, control_type, comm_type>>]
read_count(status_mask) == [op |-> "read_count", request |-> <<25, 1, status_mask>>]
read_by_status(status_mask) == [op |-> "read_by_status", request |-> <<25, 2, status_mask>>]
read_all == [op |-> "read_all", request |-> <<25, 10>>]
clear(group) == [op |-> "clear", request |-> <<20>> \o group]

\* The identifiers in a request, read by both sides.
DidList(request) ==
  [i \in 1 .. (Len(request) - 1) \div 2 |-> <<request[2 * i], request[2 * i + 1]>>]

\* The calls that a program can make of these methods.
MethodCall(c) ==
  LET r == c.request IN
  \/ c.op = "change_session" /\ c = change_session(r[2])
  \/ \E suppress \in BOOLEAN : c = tester_present(suppress)
  \/ \E level \in Levels : c = unlock(level)
  \/ c.op = "read" /\ c = read(DidList(r))
  \/ c.op = "write" /\ c = write(<<r[2], r[3]>>, SubSeq(r, 4, Len(r)))
  \/ c.op = "ecu_reset" /\ c = ecu_reset(r[2])
  \/ c.op = "comm_control" /\ c = comm_control(r[2], r[3])
  \/ c.op = "read_count" /\ c = read_count(r[3])
  \/ c.op = "read_by_status" /\ c = read_by_status(r[3])
  \/ c = read_all
  \/ c.op = "clear" /\ c = clear(<<r[2], r[3], r[4]>>)

\* DidValues holds the values of the right length that the calls write, and no
\* trouble code is the group of all of them.
ASSUME CallsAssumption ==
  /\ \A c \in Calls : c.request \in Seq(Nat) /\ MethodCall(c)
  /\ \A c \in Calls : c.op = "write" =>
       LET d == <<c.request[2], c.request[3]>>
           bytes == SubSeq(c.request, 4, Len(c.request))
       IN  d \in Dids /\ Len(bytes) = DidTable[d].data_len => bytes \in DidValues
  /\ \A i \in DOMAIN DtcCodes : DtcCodes[i] # Ecu!AllDtcs

----------------------------------------------------------------------------
(* What the calls return, as functions of the response *)

Word(high, low) == high * 256 + low

ReadSession(resp) ==
  [session_type |-> resp[2], p2_ms |-> Word(resp[3], resp[4]),
   p2_star_ms |-> Word(resp[5], resp[6]) * 10]

\* Mutant of NextStart: the bytes of the identifier before are skipped twice.
NextStartLate(payload, from, next_did) ==
  LET found == {j \in from + 2 .. Len(payload) - 1 : <<payload[j], payload[j + 1]>> = next_did}
  IN  IF found = {} THEN Len(payload) + 1 ELSE CHOOSE j \in found : \A k \in found : j <= k

\* Where the next identifier's record starts: at the first occurrence of its
\* two bytes from there on.
NextStart(payload, from, next_did) ==
  LET found == {j \in from .. Len(payload) - 1 : <<payload[j], payload[j + 1]>> = next_did}
  IN  IF found = {} THEN Len(payload) + 1 ELSE CHOOSE j \in found : \A k \in found : j <= k

\* The mapping that read() returns.
ReadDids(dids, resp) ==
  LET payload == Tail(resp)
      n == Len(dids)
      start[i \in 1 .. n + 1] ==
        CASE i = 1 -> 1
          [] i = n + 1 -> Len(payload) + 1
          [] OTHER -> NextStart(payload, start[i - 1] + 2, dids[i])
      whole == {i \in 1 .. n : start[i] + 1 <= Len(payload)}
      DidAt(i) == SubSeq(payload, start[i], start[i] + 1)
      Latest(d) == CHOOSE i \in whole : DidAt(i) = d /\ \A k \in whole : DidAt(k) = d => k <= i
  IN  [d \in {DidAt(i) : i \in whole} |->
         SubSeq(payload, start[Latest(d)] + 2, start[Latest(d) + 1] - 1)]

ReadCount(resp) == Word(resp[4], resp[5])

_parse_dtc_records(bytes) ==
  [i \in 1 .. Len(bytes) \div 4 |->
     [code |-> SubSeq(bytes, 4 * i - 3, 4 * i - 1), status |-> bytes[4 * i]]]

compute_key(seed) == [i \in DOMAIN seed |-> KeyOf[seed[i]]]

----------------------------------------------------------------------------
(* The calls step by step *)

\* The head of _request: the request is sent whatever is still in resps.
Send(request, next) ==
  /\ reqs' = Append(reqs, request)
  /\ pc' = next
  /\ attempts' = 0

\* Mutant of Finish: the call goes on waiting.
FinishKeepsWaiting(how) ==
  /\ outcome' = how
  /\ UNCHANGED <<reqs, call, pc, attempts>>

Finish(how) ==
  /\ outcome' = how
  /\ pc' = "idle"
  /\ UNCHANGED <<reqs, call, attempts>>

\* Mutant of StartCall: a suppressed response is waited for.
StartCallWaits(c) ==
  /\ pc = "idle"
  /\ Len(reqs) + Len(resps) < MaxInFlight
  /\ call' = c
  /\ response' = <<>>
  /\ Send(c.request, "recv")
  /\ outcome' = "none"
  /\ UNCHANGED <<ecuVars, resps, bus, disturbed>>

\* A suppressed tester_present does not wait for a response.
StartCall(c) ==
  /\ pc = "idle"
  /\ Len(reqs) + Len(resps) < MaxInFlight
  /\ call' = c
  /\ response' = <<>>
  /\ \/ /\ c = tester_present(TRUE)
        /\ Send(c.request, "idle")
        /\ outcome' = "ok"
     \/ /\ c # tester_present(TRUE)
        /\ Send(c.request, "recv")
        /\ outcome' = "none"
  /\ UNCHANGED <<ecuVars, resps, bus, disturbed>>

\* The responses that do not raise UdsProtocolError: write, tester_present,
\* ecu_reset, comm_control and clear take any.
Expected(resp) ==
  LET first == IF resp = <<>> THEN 0 ELSE resp[1] IN
  CASE call.op = "change_session" -> Len(resp) >= 6 /\ first = 80
    [] call.op = "unlock" -> Len(resp) >= 2 /\ first = 103
    [] call.op = "read" -> first = 98
    [] call.op = "read_count" -> Len(resp) >= 5 /\ first = 89 /\ resp[2] = 1
    [] call.op = "read_by_status" -> Len(resp) >= 3 /\ first = 89 /\ resp[2] = 2
    [] call.op = "read_all" -> Len(resp) >= 3 /\ first = 89 /\ resp[2] = 10
    [] OTHER -> TRUE

\* Mutant of Proceed: unlock is done when it has the seed.
ProceedWithoutKey(resp) == Finish("ok")

\* unlock has the seed, which may be all zeros; everything else is done.
Proceed(resp) ==
  LET seed == SubSeq(resp, 3, Len(resp))
      wants_key == call.op = "unlock" /\ pc = "recv" /\ \E i \in DOMAIN seed : seed[i] # 0
  IN  \/ /\ wants_key
         /\ Send(<<39, call.request[2] + 1>> \o compute_key(seed), "key")
         /\ UNCHANGED <<call, outcome>>
      \/ ~ wants_key /\ Finish("ok")

Negative(resp) == Len(resp) >= 3 /\ resp[1] = 127
Pending(resp) == Negative(resp) /\ resp[3] = 120

_request ==
  LET resp == Head(resps) IN
  /\ pc # "idle"
  /\ resps # <<>>
  /\ resps' = Tail(resps)
  /\ \/ /\ Pending(resp) /\ attempts < MaxPending
        /\ attempts' = attempts + 1
        /\ UNCHANGED <<reqs, call, pc, response, outcome>>
     \/ /\ Negative(resp) /\ (Pending(resp) => attempts >= MaxPending)
        /\ Finish("UdsNrcError")
        /\ UNCHANGED response
     \/ /\ ~ Negative(resp)
        /\ response' = resp
        /\ \/ ~ Expected(resp) /\ Finish("UdsProtocolError")
           \/ Expected(resp) /\ Proceed(resp)
  /\ UNCHANGED <<ecuVars, bus, disturbed>>

\* Mutant of Timeout: the client keeps on waiting.
TimeoutRetries ==
  /\ pc # "idle" /\ resps = <<>>
  /\ UNCHANGED vars

\* recv raises UdsTimeoutError: on a late bus at any time, otherwise only when
\* no answer is under way.
Timeout ==
  /\ pc # "idle" /\ resps = <<>>
  /\ bus = "late" \/ reqs = <<>>
  /\ Finish("UdsTimeoutError")
  /\ UNCHANGED <<ecuVars, resps, bus, disturbed, response>>

----------------------------------------------------------------------------
(* The ECU: ecusim_run takes a request, dispatches it and responds. *)

\* The dispatcher's check of the length.
TooShort(req) ==
  LET sid == req[1] IN
  \/ sid \in {16, 17, 25, 39, 62} /\ Len(req) < 2
  \/ sid = 34 /\ (Len(req) < 3 \/ Len(req) % 2 = 0)
  \/ sid = 40 /\ Len(req) < 3
  \/ sid \in {20, 46} /\ Len(req) < 4
  \/ sid = 25 /\ req[2] \in {1, 2} /\ Len(req) < 3

ecusim_dispatch(req) ==
  LET sid == req[1] IN
  \/ TooShort(req) /\ Ecu!Respond("INCORRECT_MSG_LEN_OR_FORMAT")
  \/ /\ ~ TooShort(req)
     /\ CASE sid = 16 -> Ecu!uds_core_dsc(req[2])
          [] sid = 62 -> Ecu!uds_core_tester_present(req[2] % 128 = 0, req[2] >= 128)
          [] sid = 39 ->
               \/ req[2] % 2 = 1 /\ \E seed \in DrawnSeeds : Ecu!RequestSeed(req[2], seed)
               \/ req[2] % 2 = 0 /\ Ecu!SendKey(req[2], req[3], Len(req) = 3)
          [] sid = 34 -> Ecu!uds_svc_read_did(DidList(req))
          [] sid = 46 -> Ecu!uds_svc_write_did(<<req[2], req[3]>>, SubSeq(req, 4, Len(req)))
          [] sid = 17 -> Ecu!uds_svc_ecu_reset(req[2])
          [] sid = 40 -> Ecu!uds_svc_comm_control(req[2], req[3])
          [] sid = 20 -> Ecu!uds_svc_clear_dtc(SubSeq(req, 2, 4))
          [] sid = 25 -> Ecu!uds_svc_read_dtc(req[2])

\* UdsNrc
NrcByte ==
  [SERVICE_NOT_SUPPORTED |-> 17, SUB_FUNCTION_NOT_SUPPORTED |-> 18,
   INCORRECT_MSG_LEN_OR_FORMAT |-> 19, REQUEST_SEQUENCE_ERROR |-> 36,
   REQUEST_OUT_OF_RANGE |-> 49, SECURITY_ACCESS_DENIED |-> 51, INVALID_KEY |-> 53,
   EXCEEDED_NUMBER_OF_ATTEMPTS |-> 54]

build_nrc(sid, nrc) == <<127, sid, NrcByte[nrc]>>

TwoBytes(n) == <<n \div 256, n % 256>>

HasBit(byte, b) == (byte \div 2^b) % 2 = 1

\* status & mask is not 0.
Selected(status, mask) == \E b \in 0 .. 7 : HasBit(status, b) /\ HasBit(mask, b)

\* Mutant of Matching: every code with a status is reported.
MatchingAnyStatus(status_mask) == {i \in DOMAIN DtcCodes : dtc[i] # 0}

Matching(status_mask) == {i \in DOMAIN DtcCodes : Selected(dtc[i], status_mask)}

DtcRecords(codes) ==
  FlattenSeq([i \in DOMAIN DtcCodes |->
                IF i \in codes THEN Append(DtcCodes[i], dtc[i]) ELSE <<>>])

ReportDtcs(sub_fn, status_mask) ==
  CASE sub_fn = 1 -> <<89, 1, 255, 1>> \o TwoBytes(Cardinality(Matching(status_mask)))
    [] sub_fn = 2 -> <<89, 2, status_mask>> \o DtcRecords(Matching(status_mask))
    [] sub_fn = 10 -> <<89, 10, 255>> \o DtcRecords(DOMAIN DtcCodes)

\* The positive response to a request, with the state of before it.
PositiveResponse(req) ==
  LET sid == req[1] IN
  CASE sid = 16 -> <<80, req[2]>> \o TwoBytes(P2) \o TwoBytes(P2Star \div 10)
    [] sid = 62 -> <<126, 0>>
    [] sid = 39 ->
         IF req[2] % 2 = 1
         THEN <<103, req[2], IF sec.unlocked_level = req[2] THEN 0 ELSE sec'.seed>>
         ELSE <<103, req[2]>>
    [] sid = 34 ->
         <<98>> \o FlattenSeq([i \in DOMAIN DidList(req) |->
                                 DidList(req)[i] \o did[DidList(req)[i]]])
    [] sid = 46 -> <<110, req[2], req[3]>>
    [] sid = 17 -> <<81, req[2]>>
    [] sid = 40 -> <<104, req[2]>>
    [] sid = 20 -> <<84>>
    [] sid = 25 -> ReportDtcs(req[2], IF Len(req) > 2 THEN req[3] ELSE 255)

ecusim_run ==
  LET req == Head(reqs)
      answer == IF req[1] = 39 THEN secReply' ELSE ecuReply'
  IN  /\ reqs # <<>>
      /\ reqs' = Tail(reqs)
      /\ ecusim_dispatch(req)
      /\ resps' = CASE answer = Ecu!NoReply -> resps
                    [] answer = Ecu!Positive -> Append(resps, PositiveResponse(req))
                    [] OTHER -> Append(resps, build_nrc(req[1], answer))
      /\ UNCHANGED <<bus, disturbed, callVars>>

----------------------------------------------------------------------------
(* The bus *)

Disturb == disturbed < MaxDisturb /\ disturbed' = disturbed + 1

LosePdu ==
  /\ bus = "lossy"
  /\ Disturb
  /\ \/ reqs # <<>> /\ reqs' = Tail(reqs) /\ UNCHANGED resps
     \/ resps # <<>> /\ resps' = Tail(resps) /\ UNCHANGED reqs
  /\ UNCHANGED <<ecuVars, bus, callVars>>

\* An ECU slower than this one announces its response.
ResponsePending ==
  /\ Disturb
  /\ pc # "idle"
  /\ reqs # <<>>
  /\ resps' = Append(resps, <<127, Head(reqs)[1], 120>>)
  /\ UNCHANGED <<ecuVars, reqs, bus, callVars>>

----------------------------------------------------------------------------
NoCall == [op |-> "none", request |-> <<>>]

Init ==
  /\ Ecu!ecusim_init
  /\ reqs = <<>> /\ resps = <<>>
  /\ bus \in Buses
  /\ disturbed = 0
  /\ call = NoCall /\ pc = "idle" /\ attempts = 0 /\ response = <<>> /\ outcome = "none"

Next ==
  \/ \E c \in Calls : StartCall(c)
  \/ _request
  \/ Timeout
  \/ ecusim_run
  \/ LosePdu
  \/ ResponsePending

(***************************************************************************)
(* The client keeps running, its recv() ends with a response or with the   *)
(* timeout, and the ECU keeps serving.                                     *)
(***************************************************************************)
Fairness == WF_vars(_request \/ Timeout) /\ WF_vars(ecusim_run)

Spec == Init /\ [][Next]_vars /\ Fairness

----------------------------------------------------------------------------
(* Properties *)

TypeOK ==
  /\ pc \in {"idle", "recv", "key"}
  /\ attempts \in 0 .. MaxPending
  /\ outcome \in {"none", "ok", "UdsNrcError", "UdsProtocolError", "UdsTimeoutError"}
  /\ pc # "idle" <=> (outcome = "none" /\ call # NoCall)

Returned(op) == outcome = "ok" /\ call.op = op

\* A response is the one to the current request.  A client that gives up early,
\* or after too many RESPONSE_PENDING answers, leaves its response to the next
\* call.
InStep == bus # "late" /\ disturbed <= MaxPending

\* No value, with the first byte of the identifier after it, contains the two
\* bytes of that identifier.
Unambiguous(dids) ==
  \A i \in 1 .. Len(dids) - 1 :
    \A j \in DOMAIN did[dids[i]] :
      SubSeq(did[dids[i]] \o dids[i + 1], j, j + 1) # dids[i + 1]

\* What read() returns is what the registry holds for every identifier asked
\* for, and nothing else: the split of the response by searching for the next
\* identifier finds the ECU's record boundaries, unless a value contains them.
ReadOk ==
  LET dids == DidList(call.request) IN
  Returned("read") /\ InStep /\ Unambiguous(dids) =>
    ReadDids(dids, response) = [d \in {dids[i] : i \in DOMAIN dids} |-> did[d]]

\* When unlock() returns True, the ECU has granted the level asked for, or has
\* drawn a random seed of zeros, which the tester takes for "already unlocked".
UnlockOk ==
  Returned("unlock") /\ InStep =>
    \/ sec.unlocked_level = call.request[2]
    \/ sec.seed_valid /\ sec.seed = 0

\* When the other calls return, the ECU has done or reports what was asked for:
\* the session and its times in milliseconds, the value written, the trouble
\* codes of the status asked for and theirs only, no trouble code after clear.
ReportsOk ==
  InStep =>
    /\ Returned("change_session") =>
         ReadSession(response) =
           [session_type |-> session.type, p2_ms |-> P2, p2_star_ms |-> P2Star]
    /\ Returned("write") =>
         did[SubSeq(call.request, 2, 3)] = SubSeq(call.request, 4, Len(call.request))
    /\ Returned("ecu_reset") => session.type = Ecu!DEFAULT /\ sec.unlocked_level = 0
    /\ Returned("clear") =>
         \A i \in DOMAIN DtcCodes :
           SubSeq(call.request, 2, 4) = Ecu!AllDtcs \/ call.request[2] = DtcCodes[i][1]
             => dtc[i] = 0
    /\ Returned("read_by_status") \/ Returned("read_all") =>
         LET records == _parse_dtc_records(SubSeq(response, 4, Len(response))) IN
         {records[i] : i \in DOMAIN records} =
           {[code |-> DtcCodes[i], status |-> dtc[i]] :
              i \in {i \in DOMAIN DtcCodes :
                       call.op = "read_by_status" => Selected(dtc[i], call.request[3])}}

\* On a clean bus no call waits in vain or meets a response it does not
\* understand: an ECU that refuses says so, the suppressed response is not
\* waited for, and as many RESPONSE_PENDING answers as the client allows do no
\* harm.
CleanCallUnderstood ==
  bus = "clean" /\ InStep => outcome \notin {"UdsTimeoutError", "UdsProtocolError"}

\* Every call returns or raises.
CallEnds == pc # "idle" ~> pc = "idle"

\* dtc.py:35, "Number of matching DTCs."
CountOk ==
  Returned("read_count") => ReadCount(response) = Cardinality(Matching(call.request[3]))

\* security.py:61, "``True`` if the ECU granted access", "a failed key raises":
\* once the ECU has handled every request, and without seeds of zeros, the
\* level is unlocked, late responses or not.
UnlockGranted ==
  Returned("unlock") /\ reqs = <<>> => sec.unlocked_level = call.request[2]
=============================================================================
