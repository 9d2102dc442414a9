-------------------------- MODULE FlashProgrammer --------------------------
(***************************************************************************)
(* A flash job end to end: the tester's UdsFlashService                    *)
(* (src/tools/uds/flash.py) on UdsClient._request (client.py), talking to  *)
(* the ECU's FlashTransfer through a request and a response channel.       *)
(*                                                                         *)
(* The channels carry whole PDUs in order, as PduChannel promises.  The    *)
(* bus of a behaviour is "clean"; "lossy", where PDUs get lost and the     *)
(* client times out; or "faulty", where PDUs get lost and the client may   *)
(* also time out before the answer is there.  A job that fails raises an   *)
(* exception, and the user of the library may start another one on the     *)
(* same client: requests and responses of the failed job stay in flight.   *)
(***************************************************************************)
EXTENDS Integers, Sequences

CONSTANTS
  WordMod, FlashSize, Regions, Byte, EraseValue, MaxBlockData, SeqMax, MaxDataLen,
  Buses,          \* the buses considered
  Radix,          \* values of a byte on the wire (256)
  WordBytes,      \* bytes of a uint32_t (4)
  Jobs,           \* the arguments of the calls
  MaxPending,     \* _MAX_PENDING_RETRIES
  MaxInFlight,    \* bound: no job is started with that many PDUs in flight
  MaxDisturb      \* bound: lost PDUs and RESPONSE_PENDING answers

\* The number of values n bytes have.
Power[n \in 0 .. WordBytes] == IF n = 0 THEN 1 ELSE Radix * Power[n - 1]

ASSUME ProgrammerAssumption ==
  /\ Buses \subseteq {"clean", "lossy", "faulty"}
  /\ Radix \in Nat \ {0, 1} /\ WordBytes \in 1 .. 15 /\ WordMod = Power[WordBytes]
  /\ \A j \in Jobs : /\ j.kind \in {"download", "upload"}
                     /\ j.address \in Nat /\ j.length \in Nat \ {0}
                     /\ {j.addr_len, j.size_len} \subseteq 1 .. WordBytes
                     /\ j.kind = "download" => j.bytes \in [1 .. j.length -> Byte]
  /\ MaxPending \in Nat /\ MaxInFlight \in Nat /\ MaxDisturb \in Nat

VARIABLES
  data, xfer, ecuReply, origin, image, counters,   \* the ECU
  reqs,      \* requests on their way to the ECU
  resps,     \* responses on their way to the client
  bus,       \* the bus of this behaviour
  disturbed, \* disturbances so far
  lost,      \* history: a PDU was lost
  clear,     \* history: no PDU was in flight when the last call started
  job,       \* arguments of the download() or upload() call
  pc,        \* the request whose response the call waits for; "idle"
  pos,       \* download: offset; upload: len(result)
  block_sn,  \* block sequence counter
  result,    \* upload: the bytes collected
  attempts,  \* turns of the loop in _request
  outcome    \* how the last call ended

Ecu == INSTANCE FlashTransfer WITH reply <- ecuReply

\* What the ECU assumes of its constants.
ASSUME EcuAssumption == Ecu!SizesAssumption /\ Ecu!RegionsAssumption

ecuVars == <<data, xfer, ecuReply, origin, image, counters>>
callVars == <<job, pc, pos, block_sn, result, attempts, outcome>>
vars == <<ecuVars, reqs, resps, bus, disturbed, lost, clear, callVars>>

----------------------------------------------------------------------------
(* flash.py *)

\* chunk_size: max_block_len is taken to include the counter.
chunk_size == IF MaxBlockData - 1 > 1 THEN MaxBlockData - 1 ELSE 1

\* Mutant of NextSn: the counter wraps to 0 as a byte does.
NextSnByte(sn) == (sn + 1) % (SeqMax + 1)

NextSn(sn) == IF sn >= SeqMax THEN 1 ELSE sn + 1

\* data[offset : offset + chunk_size]
Chunk(offset) ==
  SubSeq(job.bytes, offset + 1,
         IF offset + chunk_size < job.length THEN offset + chunk_size ELSE job.length)

Request(sid, sn, bytes) == [sid |-> sid, sn |-> sn, bytes |-> bytes, fmt |-> 0]

\* int.to_bytes(len, "big"), which raises OverflowError unless n fits.
to_bytes(n, len) == [i \in 1 .. len |-> (n \div Power[len - i]) % Radix]
Fits(j) == j.address < Power[j.addr_len] /\ j.length < Power[j.size_len]

\* The request of _request_download or _request_upload.
StartRequest(j) ==
  [Request(IF j.kind = "download" THEN "34" ELSE "35", 0,
           to_bytes(j.address, j.addr_len) \o to_bytes(j.length, j.size_len))
     EXCEPT !.fmt = (j.size_len % 16) * 16 + (j.addr_len % 16)]

\* The head of _request: the request is sent whatever is still in resps.
Send(request) ==
  /\ reqs' = Append(reqs, request)
  /\ pc' = request.sid
  /\ attempts' = 0

\* download() and upload() start with _request_download or _request_upload.
\* Arguments that do not fit raise before anything is sent.
StartJob(j) ==
  /\ pc = "idle"
  /\ Len(reqs) + Len(resps) < MaxInFlight
  /\ job' = j
  /\ pos' = 0 /\ block_sn' = 1 /\ result' = <<>>
  /\ \/ Fits(j) /\ Send(StartRequest(j)) /\ outcome' = "none"
     \/ ~ Fits(j) /\ outcome' = "error" /\ UNCHANGED <<reqs, pc, attempts>>
  /\ clear' = (reqs = <<>> /\ resps = <<>>)
  /\ UNCHANGED <<ecuVars, resps, bus, disturbed, lost>>

Finish(how) ==
  /\ outcome' = how
  /\ pc' = "idle"
  /\ UNCHANGED <<reqs, job, pos, block_sn, result, attempts>>

\* The loop test of download() and upload() at position p: the next block with
\* counter sn, or the end of the transfer.
NextRequest(p, sn) ==
  IF p >= job.length THEN Request("37", 0, <<>>)
  ELSE Request("36", sn, IF job.kind = "download" THEN Chunk(p) ELSE <<>>)

AfterStart ==
  /\ pc \in {"34", "35"}
  /\ Send(NextRequest(0, 1))
  /\ UNCHANGED <<job, pos, block_sn, result, outcome>>

AfterBlock(resp) ==
  LET chunk == IF job.kind = "download" THEN Chunk(pos) ELSE resp.bytes IN
  /\ pc = "36"
  /\ pos' = pos + Len(chunk)
  /\ block_sn' = NextSn(block_sn)
  /\ result' = IF job.kind = "upload" THEN result \o resp.bytes ELSE result
  /\ Send(NextRequest(pos + Len(chunk), NextSn(block_sn)))
  /\ UNCHANGED <<job, outcome>>

AfterExit == pc = "37" /\ Finish("ok")

----------------------------------------------------------------------------
(* client.py *)

\* Mutant of Expected: any response will do.
ExpectedAny(resp) == TRUE

\* Neither a negative response nor one to another service: the request a
\* response answers is not looked at any further.
Expected(resp) == resp.ok /\ resp.sid = pc

_request ==
  LET resp == Head(resps) IN
  /\ pc # "idle"
  /\ resps # <<>>
  /\ resps' = Tail(resps)
  /\ \/ /\ resp.nrc = "RESPONSE_PENDING" /\ attempts < MaxPending
        /\ attempts' = attempts + 1
        /\ UNCHANGED <<reqs, job, pc, pos, block_sn, result, outcome>>
     \/ /\ resp.nrc = "RESPONSE_PENDING" /\ attempts >= MaxPending
        /\ Finish("error")
     \/ /\ resp.nrc # "RESPONSE_PENDING" /\ ~ Expected(resp)
        /\ Finish("error")
     \/ /\ resp.nrc # "RESPONSE_PENDING" /\ Expected(resp)
        /\ AfterStart \/ AfterBlock(resp) \/ AfterExit
  /\ UNCHANGED <<ecuVars, bus, disturbed, lost, clear>>

\* Mutant of Timeout: the client keeps on waiting.
TimeoutRetries ==
  /\ pc # "idle" /\ resps = <<>>
  /\ UNCHANGED vars

\* recv raises UdsTimeoutError: on a faulty bus at any time, otherwise only
\* when no answer is under way.
Timeout ==
  /\ pc # "idle" /\ resps = <<>>
  /\ bus = "faulty" \/ reqs = <<>>
  /\ Finish("error")
  /\ UNCHANGED <<ecuVars, resps, bus, disturbed, lost, clear>>

----------------------------------------------------------------------------
(* The ECU: ecusim_run takes a request, dispatches it and responds. *)

\* A big-endian field, shifted into a uint32_t byte by byte.
WordUpTo(bytes) ==
  LET upTo[i \in 0 .. Len(bytes)] ==
        IF i = 0 THEN 0 ELSE (upTo[i - 1] * Radix + bytes[i]) % WordMod
  IN  upTo
Word(bytes) == WordUpTo(bytes)[Len(bytes)]

\* Mutant of parse_addr_len_fmt: the nibbles as the function's comment has them.
ParseAddressHighNibble(fmt, bytes) ==
  LET addr_bytes == (fmt \div 16) % 16
      size_bytes == fmt % 16
      ok == {addr_bytes, size_bytes} \subseteq 1 .. WordBytes
            /\ Len(bytes) >= addr_bytes + size_bytes
  IN [ok |-> ok,
      address |-> IF ok THEN Word(SubSeq(bytes, 1, addr_bytes)) ELSE 0,
      mem_size |-> IF ok THEN Word(SubSeq(bytes, addr_bytes + 1,
                                          addr_bytes + size_bytes)) ELSE 0]

parse_addr_len_fmt(fmt, bytes) ==
  LET addr_bytes == fmt % 16
      size_bytes == (fmt \div 16) % 16
      ok == {addr_bytes, size_bytes} \subseteq 1 .. WordBytes
            /\ Len(bytes) >= addr_bytes + size_bytes
  IN [ok |-> ok,
      address |-> IF ok THEN Word(SubSeq(bytes, 1, addr_bytes)) ELSE 0,
      mem_size |-> IF ok THEN Word(SubSeq(bytes, addr_bytes + 1,
                                          addr_bytes + size_bytes)) ELSE 0]

EcuHandles(r) ==
  LET p == parse_addr_len_fmt(r.fmt, r.bytes) IN
  CASE r.sid = "34" -> Ecu!uds_svc_request_download(p.ok, p.address, p.mem_size)
    [] r.sid = "35" -> Ecu!uds_svc_request_upload(p.ok, p.address, p.mem_size)
    [] r.sid = "36" -> Ecu!uds_svc_transfer_data(r.sn, r.bytes)
    [] r.sid = "37" -> Ecu!uds_svc_transfer_exit

Response(r) ==
  [sid |-> r.sid, ok |-> ecuReply' = Ecu!Positive, nrc |-> ecuReply',
   bytes |-> IF r.sid = "36" /\ ecuReply' = Ecu!Positive /\ xfer.mode = "UPLOAD"
             THEN SubSeq(image', Len(image) + 1, Len(image')) ELSE <<>>]

ecusim_run ==
  /\ reqs # <<>>
  /\ reqs' = Tail(reqs)
  /\ EcuHandles(Head(reqs))
  /\ resps' = IF ecuReply' = Ecu!NoReply THEN resps
              ELSE Append(resps, Response(Head(reqs)))
  /\ UNCHANGED <<bus, disturbed, lost, clear, callVars>>

----------------------------------------------------------------------------
(* The bus *)

Disturb == disturbed < MaxDisturb /\ disturbed' = disturbed + 1

LosePdu ==
  /\ bus \in {"lossy", "faulty"}
  /\ Disturb
  /\ lost' = TRUE
  /\ \/ reqs # <<>> /\ reqs' = Tail(reqs) /\ UNCHANGED resps
     \/ resps # <<>> /\ resps' = Tail(resps) /\ UNCHANGED reqs
  /\ UNCHANGED <<ecuVars, bus, clear, callVars>>

\* An ECU slower than this one announces its response.
ResponsePending ==
  /\ Disturb
  /\ reqs # <<>>
  /\ resps' = Append(resps, [sid |-> Head(reqs).sid, ok |-> FALSE,
                             nrc |-> "RESPONSE_PENDING", bytes |-> <<>>])
  /\ UNCHANGED <<ecuVars, reqs, bus, lost, clear, callVars>>

----------------------------------------------------------------------------
NoJob == [kind |-> "none", address |-> 0, addr_len |-> 1,
          length |-> 0, size_len |-> 1, bytes |-> <<>>]

Init ==
  /\ Ecu!Init
  /\ reqs = <<>> /\ resps = <<>>
  /\ bus \in Buses
  /\ disturbed = 0 /\ lost = FALSE /\ clear = TRUE
  /\ job = NoJob
  /\ pc = "idle" /\ pos = 0 /\ block_sn = 1 /\ result = <<>> /\ attempts = 0
  /\ outcome = "none"

Next ==
  \/ \E j \in Jobs : StartJob(j)
  \/ _request
  \/ Timeout
  \/ ecusim_run
  \/ LosePdu
  \/ ResponsePending

(***************************************************************************)
(* The client keeps running, its recv() ends with a response or with the   *)
(* timeout, and the ECU keeps serving.                                     *)
(***************************************************************************)
Fairness == WF_vars(_request \/ Timeout) /\ WF_vars(ecusim_run)

Spec == Init /\ [][Next]_vars /\ Fairness

\* A user who tries again after every failure.
RetrySpec == Spec /\ WF_vars(\E j \in Jobs : StartJob(j))

----------------------------------------------------------------------------
(* Properties *)

TypeOK ==
  /\ pc \in {"idle", "34", "35", "36", "37"}
  /\ pos \in Nat /\ Len(result) <= pos
  /\ block_sn \in 1 .. SeqMax
  /\ attempts \in 0 .. MaxPending
  /\ outcome \in {"none", "ok", "error"}

\* The answers of the last call were its own: responses are told apart by
\* their service only, so a call that starts while PDUs of an aborted one are
\* in flight may take those for its own.  It fails over that before its end,
\* unless the response that gives it away is lost too.
Trusted == clear \/ ~ lost

\* When download() returns, the flash holds the data at the address asked for,
\* whatever earlier jobs on this client lost or left in flight.
DownloadOk ==
  outcome = "ok" /\ job.kind = "download" /\ Trusted =>
    \A k \in 1 .. job.length : data[job.address + k - 1] = job.bytes[k]

\* What upload() returns is the flash contents of the range asked for.
UploadOk ==
  outcome = "ok" /\ job.kind = "upload" /\ Trusted =>
    SubSeq(result, 1, job.length) = Ecu!uds_flash_read(job.address, job.length)

\* Every call of download() or upload() returns or raises.
JobEnds == pc # "idle" ~> pc = "idle"

\* What the flash device allows to be done with a job's range.
Accepted(j) ==
  IF j.kind = "download" THEN Ecu!Programmable(j.address, j.length)
  ELSE Ecu!uds_flash_address_valid(j.address, j.length)
JobsAccepted == \A j \in Jobs : Fits(j) => Accepted(j)

\* On a clean bus no job fails whose arguments fit the field lengths given and
\* whose range the device accepts (JobsAccepted): both sides agree on the packing
\* of address and length, on block lengths and on the counter and its wrap, a job
\* leaves the ECU ready for the next, and as many RESPONSE_PENDING answers as the
\* client allows do no harm.
CleanJobSucceeds ==
  bus = "clean" /\ disturbed <= MaxPending /\ outcome = "error" => ~ Fits(job)

\* design/01-System_Requirements_Specification.md:337, flashing can be started
\* again after an interruption.
RestartAfterInterruption == outcome = "error" ~> outcome = "ok"
=============================================================================
