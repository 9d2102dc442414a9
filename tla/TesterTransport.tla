-------------------------- MODULE TesterTransport --------------------------
(***************************************************************************)
(* Requests and responses frame by frame, between the tester's Python      *)
(* transport (src/tools/uds/transport.py), as UdsClient._request calls it, *)
(* and the ECU's loop ecusim_run with the C transport of IsoTp, on classic *)
(* CAN and, with the CAN FD variants of both, on CAN FD (fd).  The ECU     *)
(* simulator of the repository calls the classic variants only.            *)
(*                                                                         *)
(* The ECU has one socket for both directions: what arrives in toEcu while *)
(* it sends a response is taken for flow control, and what is left over    *)
(* when it stops is taken for the next request.  Likewise toTester.  The   *)
(* ECU's half is IsoTp's, receiving from toEcu (EcuIn) and sending to      *)
(* toTester (EcuOut).                                                      *)
(*                                                                         *)
(* Left out: STmin sleeps, the padding of CAN FD frames, frames of other   *)
(* nodes, which the tester's _recv_frame and the ECU's socket filter drop. *)
(***************************************************************************)
EXTENDS Integers, Sequences

CONSTANTS
  SFMax, FFData, CFData, FFMaxLen, FdSFMax, FdFFData, FdFFExtData, FdCFData, SNMod,
  MaxWait, BlockSize, BufSize, Modes,
  Buses, Losable, Lengths, MaxSends, MaxFaults   \* as in IsoTp

VARIABLES
  py,        \* the locals of send() and recv()
  asked,     \* history: the requests passed to send()
  unsent,    \* history: positions in asked whose send() raised
  pyStale,   \* history: positions in asked whose send() took flow control that
             \* the ECU sent for an earlier request
  answers,   \* history: the responses recv() returned
  toEcu,     \* frames in the ECU's socket queue
  toTester,  \* frames in the tester's socket queue
  rx, got,                 \* the ECU's uds_tp_recv
  tx, sent, failed, stale, \* the ECU's uds_tp_send
  lostReq, lostResp,       \* history: requests and responses whose first frame was lost
  faults, bus, fd

EcuIn == INSTANCE IsoTp WITH toRx <- toEcu, toTx <- toTester, lost <- lostReq
EcuOut == INSTANCE IsoTp WITH toRx <- toTester, toTx <- toEcu, lost <- lostResp

ASSUME SidesAssumption == EcuIn!TransportAssumption

testerVars == <<py, asked, unsent, pyStale, answers>>
ecuVars == <<rx, got, tx, sent, failed, stale>>
medium == <<lostReq, lostResp, bus, fd>>
vars == <<testerVars, toEcu, toTester, ecuVars, faults, medium>>

----------------------------------------------------------------------------
(* The tester's frames, in the form of IsoTp's *)

_send_sf(pdu) ==
  LET escape == fd /\ Len(pdu) > SFMax IN
  [type |-> "SF", bytes |-> pdu,
   dl |-> IF escape THEN 0 ELSE Len(pdu), ext |-> IF escape THEN Len(pdu) ELSE 0]

_decode_sf(frame) == SubSeq(frame.bytes, 1, IF fd /\ frame.dl = 0 THEN frame.ext ELSE frame.dl)

\* The number of data bytes in the first frame, where offset starts.
embed(pdu) ==
  IF ~ fd THEN FFData ELSE IF Len(pdu) <= FFMaxLen THEN FdFFData ELSE FdFFExtData

\* Mutant of FirstFrame: the length field of classic CAN on CAN FD too.
FirstFrameShort(pdu) ==
  [type |-> "FF", bytes |-> SubSeq(pdu, 1, embed(pdu)), dl |-> Len(pdu) % (FFMaxLen + 1), ext |-> 0]

\* On classic CAN the length is cut to 12 bits, whatever it is.
FirstFrame(pdu) ==
  LET long == fd /\ Len(pdu) > FFMaxLen IN
  [type |-> "FF", bytes |-> SubSeq(pdu, 1, embed(pdu)),
   dl |-> IF long THEN 0 ELSE Len(pdu) % (FFMaxLen + 1), ext |-> IF long THEN Len(pdu) ELSE 0]

ConsecutiveFrame(chunk, sn) ==
  [type |-> "CF", sn |-> sn, bytes |-> EcuIn!Padded(chunk, EcuIn!CFLimit)]

FlowControl(buf) == EcuIn!uds_tp_encode_fc("CTS", 0, EcuIn!MsgOf(buf))

\* total, as _recv_multi reads it from a first frame
TotalOf(frame) == IF fd /\ frame.dl = 0 THEN frame.ext ELSE frame.dl

----------------------------------------------------------------------------
(* The tester: send() *)

IdlePy == [pc |-> "idle", offset |-> 0, sn |-> 0, block_size |-> 0, block_count |-> 0,
           buf |-> <<>>, total |-> 0, expected_sn |-> 0]

request == asked[Len(asked)]   \* the data of the current call

Sending == py.pc \in {"send", "fc", "cf"}

\* _request is called and starts with send(), whatever is left in toTester.
_request(len) ==
  /\ py.pc = "idle"
  /\ Len(asked) < MaxSends
  /\ asked' = Append(asked, EcuIn!Pdu(Len(asked) + 1, len))
  /\ py' = [IdlePy EXCEPT !.pc = "send"]
  /\ UNCHANGED <<unsent, pyStale, answers, toEcu, toTester, ecuVars, faults, medium>>

\* The exception ends send() or recv(), and _request with it.
Raise ==
  /\ py' = IdlePy
  /\ unsent' = IF Sending THEN unsent \cup {Len(asked)} ELSE unsent
  /\ UNCHANGED <<asked, pyStale, answers>>

Goto(next) == py' = next /\ UNCHANGED <<asked, unsent, pyStale, answers>>

\* _send_sf, or the first frame of _send_multi_classic or _send_multi_fd
SendFirst ==
  /\ py.pc = "send"
  /\ \/ /\ Len(request) <= EcuIn!SFLimit
        /\ toEcu' = Append(toEcu, _send_sf(request))
        /\ Goto([IdlePy EXCEPT !.pc = "recv"])
     \/ /\ Len(request) > EcuIn!SFLimit
        /\ toEcu' = Append(toEcu, FirstFrame(request))
        /\ Goto([py EXCEPT !.pc = "fc", !.offset = embed(request), !.sn = 1])
  /\ UNCHANGED <<toTester, ecuVars, faults, medium>>

\* Anything but ContinueToSend raises, WAIT too.
_check_fc_continue ==
  LET fc == Head(toTester) IN
  /\ py.pc = "fc"
  /\ toTester # <<>>
  /\ toTester' = Tail(toTester)
  /\ \/ /\ fc.type = "FC" /\ fc.fs = "CTS"
        /\ py' = [py EXCEPT !.pc = IF py.offset < Len(request) THEN "cf" ELSE "recv",
                            !.block_size = fc.bs, !.block_count = 0]
        /\ pyStale' = IF fc.msg = Len(asked) THEN pyStale ELSE pyStale \cup {Len(asked)}
        /\ UNCHANGED <<asked, unsent, answers>>
     \/ /\ ~ (fc.type = "FC" /\ fc.fs = "CTS")
        /\ Raise
  /\ UNCHANGED <<toEcu, ecuVars, faults, medium>>

\* Mutant of NextSn: the number does not wrap.
NextSnNoWrap(sn) == sn + 1

NextSn(sn) == (sn + 1) % SNMod

\* The end of a block is looked at before the end of the data.
AfterCF(offset, block_count) ==
  IF py.block_size # 0 /\ block_count >= py.block_size THEN "fc"
  ELSE IF offset < Len(request) THEN "cf" ELSE "recv"

SendCF ==
  LET offset == EcuIn!Smaller(py.offset + EcuIn!CFLimit, Len(request))
      block_count == py.block_count + 1
  IN  /\ py.pc = "cf"
      /\ toEcu' = Append(toEcu, ConsecutiveFrame(SubSeq(request, py.offset + 1, offset), py.sn))
      /\ Goto([py EXCEPT !.pc = AfterCF(offset, block_count), !.offset = offset,
                         !.sn = NextSn(@), !.block_count = block_count])
      /\ UNCHANGED <<toTester, ecuVars, faults, medium>>

----------------------------------------------------------------------------
(* The tester: recv() *)

Return(pdu) ==
  /\ py' = IdlePy
  /\ answers' = Append(answers, pdu)
  /\ UNCHANGED <<asked, unsent, pyStale>>

RecvFirst ==
  LET frame == Head(toTester) IN
  /\ py.pc = "recv"
  /\ toTester # <<>>
  /\ toTester' = Tail(toTester)
  /\ \/ frame.type = "SF" /\ Return(_decode_sf(frame)) /\ UNCHANGED toEcu
     \/ /\ frame.type = "FF"
        /\ toEcu' = Append(toEcu, FlowControl(frame.bytes))
        /\ Goto([IdlePy EXCEPT !.pc = "multi", !.buf = frame.bytes,
                               !.total = TotalOf(frame), !.expected_sn = 1])
     \/ frame.type \notin {"SF", "FF"} /\ Raise /\ UNCHANGED toEcu
  /\ UNCHANGED <<ecuVars, faults, medium>>

\* The loop of _recv_multi_classic and _recv_multi_fd.
_recv_multi ==
  LET frame == Head(toTester)
      buf == py.buf \o SubSeq(frame.bytes, 1, EcuIn!Smaller(EcuIn!CFLimit, py.total - Len(py.buf)))
      fits == frame.type = "CF" /\ frame.sn = py.expected_sn
  IN  /\ py.pc = "multi"
      /\ toTester # <<>>
      /\ toTester' = Tail(toTester)
      /\ \/ ~ fits /\ Raise
         \/ fits /\ Len(buf) >= py.total /\ Return(buf)
         \/ /\ fits /\ Len(buf) < py.total
            /\ Goto([py EXCEPT !.buf = buf, !.expected_sn = NextSn(@)])
      /\ UNCHANGED <<toEcu, ecuVars, faults, medium>>

\* On a clean bus nobody waits in vain for a peer that is still busy.
EcuIdle == rx.pc = "first" /\ tx.pc = "idle" /\ Len(sent) = Len(got) /\ toEcu = <<>>

\* Mutants of Deadline: the call goes on waiting, or returns what it has.
DeadlineRetries == UNCHANGED testerVars
DeadlineReturns == IF py.buf = <<>> THEN Raise ELSE Return(py.buf)

Deadline == Raise

\* _recv_frame finds no frame before the deadline.  One deadline covers all
\* frames of a response, so it may pass with the next one in the queue.
_recv_frame ==
  /\ \/ py.pc \in {"fc", "recv"} /\ toTester = <<>> /\ (bus = "faulty" \/ EcuIdle)
     \/ py.pc = "multi" /\ (bus = "faulty" \/ (EcuIdle /\ toTester = <<>>))
  /\ Deadline
  /\ UNCHANGED <<toEcu, toTester, ecuVars, faults, medium>>

Tester ==
  \/ SendFirst \/ _check_fc_continue \/ SendCF
  \/ RecvFirst \/ _recv_multi
  \/ _recv_frame

----------------------------------------------------------------------------
(* The ECU: ecusim_run receives, dispatches, responds, and starts over. *)

Listening == tx.pc = "idle" /\ Len(sent) = Len(got)

EcuRecv ==
  /\ Listening
  /\ \/ EcuIn!RecvFirst
     \/ EcuIn!RecvCF
     \/ (bus = "faulty" \/ ~ Sending) /\ EcuIn!RecvTimesOut
  /\ UNCHANGED <<testerVars, lostResp>>

ecusim_dispatch ==
  /\ Len(sent) < Len(got)
  /\ \E len \in Lengths[bus][fd] : EcuOut!Call(len)
  /\ UNCHANGED <<testerVars, lostReq>>

EcuSend ==
  /\ \/ EcuOut!SendFirst
     \/ EcuOut!RecvFlow
     \/ EcuOut!SendCF
     \/ /\ bus = "faulty" \/ (py.pc \notin {"recv", "multi"} /\ toTester = <<>>)
        /\ EcuOut!SendTimesOut
  /\ UNCHANGED <<testerVars, lostReq>>

\* No request arrives: uds_tp_recv returns and is called again.
EcuWaits == Listening /\ EcuIn!RecvIdle /\ UNCHANGED <<testerVars, lostResp>>

Ecu == EcuRecv \/ ecusim_dispatch \/ EcuSend

----------------------------------------------------------------------------
(* Faults *)

\* python-can's send() or recv() raises.
PyFails ==
  /\ EcuIn!Fault
  /\ py.pc # "idle"
  /\ Raise
  /\ UNCHANGED <<toEcu, toTester, ecuVars, lostReq, lostResp>>

EcuFails ==
  /\ \/ Listening /\ (EcuIn!RecvFails \/ EcuIn!FlowFails) /\ UNCHANGED lostResp
     \/ EcuOut!SendFails /\ UNCHANGED lostReq
  /\ UNCHANGED testerVars

LoseFrame ==
  /\ \/ EcuIn!LoseData /\ UNCHANGED lostResp
     \/ EcuOut!LoseData /\ UNCHANGED lostReq
  /\ UNCHANGED testerVars

----------------------------------------------------------------------------
Init ==
  /\ EcuIn!Init
  /\ py = IdlePy /\ lostResp = {}
  /\ asked = <<>> /\ unsent = {} /\ pyStale = {} /\ answers = <<>>

Next ==
  \/ \E len \in Lengths[bus][fd] : _request(len)
  \/ Tester
  \/ Ecu
  \/ EcuWaits
  \/ PyFails
  \/ EcuFails
  \/ LoseFrame

\* Both processes keep running; every blocking read ends by its timeout.
Spec == Init /\ [][Next]_vars /\ WF_vars(Tester) /\ WF_vars(Ecu)

----------------------------------------------------------------------------
(* Properties *)

TypeOK ==
  /\ py.pc \in {"idle", "send", "fc", "cf", "recv", "multi"}
  /\ py.sn \in 0 .. SNMod - 1 /\ py.expected_sn \in 0 .. SNMod - 1
  /\ Len(py.buf) <= py.total
  /\ unsent \subseteq 1 .. Len(asked) /\ pyStale \cup lostReq \subseteq 1 .. Len(asked)
  /\ Len(sent) <= Len(got)

(* What the proofs of the two refinements assume of the callers *)

\* The ECU asks for no blocks: ecusim.c puts 0 into its configuration.
NoBlocks == BlockSize = 0

\* Requests fit the 12-bit length of a classic first frame, which _send_multi_classic
\* does not check.
RequestsFit ==
  \A b \in Buses : FALSE \in Modes => Lengths[b][FALSE] \subseteq 1 .. FFMaxLen

\* There is a longest PDU: both sides keep lengths in 32 bits at most.
BoundedBy(limit) == \A b \in Buses, m \in Modes : Lengths[b][m] \subseteq 1 .. limit

requests == EcuIn!Regular(got, pyStale \cap lostReq)
responses == EcuIn!Regular(answers, stale \cap lostResp)

Requests == INSTANCE PduChannel
  WITH Pdus <- EcuIn!AllPdus, sent <- asked, failed <- unsent,
       got <- requests, upto <- EcuIn!LastOf(requests)
Responses == INSTANCE PduChannel
  WITH Pdus <- EcuIn!AllPdus, got <- responses, upto <- EcuIn!LastOf(responses)

\* The ECU dispatches only requests that the tester sent, whole, in order, at
\* most once, and none whose send() raised: remains of aborted requests and
\* responses in the two queues never add up to a request.  The exception is
\* the one of IsoTp: a send() that starts on flow control for an earlier
\* request while its own first frame is lost.
ImplementsRequests == Requests!Spec

\* What recv() returns is a whole response of the ECU, in order, at most once:
\* remains of an aborted response are never taken for another, with the same
\* exception.
ImplementsResponses == Responses!Spec

\* _request returns or raises, whatever is lost.
RequestEnds == py.pc # "idle" ~> py.pc = "idle"

\* A tester that gives up in the middle of a request or a response does not
\* keep the ECU from serving the next one.
EcuRecovers == ~ (Listening /\ rx.pc = "first") ~> Listening /\ rx.pc = "first"

\* On a clean bus every request is answered with its own response, whatever
\* their lengths: the Python and the C transport agree on frames, sequence
\* numbers and flow control.
CleanExchange ==
  \A i \in 1 .. MaxSends :
    bus = "clean" /\ Len(asked) = i
      ~> /\ py.pc = "idle" /\ Len(answers) = i /\ Len(sent) = i /\ Len(got) = i
         /\ answers[i] = sent[i] /\ got[i] = asked[i]
=============================================================================
