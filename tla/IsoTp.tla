------------------------------- MODULE IsoTp -------------------------------
(***************************************************************************)
(* The ISO-TP transport (src/src/tp/iso_tp.c): one side calls uds_tp_send  *)
(* for one PDU after another, the other side calls uds_tp_recv in a loop,  *)
(* as ecusim_run does.  On CAN FD (fd) they call uds_tp_send_fd and        *)
(* uds_tp_recv_fd, which have loops of the same shape around other frames. *)
(*                                                                         *)
(* toRx and toTx are the socket queues of the two sides (can_socket.c).    *)
(* Both calls are loops around blocking reads, so every frame written or   *)
(* read is a step of its own and the two sides interleave between them.    *)
(* On a faulty bus a frame may be lost, a write may fail, select() may     *)
(* time out whenever its queue is empty, and the sender may find frames of *)
(* somebody else in its queue.  On a clean bus peers are timely: select()  *)
(* times out only when no frame is going to come.  A call that fails       *)
(* leaves unread frames in the queues.                                     *)
(*                                                                         *)
(* Left out: checks for null pointers, STmin sleeps, malformed frames, and *)
(* the padding of a CAN FD frame to the next valid length, which a         *)
(* receiver could see in a first frame only, and those are always full.    *)
(***************************************************************************)
EXTENDS Integers, Sequences

CONSTANTS
  SFMax,       \* UDS_TP_SF_MAX_DATA (7)
  FFData,      \* UDS_TP_FF_DATA_BYTES (6)
  CFData,      \* UDS_TP_CF_DATA_BYTES (7)
  FFMaxLen,    \* UDS_TP_MAX_PDU_LEN, UDS_TP_CANFD_FF_EXT_THRESHOLD (4095)
  FdSFMax,     \* UDS_TP_CANFD_SF_MAX_DATA (62)
  FdFFData,    \* UDS_TP_CANFD_FF_DATA_BYTES (62)
  FdFFExtData, \* UDS_TP_CANFD_FF_EXT_DATA_BYTES (58)
  FdCFData,    \* UDS_TP_CANFD_CF_DATA_BYTES (63)
  SNMod,       \* 16, the sequence numbers
  MaxWait,     \* UDS_TP_MAX_WAIT_FRAMES (10)
  BlockSize,   \* block_size of the receiver's UdsTpConfig
  BufSize,     \* the receiver's buf_size on classic CAN and on CAN FD
  Modes,       \* the modes considered: classic CAN (FALSE), CAN FD (TRUE)
  Buses,       \* the buses considered
  Losable,     \* the frame types that may be lost
  Lengths,     \* lengths of the PDUs on each bus and in each mode
  MaxSends,    \* bound: number of uds_tp_send calls
  MaxFaults    \* bound: lost frames, failed writes and foreign frames together

ASSUME TransportAssumption ==
  /\ SFMax \in Nat /\ CFData \in Nat \ {0} /\ SNMod \in Nat \ {0, 1}
  /\ FFData \in 1 .. SFMax
  /\ FdSFMax \in Nat /\ FdCFData \in Nat \ {0} /\ SFMax < FdSFMax
  /\ FdFFData \in 1 .. FdSFMax /\ FdFFExtData \in 1 .. FdSFMax
  /\ FFMaxLen \in Nat /\ FdSFMax < FFMaxLen
  /\ {MaxWait, BlockSize, MaxSends, MaxFaults} \subseteq Nat
  /\ BufSize \in [BOOLEAN -> Nat]
  /\ Modes \subseteq BOOLEAN
  /\ Buses \subseteq {"clean", "faulty"}
  /\ Losable \subseteq {"SF", "FF", "CF", "FC"}
  /\ Lengths \in [Buses -> [Modes -> SUBSET (Nat \ {0})]]

VARIABLES
  tx,      \* the locals of uds_tp_send
  rx,      \* the locals of uds_tp_recv
  toRx,    \* frames in the receiver's socket queue
  toTx,    \* frames in the sender's socket queue
  sent,    \* history: the PDUs passed to uds_tp_send
  failed,  \* history: positions in sent whose call returned an error
  stale,   \* history: positions in sent whose call took flow control that the
           \* receiver sent for an earlier PDU
  got,     \* history: the PDUs that uds_tp_recv returned
  lost,    \* history: positions in sent whose first frame was lost
  faults,  \* number of faults so far
  bus,     \* the bus of this behaviour
  fd       \* its mode

txSide == <<tx, sent, failed, stale>>
rxSide == <<rx, got>>
medium == <<lost, bus, fd>>
vars == <<txSide, rxSide, toRx, toTx, faults, medium>>

\* Distinct bytes, so that every mix-up of PDUs shows.
Pdu(m, len) == [k \in 1 .. len |-> <<m, k>>]
Pad == <<0, 0>>

Smaller(a, b) == IF a < b THEN a ELSE b

----------------------------------------------------------------------------
(* Frames.  A single or first frame has a length field dl and, on CAN FD   *)
(* when the length does not fit into it, 0 there and the length in ext.    *)

uds_tp_encode_sf(pdu) == [type |-> "SF", dl |-> Len(pdu), ext |-> 0, bytes |-> pdu]
uds_tp_encode_sf_fd(pdu) ==
  [type |-> "SF", bytes |-> pdu,
   dl |-> IF Len(pdu) <= SFMax THEN Len(pdu) ELSE 0,
   ext |-> IF Len(pdu) <= SFMax THEN 0 ELSE Len(pdu)]

uds_tp_encode_ff(pdu) ==
  [type |-> "FF", dl |-> Len(pdu), ext |-> 0, bytes |-> SubSeq(pdu, 1, FFData)]
uds_tp_encode_ff_fd(pdu) ==
  IF Len(pdu) <= FFMaxLen
  THEN [type |-> "FF", dl |-> Len(pdu), ext |-> 0, bytes |-> SubSeq(pdu, 1, FdFFData)]
  ELSE [type |-> "FF", dl |-> 0, ext |-> Len(pdu), bytes |-> SubSeq(pdu, 1, FdFFExtData)]

Padded(chunk, size) == [k \in 1 .. size |-> IF k <= Len(chunk) THEN chunk[k] ELSE Pad]
\* A consecutive frame is always full, padded after the data.
uds_tp_encode_cf(chunk, sn) == [type |-> "CF", sn |-> sn, bytes |-> Padded(chunk, CFData)]
\* On CAN FD its length says less, but the array behind it is as long.
uds_tp_encode_cf_fd(chunk, sn) == [type |-> "CF", sn |-> sn, bytes |-> Padded(chunk, FdCFData)]

\* msg is history: the PDU that the frame is about, 0 when there is none.
uds_tp_encode_fc(fs, bs, msg) == [type |-> "FC", fs |-> fs, bs |-> bs, msg |-> msg]

\* The PDUs of a single frame: none with an error.
uds_tp_decode_sf(frame) ==
  IF frame.dl \in 1 .. SFMax /\ frame.dl <= BufSize[fd]
  THEN <<SubSeq(frame.bytes, 1, frame.dl)>> ELSE <<>>
uds_tp_decode_sf_fd(frame) ==
  LET len == IF frame.dl = 0 THEN frame.ext ELSE frame.dl
      valid == IF frame.dl = 0 THEN SFMax + 1 .. FdSFMax ELSE 1 .. SFMax
  IN  IF len \in valid /\ len <= BufSize[fd] THEN <<SubSeq(frame.bytes, 1, len)>> ELSE <<>>

\* The length of the PDU that a first frame starts: 0 with UDS_TP_ERR_PDU_LEN.
uds_tp_decode_ff(frame) == IF frame.dl \in SFMax + 1 .. FFMaxLen THEN frame.dl ELSE 0
uds_tp_decode_ff_fd(frame) ==
  IF frame.dl = 0 THEN frame.ext
  ELSE IF frame.dl \in FdSFMax + 1 .. FFMaxLen THEN frame.dl ELSE 0

\* The bytes of a consecutive frame that belong to the PDU.
uds_tp_decode_cf(frame, max_data) == SubSeq(frame.bytes, 1, max_data)
uds_tp_decode_cf_fd(frame, max_data) == SubSeq(frame.bytes, 1, max_data)

\* What the two variants of the loops differ in.
SFLimit == IF fd THEN FdSFMax ELSE SFMax
CFLimit == IF fd THEN FdCFData ELSE CFData
EncodeSF(pdu) == IF fd THEN uds_tp_encode_sf_fd(pdu) ELSE uds_tp_encode_sf(pdu)
EncodeFF(pdu) == IF fd THEN uds_tp_encode_ff_fd(pdu) ELSE uds_tp_encode_ff(pdu)
EncodeCF(chunk, sn) == IF fd THEN uds_tp_encode_cf_fd(chunk, sn) ELSE uds_tp_encode_cf(chunk, sn)
DecodeSF(frame) == IF fd THEN uds_tp_decode_sf_fd(frame) ELSE uds_tp_decode_sf(frame)
DecodeFF(frame) == IF fd THEN uds_tp_decode_ff_fd(frame) ELSE uds_tp_decode_ff(frame)
DecodeCF(frame, max_data) ==
  IF fd THEN uds_tp_decode_cf_fd(frame, max_data) ELSE uds_tp_decode_cf(frame, max_data)

\* Frames of another node on the bus that reach a waiting sender: flow control
\* of a busy or full receiver, or a request of its own.  On CAN FD the latter
\* stands for a classic frame too (UDS_CAN_ERR_TRUNC).
ForeignFrames == {uds_tp_encode_fc("WAIT", 0, 0), uds_tp_encode_fc("OVERFLOW", 0, 0),
                  uds_tp_encode_sf(Pdu(0, 1))}

----------------------------------------------------------------------------
(* uds_tp_send *)

IdleTx == [pc |-> "idle", offset |-> 0, sn |-> 0, waits |-> 0, bs |-> 0, bs_sent |-> 0]

data == sent[Len(sent)]   \* the PDU of the current call

Call(len) ==
  /\ tx.pc = "idle"
  /\ Len(sent) < MaxSends
  /\ sent' = Append(sent, Pdu(Len(sent) + 1, len))
  /\ tx' = [IdleTx EXCEPT !.pc = "first"]
  /\ UNCHANGED <<failed, stale, rxSide, toRx, toTx, faults, medium>>

SendReturnsOk == tx' = IdleTx /\ UNCHANGED <<sent, failed, stale>>

SendReturnsError ==
  /\ tx' = IdleTx
  /\ failed' = failed \cup {Len(sent)}
  /\ UNCHANGED <<sent, stale>>

\* Mutant of ff_embed: off by one at the length from which on first frames
\* have the long form.
EmbedOffByOne ==
  IF ~ fd THEN FFData ELSE IF Len(data) <= FFMaxLen + 1 THEN FdFFData ELSE FdFFExtData

\* The number of bytes in the first frame, worked out again after it is sent.
ff_embed ==
  IF ~ fd THEN FFData ELSE IF Len(data) <= FFMaxLen THEN FdFFData ELSE FdFFExtData

SendFirst ==
  /\ tx.pc = "first"
  /\ \/ /\ Len(data) <= SFLimit
        /\ toRx' = Append(toRx, EncodeSF(data))
        /\ SendReturnsOk
     \/ \* too long for classic CAN
        /\ ~ fd /\ Len(data) > FFMaxLen
        /\ SendReturnsError
        /\ UNCHANGED toRx
     \/ /\ Len(data) > SFLimit /\ (fd \/ Len(data) <= FFMaxLen)
        /\ toRx' = Append(toRx, EncodeFF(data))
        /\ tx' = [tx EXCEPT !.pc = "fc", !.offset = ff_embed, !.sn = 1]
        /\ UNCHANGED <<sent, failed, stale>>
  /\ UNCHANGED <<rxSide, toTx, faults, medium>>

StartBlock(fc) ==
  /\ tx' = [tx EXCEPT !.pc = "cf", !.waits = 0, !.bs = fc.bs, !.bs_sent = 0]
  /\ stale' = IF fc.msg = Len(sent) THEN stale ELSE stale \cup {Len(sent)}
  /\ UNCHANGED <<sent, failed>>

KeepWaiting ==
  /\ tx' = [tx EXCEPT !.waits = @ + 1]
  /\ UNCHANGED <<sent, failed, stale>>

\* Mutant of WaitForFlow: the WAIT frames are not limited.
WaitWithoutLimit(frame) ==
  \/ frame.type = "FC" /\ frame.fs = "WAIT" /\ KeepWaiting
  \/ frame.type = "FC" /\ frame.fs = "CTS" /\ StartBlock(frame)

\* What the call does with a frame it read while it waits for flow control.
WaitForFlow(frame) ==
  \/ frame.type # "FC" /\ SendReturnsError
  \/ frame.type = "FC" /\ frame.fs = "OVERFLOW" /\ SendReturnsError
  \/ /\ frame.type = "FC" /\ frame.fs = "WAIT"
     /\ \/ tx.waits + 1 > MaxWait /\ SendReturnsError
        \/ tx.waits + 1 <= MaxWait /\ KeepWaiting
  \/ frame.type = "FC" /\ frame.fs = "CTS" /\ StartBlock(frame)

RecvFlow ==
  /\ tx.pc = "fc"
  /\ toTx # <<>>
  /\ WaitForFlow(Head(toTx))
  /\ toTx' = Tail(toTx)
  /\ UNCHANGED <<rxSide, toRx, faults, medium>>

\* Where the loops of uds_tp_send go after a consecutive frame.
AfterCF(offset, bs_sent) ==
  IF offset >= Len(data) THEN "idle"
  ELSE IF tx.bs > 0 /\ bs_sent >= tx.bs THEN "fc" ELSE "cf"

SendCF ==
  LET chunk == Smaller(Len(data) - tx.offset, CFLimit)
      offset == tx.offset + chunk
      bs_sent == tx.bs_sent + 1
  IN  /\ tx.pc = "cf"
      /\ toRx' = Append(toRx, EncodeCF(SubSeq(data, tx.offset + 1, offset), tx.sn))
      /\ \/ AfterCF(offset, bs_sent) = "idle" /\ SendReturnsOk
         \/ /\ AfterCF(offset, bs_sent) # "idle"
            /\ tx' = [tx EXCEPT !.pc = AfterCF(offset, bs_sent), !.offset = offset,
                                !.sn = (@ + 1) % SNMod, !.bs_sent = bs_sent]
            /\ UNCHANGED <<sent, failed, stale>>
      /\ UNCHANGED <<rxSide, toTx, faults, medium>>

\* Mutant of SendTimesOut: the read is retried for ever.
SendTimesOutRetries ==
  /\ tx.pc = "fc" /\ toTx = <<>>
  /\ UNCHANGED vars

SendTimesOut ==
  /\ tx.pc = "fc" /\ toTx = <<>>
  /\ SendReturnsError
  /\ UNCHANGED <<rxSide, toRx, toTx, faults, medium>>

\* The receiver has read everything and dropped it.
NoFlowComing == toRx = <<>> /\ rx.pc = "first"

SendTimeout == (bus = "faulty" \/ NoFlowComing) /\ SendTimesOut

----------------------------------------------------------------------------
(* uds_tp_recv *)

IdleRx == [pc |-> "first", total_len |-> 0, buf |-> <<>>, expected_sn |-> 0, bs_count |-> 0]

RecvReturns(pdus) == rx' = IdleRx /\ got' = got \o pdus

\* The PDU that a piece of data comes from.
MsgOf(bytes) == bytes[1][1]

\* uds_can_send of a CTS frame
SendFC(buf) == toTx' = Append(toTx, uds_tp_encode_fc("CTS", BlockSize, MsgOf(buf)))

RecvFirst ==
  LET frame == Head(toRx)
      total_len == DecodeFF(frame)
  IN
  /\ rx.pc = "first"
  /\ toRx # <<>>
  /\ toRx' = Tail(toRx)
  /\ \/ /\ frame.type = "SF"
        /\ RecvReturns(DecodeSF(frame))
        /\ UNCHANGED toTx
     \/ \* UDS_TP_ERR_PDU_LEN or UDS_TP_ERR_BUF_FULL, without flow control
        /\ frame.type = "FF" /\ total_len \notin 1 .. BufSize[fd]
        /\ RecvReturns(<<>>)
        /\ UNCHANGED toTx
     \/ /\ frame.type = "FF" /\ total_len \in 1 .. BufSize[fd]
        /\ rx' = [pc |-> "cf", total_len |-> total_len, buf |-> frame.bytes,
                  expected_sn |-> 1, bs_count |-> 0]
        /\ SendFC(frame.bytes)
        /\ UNCHANGED got
     \/ \* UDS_TP_ERR_FRAME_TYPE
        /\ frame.type \notin {"SF", "FF"}
        /\ RecvReturns(<<>>)
        /\ UNCHANGED toTx
  /\ UNCHANGED <<txSide, faults, medium>>

Accepts(frame) == frame.type = "CF" /\ frame.sn = rx.expected_sn

\* Mutant of RejectFrame: the frame is skipped and the reception goes on.
SkipFrame == UNCHANGED <<rxSide, toTx>>

\* UDS_TP_ERR_FRAME_TYPE or UDS_TP_ERR_SEQUENCE
RejectFrame == RecvReturns(<<>>) /\ UNCHANGED toTx

\* Mutant of NeedsFC: flow control also follows a complete last block.
NeedsFCAfterLast(received, bs_count) == BlockSize > 0 /\ bs_count >= BlockSize

\* The block is used up and the PDU is not: the loop's next turn sends flow
\* control.
NeedsFC(received, bs_count) ==
  received < rx.total_len /\ BlockSize > 0 /\ bs_count >= BlockSize

RecvCF ==
  LET frame == Head(toRx)
      chunk == Smaller(rx.total_len - Len(rx.buf), CFLimit)
      buf == rx.buf \o DecodeCF(frame, chunk)
      bs_count == rx.bs_count + 1
  IN  /\ rx.pc = "cf"
      /\ toRx # <<>>
      /\ toRx' = Tail(toRx)
      /\ \/ ~ Accepts(frame) /\ RejectFrame
         \/ /\ Accepts(frame)
            /\ IF NeedsFC(Len(buf), bs_count) THEN SendFC(buf) ELSE UNCHANGED toTx
            /\ \/ Len(buf) >= rx.total_len /\ RecvReturns(<<buf>>)
               \/ /\ Len(buf) < rx.total_len
                  /\ rx' = [rx EXCEPT
                              !.buf = buf, !.expected_sn = (@ + 1) % SNMod,
                              !.bs_count = IF NeedsFC(Len(buf), bs_count) THEN 0 ELSE bs_count]
                  /\ UNCHANGED got
      /\ UNCHANGED <<txSide, faults, medium>>

\* Mutant of RecvTimesOut: the read is retried for ever.
RecvTimesOutRetries ==
  /\ rx.pc = "cf" /\ toRx = <<>>
  /\ UNCHANGED vars

RecvTimesOut ==
  /\ rx.pc = "cf" /\ toRx = <<>>
  /\ RecvReturns(<<>>)
  /\ UNCHANGED <<txSide, toRx, toTx, faults, medium>>

RecvTimeout == (bus = "faulty" \/ tx.pc = "idle") /\ RecvTimesOut

\* No request arrives: uds_tp_recv returns and is called again.
RecvIdle ==
  /\ rx.pc = "first" /\ toRx = <<>>
  /\ UNCHANGED vars

----------------------------------------------------------------------------
(* Faults *)

Fault ==
  /\ bus = "faulty" /\ UNCHANGED <<bus, fd>>
  /\ faults < MaxFaults /\ faults' = faults + 1

\* A lost frame is dropped when its turn to be read comes.
LoseData ==
  LET frame == Head(toRx) IN
  /\ Fault
  /\ toRx # <<>> /\ frame.type \in Losable
  /\ toRx' = Tail(toRx)
  /\ lost' = IF frame.type = "FF" THEN lost \cup {MsgOf(frame.bytes)} ELSE lost
  /\ UNCHANGED <<txSide, rxSide, toTx>>

LoseFlow ==
  /\ Fault
  /\ toTx # <<>> /\ Head(toTx).type \in Losable
  /\ toTx' = Tail(toTx)
  /\ UNCHANGED <<txSide, rxSide, toRx, lost>>

\* uds_can_send or uds_can_recv fails in uds_tp_send: UDS_TP_ERR_SEND or
\* UDS_TP_ERR_RECV, the latter also when a signal interrupts select().
SendFails ==
  /\ Fault
  /\ tx.pc # "idle"
  /\ SendReturnsError
  /\ UNCHANGED <<rxSide, toRx, toTx, lost>>

\* uds_can_recv fails in a reception, a frame in the queue stays there.
RecvFails ==
  /\ Fault
  /\ rx.pc = "cf"
  /\ RecvReturns(<<>>)
  /\ UNCHANGED <<txSide, toRx, toTx, lost>>

\* uds_can_send of the flow control fails in uds_tp_recv.
FlowFails ==
  LET frame == Head(toRx) IN
  /\ Fault
  /\ toRx # <<>>
  /\ \/ rx.pc = "first" /\ frame.type = "FF" /\ DecodeFF(frame) \in 1 .. BufSize[fd]
     \/ /\ rx.pc = "cf" /\ Accepts(frame)
        /\ NeedsFC(Len(rx.buf) + CFLimit, rx.bs_count + 1)
  /\ toRx' = Tail(toRx)
  /\ RecvReturns(<<>>)
  /\ UNCHANGED <<txSide, toTx, lost>>

ForeignFrame ==
  /\ Fault
  /\ \E frame \in ForeignFrames : toTx' = Append(toTx, frame)
  /\ UNCHANGED <<txSide, rxSide, toRx, lost>>

\* Between two sends the sending side calls uds_tp_recv itself, which consumes
\* what is in its queue, such as flow control left over by an aborted call.
SenderReceives ==
  /\ tx.pc = "idle"
  /\ toTx # <<>>
  /\ toTx' = Tail(toTx)
  /\ UNCHANGED <<txSide, rxSide, toRx, faults, medium>>

----------------------------------------------------------------------------
Init ==
  /\ tx = IdleTx /\ rx = IdleRx
  /\ toRx = <<>> /\ toTx = <<>>
  /\ sent = <<>> /\ failed = {} /\ stale = {} /\ lost = {} /\ got = <<>>
  /\ faults = 0
  /\ bus \in Buses
  /\ fd \in Modes

Send == SendFirst \/ RecvFlow \/ SendCF \/ SendTimeout
Recv == RecvFirst \/ RecvCF \/ RecvTimeout

uds_tp_send == ~ fd /\ Send
uds_tp_recv == ~ fd /\ Recv
uds_tp_send_fd == fd /\ Send
uds_tp_recv_fd == fd /\ Recv

Next ==
  \/ \E len \in Lengths[bus][fd] : Call(len)
  \/ uds_tp_send
  \/ uds_tp_recv
  \/ uds_tp_send_fd
  \/ uds_tp_recv_fd
  \/ RecvIdle
  \/ SenderReceives
  \/ LoseData
  \/ LoseFlow
  \/ SendFails
  \/ RecvFails
  \/ FlowFails
  \/ ForeignFrame

(***************************************************************************)
(* Both sides are ordinary processes: each keeps running, and a blocked    *)
(* select() ends with a frame or with the timeout.                         *)
(***************************************************************************)
Fairness == WF_vars(Send) /\ WF_vars(Recv)

Spec == Init /\ [][Next]_vars /\ Fairness

----------------------------------------------------------------------------
(* Properties *)

TypeOK ==
  /\ tx.pc \in {"idle", "first", "fc", "cf"}
  /\ tx.sn \in 0 .. SNMod - 1
  /\ tx.waits \in 0 .. MaxWait
  /\ rx.pc \in {"first", "cf"}
  /\ rx.total_len \in 0 .. BufSize[fd]
  /\ Len(rx.buf) <= rx.total_len
  /\ failed \subseteq 1 .. Len(sent) /\ stale \cup lost \subseteq 1 .. Len(sent)
  /\ faults \in 0 .. MaxFaults

\* A byte of the PDU comes from one of the calls.
Offending(pdu, calls) == \E k \in 1 .. Len(pdu) : pdu[k][1] \in calls

\* The PDUs among the first k, for each k, that hold no byte of the calls.
RegularUpTo(pdus, calls) ==
  LET upTo[k \in 0 .. Len(pdus)] ==
        IF k = 0 THEN <<>>
        ELSE IF Offending(pdus[k], calls) THEN upTo[k - 1]
        ELSE Append(upTo[k - 1], pdus[k])
  IN  upTo
Regular(pdus, calls) == RegularUpTo(pdus, calls)[Len(pdus)]

LastOf(pdus) == IF pdus = <<>> THEN 0 ELSE MsgOf(pdus[Len(pdus)])

AllPdus == {Pdu(m, len) : m \in 1 .. MaxSends,
                          len \in UNION {Lengths[b][mode] : b \in Buses, mode \in Modes}}

\* Without the PDUs that hold bytes of a call that started on flow control for
\* an earlier PDU and whose first frame was lost.
delivered == Regular(got, stale \cap lost)

Channel == INSTANCE PduChannel
  WITH Pdus <- AllPdus, got <- delivered, upto <- LastOf(delivered)

\* The transport is a PDU channel: what uds_tp_recv returns is one PDU passed
\* to uds_tp_send, complete, unmixed with frames of an earlier or later call,
\* at most once and in order, and not one whose call returned an error.  The
\* only way to break this is a send that starts on flow control left over
\* from an aborted call while its own first frame is lost: it may complete
\* the reception of the aborted PDU with its own bytes.
ImplementsChannel == Channel!Spec

\* Neither call hangs, whatever the peer does: uds_tp_send returns although a
\* frame is lost, the peer stops or keeps saying WAIT, and uds_tp_recv leaves a
\* reception, complete or not, so that an aborted sender cannot keep the ECU
\* from serving the next request.
CallsReturn == (tx.pc # "idle" ~> tx.pc = "idle") /\ (rx.pc = "cf" ~> rx.pc = "first")

\* On a clean bus every PDU that fits into the buffer is delivered and its call
\* succeeds: the two sides agree on when flow control is sent and awaited,
\* whatever the length and the block size.
EveryPduDelivered ==
  \A i \in 1 .. MaxSends :
    bus = "clean" /\ Len(sent) = i /\ Len(data) <= BufSize[fd]
      ~> /\ tx.pc = "idle" /\ i \notin failed
         /\ Len(sent) >= i /\ sent[i] \in {got[k] : k \in DOMAIN got}

\* On a clean bus flow control is never left over for a later send or receive
\* on the socket.
NoFlowLeftOver == bus = "clean" /\ tx.pc = "idle" => toTx = <<>>
=============================================================================
