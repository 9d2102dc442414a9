---------------------------- MODULE IsoTpProofs ----------------------------
(***************************************************************************)
(* Theorems about IsoTp, for any frame sizes, block size, buffers, PDU     *)
(* lengths, number of calls and number of faults: the types, and that the  *)
(* transport implements a PduChannel.                                      *)
(*                                                                         *)
(* The channel alone is not inductive, it says nothing of frames under     *)
(* way.  IInv adds what they are: pieces of PDUs in the order of sending   *)
(* (QueueInv), behind the sender's position (SenderInv) and at or ahead of *)
(* the receiver's (ReceiverInv), which therefore completes a PDU only when *)
(* it has every piece.  StartedInv and FlowInv say that consecutive frames *)
(* follow their own first frame, or else that their call took flow control *)
(* for an earlier PDU while its own first frame was lost.                  *)
(***************************************************************************)
EXTENDS IsoTp, SetInduction, SequenceTheorems, TLAPS

Octet == Nat \X Nat
DataFrames == [type : {"SF", "FF"}, dl : Nat, ext : Nat, bytes : Seq(Octet)]
                \cup [type : {"CF"}, sn : 0 .. SNMod - 1, bytes : Seq(Octet)]
FlowFrames == [type : {"FC"}, fs : {"CTS", "WAIT", "OVERFLOW"}, bs : Nat, msg : Nat]
                \cup {uds_tp_encode_sf(Pdu(0, 1))}

TxLocals == [pc : {"idle", "first", "fc", "cf"}, offset : Nat, sn : 0 .. SNMod - 1,
             waits : 0 .. MaxWait, bs : Nat, bs_sent : Nat]
RxLocals == [pc : {"first", "cf"}, total_len : Nat, buf : Seq(Octet),
             expected_sn : 0 .. SNMod - 1, bs_count : Nat]

\* What is in the variables, byte contents aside.
TypeInv ==
  /\ tx \in TxLocals
  /\ rx \in RxLocals
  /\ toRx \in Seq(DataFrames)
  /\ toTx \in Seq(FlowFrames)
  /\ sent \in Seq(Seq(Octet))
  /\ got \in Seq(Seq(Octet))
  /\ failed \subseteq 1 .. Len(sent)
  /\ stale \subseteq 1 .. Len(sent)
  /\ lost \subseteq 1 .. Len(sent)
  /\ faults \in 0 .. MaxFaults
  /\ bus \in Buses
  /\ fd \in Modes

\* The PDU a frame comes from and the offset of its first byte.
Msg(frame) == MsgOf(frame.bytes)
Start(frame) == frame.bytes[1][2] - 1

(***************************************************************************)
(* The layout of a PDU of length len in a mode, with the mode and the PDUs *)
(* as arguments so that they mean the same before and after a step.        *)
(***************************************************************************)
SFSize(mode) == IF mode THEN FdSFMax ELSE SFMax
CFSize(mode) == IF mode THEN FdCFData ELSE CFData
FFSize(mode, len) ==
  IF ~ mode THEN FFData ELSE IF len <= FFMaxLen THEN FdFFData ELSE FdFFExtData
Segmented(mode, len) == len > SFSize(mode) /\ (mode \/ len <= FFMaxLen)

\* The offsets at which consecutive frames start.
OnGrid(mode, len, pos) == \E j \in 0 .. pos : pos = FFSize(mode, len) + j * CFSize(mode)

SingleFrame(mode, pdu) == IF mode THEN uds_tp_encode_sf_fd(pdu) ELSE uds_tp_encode_sf(pdu)
FirstFrame(mode, pdu) == IF mode THEN uds_tp_encode_ff_fd(pdu) ELSE uds_tp_encode_ff(pdu)
Piece(mode, pdu, offset) ==
  SubSeq(pdu, offset + 1, offset + Smaller(Len(pdu) - offset, CFSize(mode)))
ConsecutiveFrame(mode, pdu, offset, sn) ==
  IF mode THEN uds_tp_encode_cf_fd(Piece(mode, pdu, offset), sn)
  ELSE uds_tp_encode_cf(Piece(mode, pdu, offset), sn)

\* Every data frame is a piece of a PDU that was sent.
FrameOk(mode, pdus, frame) ==
  LET m == Msg(frame) IN
  /\ m \in 1 .. Len(pdus)
  /\ \/ /\ frame.type = "SF"
        /\ Len(pdus[m]) <= SFSize(mode)
        /\ frame = SingleFrame(mode, pdus[m])
     \/ /\ frame.type = "FF"
        /\ Segmented(mode, Len(pdus[m]))
        /\ frame = FirstFrame(mode, pdus[m])
     \/ /\ frame.type = "CF"
        /\ Segmented(mode, Len(pdus[m]))
        /\ Start(frame) \in Nat
        /\ OnGrid(mode, Len(pdus[m]), Start(frame))
        /\ Start(frame) < Len(pdus[m])
        /\ frame = ConsecutiveFrame(mode, pdus[m], Start(frame), frame.sn)

\* The frame that completes its PDU.
IsLast(mode, pdus, frame) ==
  \/ frame.type = "SF"
  \/ frame.type = "CF" /\ Start(frame) + CFSize(mode) >= Len(pdus[Msg(frame)])

SentInv ==
  \A m \in 1 .. Len(sent) :
    /\ Len(sent[m]) \in Nat \ {0}
    /\ sent[m] = Pdu(m, Len(sent[m]))

\* The frames in the receiver's queue are in the order of sending.
Before(f, g) ==
  \/ Msg(f) < Msg(g)
  \/ /\ Msg(f) = Msg(g)
     /\ g.type = "CF"
     /\ \/ f.type = "FF"
        \/ f.type = "CF" /\ Start(f) < Start(g)

QueueInv ==
  /\ \A p \in 1 .. Len(toRx) : FrameOk(fd, sent, toRx[p])
  /\ \A p \in 1 .. Len(toRx) : IsLast(fd, sent, toRx[p]) => Msg(toRx[p]) \notin failed
  /\ \A p \in 1 .. Len(toRx) : toRx[p].type # "CF" => Msg(toRx[p]) \notin lost
  /\ \A p, q \in 1 .. Len(toRx) : p < q => Before(toRx[p], toRx[q])

\* The position of the sender in the PDU of its call.
SenderInv ==
  /\ tx.pc # "idle" => Len(sent) > 0 /\ Len(sent) \notin failed
  /\ tx.pc = "first" =>
       /\ Len(sent) \notin stale \cup lost
       /\ \A p \in 1 .. Len(toRx) : Msg(toRx[p]) < Len(sent)
       /\ rx.pc = "cf" => MsgOf(rx.buf) < Len(sent)
       /\ \A i \in 1 .. Len(toTx) :
            toTx[i].type = "FC" /\ toTx[i].fs = "CTS" => toTx[i].msg < Len(sent)
  /\ tx.pc \in {"fc", "cf"} =>
       /\ Segmented(fd, Len(data))
       /\ OnGrid(fd, Len(data), tx.offset)
       /\ tx.offset < Len(data)
       /\ \A p \in 1 .. Len(toRx) : Msg(toRx[p]) = Len(sent) =>
            /\ toRx[p].type # "SF"
            /\ toRx[p].type = "CF" => Start(toRx[p]) < tx.offset

\* Consecutive frames are under way only behind their first frame, for the
\* reception that its first frame started, or, when that was lost, on the
\* strength of stale flow control.
StartedInv ==
  /\ \A p \in 1 .. Len(toRx) : toRx[p].type = "CF" =>
       LET m == Msg(toRx[p]) IN
       \/ m \in stale \cap lost
       \/ /\ m \in stale
          /\ \E q \in 1 .. p - 1 : toRx[q].type = "FF" /\ Msg(toRx[q]) = m
       \/ /\ \A q \in 1 .. p - 1 : toRx[q].type = "CF" /\ Msg(toRx[q]) = m
          /\ rx.pc = "cf" => MsgOf(rx.buf) = m
  /\ tx.pc \in {"fc", "cf"} =>
       \/ /\ Len(sent) \in lost
          /\ tx.pc = "cf" => Len(sent) \in stale
       \/ /\ \E q \in 1 .. Len(toRx) : toRx[q].type = "FF" /\ Msg(toRx[q]) = Len(sent)
          /\ tx.pc = "cf" => Len(sent) \in stale
       \/ /\ \A q \in 1 .. Len(toRx) : toRx[q].type = "CF" /\ Msg(toRx[q]) = Len(sent)
          /\ rx.pc = "cf" => MsgOf(rx.buf) = Len(sent)
          /\ Len(sent) \notin lost

\* Flow control is for a PDU whose first frame the receiver has read.
FlowInv ==
  \A i \in 1 .. Len(toTx) : toTx[i].type = "FC" /\ toTx[i].fs = "CTS" =>
    /\ toTx[i].msg \in 1 .. Len(sent)
    /\ toTx[i].msg \notin lost
    /\ \A q \in 1 .. Len(toRx) : toRx[q].type = "FF" => Msg(toRx[q]) # toTx[i].msg

\* All that is still to come of the PDU being received starts at n or later.
Ahead(n) ==
  /\ \A p \in 1 .. Len(toRx) : Msg(toRx[p]) = MsgOf(rx.buf) => Start(toRx[p]) >= n
  /\ MsgOf(rx.buf) = Len(sent) /\ tx.pc \in {"fc", "cf"} => tx.offset >= n

\* The receiver holds a prefix of a PDU, or has missed a frame, so that what
\* is still to come cannot complete it, or holds bytes of an offending call.
ReceiverInv ==
  /\ rx.pc = "first" => rx = IdleRx
  /\ rx.pc = "cf" =>
       LET r == MsgOf(rx.buf) IN
       /\ Len(rx.buf) > 0
       /\ r \in 1 .. Len(sent)
       /\ Segmented(fd, Len(sent[r]))
       /\ rx.total_len = Len(sent[r])
       /\ rx.total_len <= BufSize[fd]
       /\ OnGrid(fd, Len(sent[r]), Len(rx.buf))
       /\ Len(rx.buf) < rx.total_len
       /\ r \notin lost
       /\ \A p \in 1 .. Len(toRx) : /\ Msg(toRx[p]) >= r
                                    /\ Msg(toRx[p]) = r => toRx[p].type = "CF"
       /\ \/ Offending(rx.buf, stale \cap lost)
          \/ rx.buf = SubSeq(sent[r], 1, Len(rx.buf)) /\ Ahead(Len(rx.buf))
          \/ Ahead(Len(rx.buf) + CFSize(fd))

\* What was received is whole, each PDU at most once and in order, and all of
\* it is behind the frames still under way.
GotInv ==
  /\ \A i \in 1 .. Len(got) : ~ Offending(got[i], stale \cap lost) =>
       LET m == MsgOf(got[i]) IN
       /\ m \in 1 .. Len(sent)
       /\ got[i] = sent[m]
       /\ m \notin failed \cup lost
       /\ m = Len(sent) => tx.pc = "idle"
       /\ \A p \in 1 .. Len(toRx) : Msg(toRx[p]) > m
       /\ rx.pc = "cf" => MsgOf(rx.buf) > m
  /\ \A i, j \in 1 .. Len(got) :
       i < j /\ ~ Offending(got[i], stale \cap lost) /\ ~ Offending(got[j], stale \cap lost)
         => MsgOf(got[i]) < MsgOf(got[j])

IInv == /\ TypeInv /\ SentInv /\ QueueInv /\ SenderInv /\ StartedInv
        /\ FlowInv /\ ReceiverInv /\ GotInv

----------------------------------------------------------------------------
(* The layout of frames *)

\* Every frame carries data, and a first frame less than its PDU has.
LEMMA Sizes ==
  ASSUME NEW mode \in BOOLEAN
  PROVE  /\ CFSize(mode) \in Nat \ {0}
         /\ SFSize(mode) \in Nat
         /\ \A len : FFSize(mode, len) \in 1 .. SFSize(mode)
BY TransportAssumption DEF CFSize, SFSize, FFSize

\* The first consecutive frame starts after the bytes of the first frame.
LEMMA GridFirst ==
  ASSUME NEW mode \in BOOLEAN, NEW len
  PROVE  OnGrid(mode, len, FFSize(mode, len))
<1>1. FFSize(mode, len) \in Nat /\ CFSize(mode) \in Nat
  BY Sizes
<1>2. FFSize(mode, len) = FFSize(mode, len) + 0 * CFSize(mode)
  BY <1>1
<1> QED
  BY <1>1, <1>2 DEF OnGrid

\* None starts earlier.
LEMMA GridLow ==
  ASSUME NEW mode \in BOOLEAN, NEW len, NEW pos \in Nat, OnGrid(mode, len, pos)
  PROVE  pos >= FFSize(mode, len)
<1> DEFINE e == FFSize(mode, len)
           c == CFSize(mode)
<1>1. e \in Nat /\ c \in Nat
  BY Sizes
<1>2. PICK j \in 0 .. pos : pos = e + j * c
  BY DEF OnGrid
<1> HIDE DEF e, c
<1>3. j * c \in Nat
  BY <1>1
<1>4. pos >= e
  BY <1>1, <1>2, <1>3
<1> QED
  BY <1>4 DEF e

\* The next one starts a frame further on.
LEMMA GridStep ==
  ASSUME NEW mode \in BOOLEAN, NEW len, NEW pos \in Nat, OnGrid(mode, len, pos)
  PROVE  OnGrid(mode, len, pos + CFSize(mode))
<1> DEFINE e == FFSize(mode, len)
           c == CFSize(mode)
<1>1. e \in Nat /\ c \in Nat \ {0}
  BY Sizes
<1>2. PICK j \in 0 .. pos : pos = e + j * c
  BY DEF OnGrid
<1> HIDE DEF e, c
<1>3. (j + 1) * c = j * c + c
  BY <1>1
<1>4. j * c \in Nat
  BY <1>1
<1>5. j + 1 \in 0 .. pos + c /\ pos + c = e + (j + 1) * c
  BY <1>1, <1>2, <1>3, <1>4
<1> QED
  BY <1>5 DEF OnGrid, e, c

\* Two starts that differ are at least a frame apart.
LEMMA GridGap ==
  ASSUME NEW mode \in BOOLEAN, NEW len, NEW a \in Nat, NEW b \in Nat,
         OnGrid(mode, len, a), OnGrid(mode, len, b), a < b
  PROVE  a + CFSize(mode) <= b
<1> DEFINE e == FFSize(mode, len)
           c == CFSize(mode)
<1>1. e \in Nat /\ c \in Nat \ {0}
  BY Sizes
<1>2. PICK i \in 0 .. a : a = e + i * c
  BY DEF OnGrid
<1>3. PICK j \in 0 .. b : b = e + j * c
  BY DEF OnGrid
<1> HIDE DEF e, c
<1>4. i * c \in Nat /\ j * c \in Nat
  BY <1>1
<1>5. i < j
  <2>1. ASSUME j <= i PROVE FALSE
    <3>1. (i - j) \in Nat /\ (i - j) * c \in Nat /\ (i - j) * c = i * c - j * c
      BY <1>1, <2>1
    <3> QED
      BY <1>1, <1>2, <1>3, <1>4, <3>1
  <2> QED
    BY <2>1
<1>6. (j - i - 1) * c \in Nat /\ (j - i - 1) * c = j * c - i * c - c
  BY <1>1, <1>5
<1>7. a + c <= b
  BY <1>1, <1>2, <1>3, <1>4, <1>6
<1> QED
  BY <1>7 DEF c

\* A PDU that was passed to uds_tp_send.
IsPdu(m, pdu) == pdu \in Seq(Octet) /\ Len(pdu) \in Nat \ {0} /\ pdu = Pdu(m, Len(pdu))

\* Each byte of a PDU says which PDU it is from and where it is there.
LEMMA PduBytes ==
  ASSUME NEW m \in Nat, NEW pdu, IsPdu(m, pdu), NEW k \in 1 .. Len(pdu)
  PROVE  pdu[k] = <<m, k>> /\ pdu[k][1] = m /\ pdu[k][2] = k
<1>1. pdu = [i \in 1 .. Len(pdu) |-> <<m, i>>]
  BY DEF IsPdu, Pdu
<1>2. pdu[k] = <<m, k>>
  BY <1>1
<1> QED
  BY <1>2

\* What uds_tp_encode_sf and its CAN FD variant make of a PDU.
LEMMA SingleFrameFacts ==
  ASSUME NEW mode \in BOOLEAN, NEW pdus, NEW m \in 1 .. Len(pdus), Len(pdus) \in Nat,
         IsPdu(m, pdus[m]), Len(pdus[m]) <= SFSize(mode)
  PROVE  LET f == SingleFrame(mode, pdus[m]) IN
         /\ f \in DataFrames
         /\ f.type = "SF"
         /\ Msg(f) = m
         /\ FrameOk(mode, pdus, f)
<1> DEFINE f == SingleFrame(mode, pdus[m])
<1>1. f.type = "SF" /\ f.bytes = pdus[m]
  BY DEF SingleFrame, uds_tp_encode_sf, uds_tp_encode_sf_fd
<1>2. f \in DataFrames
  BY TransportAssumption DEF SingleFrame, uds_tp_encode_sf, uds_tp_encode_sf_fd, DataFrames, IsPdu
<1>3. Msg(f) = m
  <2>1. 1 \in 1 .. Len(pdus[m])
    BY DEF IsPdu
  <2> QED
    BY <1>1, <2>1, PduBytes DEF Msg, MsgOf
<1> QED
  BY <1>1, <1>2, <1>3 DEF FrameOk

\* What uds_tp_encode_ff and its CAN FD variant make of a PDU.
LEMMA FirstFrameFacts ==
  ASSUME NEW mode \in BOOLEAN, NEW pdus, NEW m \in 1 .. Len(pdus), Len(pdus) \in Nat,
         IsPdu(m, pdus[m]), Segmented(mode, Len(pdus[m]))
  PROVE  LET f == FirstFrame(mode, pdus[m]) IN
         /\ f \in DataFrames
         /\ f.type = "FF"
         /\ f.bytes = SubSeq(pdus[m], 1, FFSize(mode, Len(pdus[m])))
         /\ Len(f.bytes) = FFSize(mode, Len(pdus[m]))
         /\ FFSize(mode, Len(pdus[m])) < Len(pdus[m])
         /\ Msg(f) = m
         /\ FrameOk(mode, pdus, f)
<1> DEFINE f == FirstFrame(mode, pdus[m])
           n == FFSize(mode, Len(pdus[m]))
<1>1. f.type = "FF" /\ f.bytes = SubSeq(pdus[m], 1, n)
  BY DEF FirstFrame, uds_tp_encode_ff, uds_tp_encode_ff_fd, FFSize
<1>2. n \in 1 .. Len(pdus[m]) /\ n < Len(pdus[m])
  BY Sizes DEF Segmented, IsPdu
<1>3. /\ SubSeq(pdus[m], 1, n) \in Seq(Octet)
      /\ Len(SubSeq(pdus[m], 1, n)) = n
      /\ SubSeq(pdus[m], 1, n)[1] = pdus[m][1]
  BY <1>2 DEF IsPdu
<1>4. f \in DataFrames
  <2>1. f.bytes \in Seq(Octet)
    BY <1>1, <1>3
  <2> HIDE DEF n
  <2> QED
    BY <1>3, <2>1 DEF FirstFrame, uds_tp_encode_ff, uds_tp_encode_ff_fd, DataFrames, IsPdu
<1>5. Msg(f) = m
  <2>1. pdus[m][1][1] = m
    BY PduBytes DEF IsPdu
  <2> HIDE DEF f, n
  <2> QED
    BY <1>1, <1>3, <2>1 DEF Msg, MsgOf
<1> QED
  BY <1>1, <1>2, <1>3, <1>4, <1>5 DEF FrameOk

\* The bytes a consecutive frame takes from a PDU.
LEMMA PieceFacts ==
  ASSUME NEW mode \in BOOLEAN, NEW pdu \in Seq(Octet), NEW offset \in Nat,
         offset < Len(pdu)
  PROVE  /\ Piece(mode, pdu, offset) \in Seq(Octet)
         /\ Len(Piece(mode, pdu, offset)) = Smaller(Len(pdu) - offset, CFSize(mode))
         /\ Len(Piece(mode, pdu, offset)) > 0
         /\ \A k \in 1 .. Len(Piece(mode, pdu, offset)) :
              Piece(mode, pdu, offset)[k] = pdu[offset + k]
<1> DEFINE n == Smaller(Len(pdu) - offset, CFSize(mode))
<1>1. n \in 1 .. Len(pdu) - offset /\ Len(pdu) \in Nat
  BY Sizes DEF Smaller
<1>2. Piece(mode, pdu, offset) = SubSeq(pdu, offset + 1, offset + n)
  BY DEF Piece
<1> HIDE DEF n
<1>3. offset + n \in Nat /\ offset + n <= Len(pdu) /\ (offset + n) - (offset + 1) + 1 = n
  BY <1>1
<1>4. /\ SubSeq(pdu, offset + 1, offset + n) \in Seq(Octet)
      /\ Len(SubSeq(pdu, offset + 1, offset + n)) = n
      /\ \A k \in 1 .. n : SubSeq(pdu, offset + 1, offset + n)[k] = pdu[offset + k]
  BY <1>1, <1>3
<1>5. n > 0
  BY <1>1
<1> QED
  BY <1>2, <1>4, <1>5 DEF n

\* What uds_tp_encode_cf and its CAN FD variant make of a piece of a PDU.
LEMMA ConsecutiveFrameFacts ==
  ASSUME NEW mode \in BOOLEAN, NEW pdus, NEW m \in 1 .. Len(pdus), Len(pdus) \in Nat,
         IsPdu(m, pdus[m]), Segmented(mode, Len(pdus[m])),
         NEW offset \in Nat, OnGrid(mode, Len(pdus[m]), offset), offset < Len(pdus[m]),
         NEW sn \in 0 .. SNMod - 1
  PROVE  LET f == ConsecutiveFrame(mode, pdus[m], offset, sn) IN
         /\ f \in DataFrames
         /\ f.type = "CF"
         /\ Msg(f) = m
         /\ Start(f) = offset
         /\ f.sn = sn
         /\ FrameOk(mode, pdus, f)
<1> DEFINE f == ConsecutiveFrame(mode, pdus[m], offset, sn)
           piece == Piece(mode, pdus[m], offset)
           c == CFSize(mode)
<1>1. c \in Nat \ {0}
  BY Sizes
<1>2. f = [type |-> "CF", sn |-> sn, bytes |-> Padded(piece, c)]
  BY DEF ConsecutiveFrame, uds_tp_encode_cf, uds_tp_encode_cf_fd, CFSize
<1>3. /\ piece \in Seq(Octet) /\ Len(piece) > 0
      /\ piece[1] = pdus[m][offset + 1]
  <2> HIDE DEF piece
  <2>1. /\ piece \in Seq(Octet) /\ Len(piece) \in Nat /\ Len(piece) > 0
        /\ \A k \in 1 .. Len(piece) : piece[k] = pdus[m][offset + k]
    BY PieceFacts DEF IsPdu, piece
  <2>2. 1 \in 1 .. Len(piece)
    BY <2>1
  <2> QED
    BY <2>1, <2>2
<1>4. pdus[m][offset + 1][1] = m /\ pdus[m][offset + 1][2] = offset + 1
  BY PduBytes DEF IsPdu
<1> HIDE DEF piece, c, f
<1>5. /\ Padded(piece, c) \in Seq(Octet)
      /\ Padded(piece, c)[1] = piece[1]
  <2>1. Pad \in Octet
    BY DEF Pad, Octet
  <2>2. Padded(piece, c) \in [1 .. c -> Octet]
    BY <1>1, <1>3, <2>1 DEF Padded
  <2>3. Padded(piece, c) \in Seq(Octet)
    BY <1>1, <2>2
  <2>4. 1 \in 1 .. c /\ 1 <= Len(piece)
    BY <1>1, <1>3
  <2> QED
    BY <2>3, <2>4 DEF Padded
<1>6. f \in DataFrames
  BY <1>2, <1>5 DEF DataFrames
<1>7. Msg(f) = m /\ Start(f) = offset
  <2>1. f.bytes[1] = pdus[m][offset + 1]
    BY <1>2, <1>3, <1>5
  <2> QED
    BY <1>4, <2>1 DEF Msg, MsgOf, Start
<1>8. f = ConsecutiveFrame(mode, pdus[m], Start(f), f.sn)
  BY <1>2, <1>7 DEF f
<1> QED
  BY <1>2, <1>6, <1>7, <1>8 DEF FrameOk, f

\* Reading a single frame: its PDU, or nothing if the buffer is too small.
LEMMA ReadSingle ==
  ASSUME TypeInv, SentInv, NEW frame, FrameOk(fd, sent, frame), frame.type = "SF"
  PROVE  DecodeSF(frame) \in {<<>>, <<sent[Msg(frame)]>>}
<1> DEFINE pdu == sent[Msg(frame)]
<1>1. /\ fd \in BOOLEAN
      /\ frame = SingleFrame(fd, pdu)
      /\ Len(pdu) <= SFSize(fd)
      /\ Msg(frame) \in 1 .. Len(sent)
  BY TransportAssumption DEF FrameOk, TypeInv
<1>2. pdu \in Seq(Octet) /\ Len(pdu) \in Nat \ {0}
  BY <1>1 DEF TypeInv, SentInv
<1> HIDE DEF pdu
<1>3. SubSeq(pdu, 1, Len(pdu)) = pdu
  BY <1>2
<1>4. CASE fd
  <2>1. /\ frame.bytes = pdu
        /\ frame.dl = IF Len(pdu) <= SFMax THEN Len(pdu) ELSE 0
        /\ frame.ext = IF Len(pdu) <= SFMax THEN 0 ELSE Len(pdu)
    BY <1>1, <1>4 DEF SingleFrame, uds_tp_encode_sf_fd
  <2>2. (IF frame.dl = 0 THEN frame.ext ELSE frame.dl) = Len(pdu)
    BY <1>2, <2>1
  <2>3. DecodeSF(frame) \in {<<>>, <<SubSeq(frame.bytes, 1, Len(pdu))>>}
    BY <1>4, <2>2 DEF DecodeSF, uds_tp_decode_sf_fd
  <2> QED
    BY <1>3, <2>1, <2>3 DEF pdu
<1>5. CASE ~ fd
  <2>1. frame.bytes = pdu /\ frame.dl = Len(pdu)
    BY <1>1, <1>5 DEF SingleFrame, uds_tp_encode_sf
  <2>2. DecodeSF(frame) \in {<<>>, <<SubSeq(frame.bytes, 1, Len(pdu))>>}
    BY <1>5, <2>1 DEF DecodeSF, uds_tp_decode_sf
  <2> QED
    BY <1>3, <2>1, <2>2 DEF pdu
<1> QED
  BY <1>4, <1>5

\* Reading a first frame: the length of its PDU and the PDU's first bytes.
LEMMA ReadFirst ==
  ASSUME TypeInv, SentInv, NEW frame, FrameOk(fd, sent, frame), frame.type = "FF"
  PROVE  LET pdu == sent[Msg(frame)] IN
         /\ DecodeFF(frame) = Len(pdu)
         /\ frame.bytes = SubSeq(pdu, 1, FFSize(fd, Len(pdu)))
         /\ Len(frame.bytes) = FFSize(fd, Len(pdu))
         /\ FFSize(fd, Len(pdu)) \in 1 .. Len(pdu) - 1
<1> DEFINE m == Msg(frame)
           pdu == sent[m]
<1>1. /\ fd \in BOOLEAN
      /\ m \in 1 .. Len(sent)
      /\ frame = FirstFrame(fd, pdu)
      /\ Segmented(fd, Len(pdu))
  BY TransportAssumption DEF FrameOk, TypeInv
<1>2. IsPdu(m, pdu) /\ Len(sent) \in Nat
  BY <1>1 DEF TypeInv, SentInv, IsPdu
<1> HIDE DEF m
<1>3. /\ frame.bytes = SubSeq(pdu, 1, FFSize(fd, Len(pdu)))
      /\ Len(frame.bytes) = FFSize(fd, Len(pdu))
      /\ FFSize(fd, Len(pdu)) < Len(pdu)
  BY <1>1, <1>2, FirstFrameFacts
<1>4. FFSize(fd, Len(pdu)) \in 1 .. Len(pdu) - 1
  BY <1>1, <1>2, <1>3, Sizes DEF IsPdu
<1> HIDE DEF pdu
<1>5. DecodeFF(frame) = Len(pdu)
  BY <1>1, <1>2, TransportAssumption
     DEF DecodeFF, uds_tp_decode_ff, uds_tp_decode_ff_fd, FirstFrame, uds_tp_encode_ff,
         uds_tp_encode_ff_fd, Segmented, SFSize, IsPdu
<1> QED
  BY <1>3, <1>4, <1>5 DEF pdu, m

\* Reading n bytes of a consecutive frame: the first comes from the PDU, and
\* all do if so many are left of it.
LEMMA ReadConsecutive ==
  ASSUME TypeInv, SentInv, NEW frame, FrameOk(fd, sent, frame), frame.type = "CF",
         NEW n \in 1 .. CFSize(fd)
  PROVE  LET pdu == sent[Msg(frame)]
             read == DecodeCF(frame, n)
         IN  /\ read \in Seq(Octet) /\ Len(read) = n
             /\ read[1][1] = Msg(frame)
             /\ Start(frame) + n <= Len(pdu) =>
                  \A k \in 1 .. n : read[k] = pdu[Start(frame) + k]
<1> DEFINE m == Msg(frame)
           pdu == sent[m]
           s == Start(frame)
           piece == Piece(fd, pdu, s)
           c == CFSize(fd)
<1>1. /\ fd \in BOOLEAN
      /\ m \in 1 .. Len(sent)
      /\ frame = ConsecutiveFrame(fd, pdu, s, frame.sn)
      /\ s \in Nat /\ s < Len(pdu)
  BY TransportAssumption DEF FrameOk, TypeInv
<1>2. IsPdu(m, pdu) /\ Len(sent) \in Nat
  BY <1>1 DEF TypeInv, SentInv, IsPdu
<1>3. c \in Nat \ {0}
  BY <1>1, Sizes
<1>4. frame.bytes = Padded(piece, c)
  BY <1>1 DEF ConsecutiveFrame, uds_tp_encode_cf, uds_tp_encode_cf_fd, CFSize
<1>5. DecodeCF(frame, n) = SubSeq(frame.bytes, 1, n)
  BY <1>1 DEF DecodeCF, uds_tp_decode_cf, uds_tp_decode_cf_fd
<1> HIDE DEF m, pdu, s, c
<1>6. /\ piece \in Seq(Octet)
      /\ Len(piece) = Smaller(Len(pdu) - s, c)
      /\ Len(piece) > 0
      /\ \A k \in 1 .. Len(piece) : piece[k] = pdu[s + k]
  BY <1>1, <1>2, PieceFacts DEF IsPdu, c
<1> HIDE DEF piece
<1>7. /\ Padded(piece, c) \in Seq(Octet)
      /\ Len(Padded(piece, c)) = c
      /\ \A k \in 1 .. Len(piece) : k <= c => Padded(piece, c)[k] = piece[k]
  <2>1. Pad \in Octet
    BY DEF Pad, Octet
  <2>2. Padded(piece, c) \in [1 .. c -> Octet]
    BY <1>3, <1>6, <2>1 DEF Padded
  <2> QED
    BY <1>3, <1>6, <2>2 DEF Padded
<1> DEFINE read == SubSeq(frame.bytes, 1, n)
<1>8. n \in 1 .. c
  BY DEF c
<1>9. /\ read \in Seq(Octet) /\ Len(read) = n
      /\ \A k \in 1 .. n : read[k] = frame.bytes[k]
  BY <1>3, <1>4, <1>7, <1>8
<1> HIDE DEF read
<1>10. read[1][1] = m
  <2>1. read[1] = pdu[s + 1]
    BY <1>4, <1>6, <1>7, <1>8, <1>9, <1>3
  <2>2. s + 1 \in 1 .. Len(pdu) /\ m \in Nat
    BY <1>1, <1>2 DEF IsPdu
  <2> QED
    BY <1>2, <2>1, <2>2, PduBytes
<1>11. ASSUME s + n <= Len(pdu), NEW k \in 1 .. n
       PROVE  read[k] = pdu[s + k]
  <2>1. k <= c /\ k \in 1 .. Len(piece)
    BY <1>1, <1>2, <1>3, <1>6, <1>8, <1>11 DEF Smaller, IsPdu
  <2> QED
    BY <1>4, <1>6, <1>7, <1>9, <2>1
<1> QED
  BY <1>5, <1>9, <1>10, <1>11 DEF read, m, pdu, s

----------------------------------------------------------------------------
(* Queues *)

\* A frame is taken from a queue.
LEMMA TailFacts ==
  ASSUME NEW S, NEW q \in Seq(S), q # <<>>
  PROVE  /\ Tail(q) \in Seq(S)
         /\ Len(q) \in Nat \ {0} /\ Len(Tail(q)) = Len(q) - 1
         /\ Head(q) = q[1] /\ 1 \in 1 .. Len(q) /\ q[1] \in S
         /\ \A p \in 1 .. Len(Tail(q)) : Tail(q)[p] = q[p + 1] /\ p + 1 \in 1 .. Len(q)
OBVIOUS

\* A frame is put into a queue.
LEMMA AppendFacts ==
  ASSUME NEW S, NEW q \in Seq(S), NEW x \in S
  PROVE  /\ Append(q, x) \in Seq(S)
         /\ Len(q) \in Nat /\ Len(Append(q, x)) = Len(q) + 1
         /\ Append(q, x)[Len(q) + 1] = x
         /\ \A p \in 1 .. Len(q) : Append(q, x)[p] = q[p]
         /\ \A p \in 1 .. Len(q) + 1 : p \in 1 .. Len(q) \/ p = Len(q) + 1
OBVIOUS

\* Flow control in the sender's queue was there before.
NoNewFlow ==
  \A i \in 1 .. Len(toTx') : toTx'[i].type = "FC" /\ toTx'[i].fs = "CTS" =>
     \E j \in 1 .. Len(toTx) : toTx'[i] = toTx[j]

\* Taking a frame adds no flow control.
LEMMA FlowTaken ==
  ASSUME TypeInv, \/ UNCHANGED toTx
                  \/ toTx # <<>> /\ toTx' = Tail(toTx)
  PROVE  NoNewFlow /\ toTx' \in Seq(FlowFrames)
<1>1. CASE UNCHANGED toTx
  BY <1>1 DEF NoNewFlow, TypeInv
<1>2. CASE toTx # <<>> /\ toTx' = Tail(toTx)
  BY <1>2, TailFacts DEF NoNewFlow, TypeInv
<1> QED
  BY <1>1, <1>2

----------------------------------------------------------------------------
(* Steps of the sender *)

\* The locals at the start of a call.
LEMMA IdleTypes ==
  /\ IdleTx \in TxLocals /\ IdleTx.pc = "idle"
  /\ [IdleTx EXCEPT !.pc = "first"] \in TxLocals
  /\ IdleRx \in RxLocals /\ IdleRx.pc = "first"
  /\ 1 \in 0 .. SNMod - 1
<1>1. 0 \in 0 .. MaxWait /\ 0 \in 0 .. SNMod - 1 /\ 1 \in 0 .. SNMod - 1
  BY TransportAssumption
<1> QED
  BY <1>1 DEF IdleTx, TxLocals, IdleRx, RxLocals

\* uds_tp_send returns an error: what it sent of its PDU does not complete it.
LEMMA SenderGivesUp ==
  ASSUME IInv, tx.pc # "idle", tx' = IdleTx, failed' = failed \cup {Len(sent)},
         \/ UNCHANGED toTx
         \/ toTx # <<>> /\ toTx' = Tail(toTx),
         UNCHANGED <<sent, stale, rxSide, toRx, medium>>, faults' \in 0 .. MaxFaults
  PROVE  IInv'
<1> USE DEF medium, rxSide
<1>0. Len(sent) \in Nat /\ Len(sent) > 0
  BY DEF IInv, TypeInv, SenderInv
<1>1. NoNewFlow /\ toTx' \in Seq(FlowFrames)
  BY FlowTaken DEF IInv
<1>2. TypeInv'
  <2>1. IdleTx \in TxLocals
    BY IdleTypes
  <2>2. Len(sent) \in 1 .. Len(sent)
    BY <1>0
  <2>3. failed' \subseteq 1 .. Len(sent)
    BY <2>2 DEF IInv, TypeInv
  <2> QED
    BY <1>1, <2>1, <2>3 DEF IInv, TypeInv
<1>3. SentInv'
  BY DEF IInv, SentInv
<1>4. QueueInv'
  <2>1. ASSUME NEW p \in 1 .. Len(toRx), IsLast(fd, sent, toRx[p])
        PROVE  Msg(toRx[p]) # Len(sent)
    <3>1. SUFFICES ASSUME Msg(toRx[p]) = Len(sent) PROVE FALSE
      OBVIOUS
    <3>2. tx.pc \in {"first", "fc", "cf"}
      BY DEF IInv, TypeInv, TxLocals
    <3>3. tx.pc # "first"
      BY <1>0, <3>1 DEF IInv, SenderInv
    <3>4. toRx[p].type = "CF" /\ Start(toRx[p]) < tx.offset
      BY <2>1, <3>1, <3>2, <3>3 DEF IInv, SenderInv, IsLast
    <3>5. /\ OnGrid(fd, Len(sent[Len(sent)]), tx.offset)
          /\ tx.offset < Len(sent[Len(sent)])
          /\ tx.offset \in Nat
      BY <3>2, <3>3 DEF IInv, SenderInv, TypeInv, TxLocals, data
    <3>6. /\ Start(toRx[p]) \in Nat
          /\ OnGrid(fd, Len(sent[Len(sent)]), Start(toRx[p]))
      BY <3>1, <3>4 DEF IInv, QueueInv, FrameOk
    <3>7. fd \in BOOLEAN /\ Len(sent[Len(sent)]) \in Nat
      BY <1>0, TransportAssumption DEF IInv, TypeInv, SentInv
    <3>8. Start(toRx[p]) + CFSize(fd) <= tx.offset
      BY <3>4, <3>5, <3>6, <3>7, GridGap
    <3>9. CFSize(fd) \in Nat
      BY <3>7, Sizes
    <3> QED
      BY <2>1, <3>1, <3>4, <3>5, <3>6, <3>7, <3>8, <3>9 DEF IsLast
  <2> QED
    BY <2>1 DEF IInv, QueueInv
<1>5. SenderInv' /\ StartedInv'
  BY DEF IInv, SenderInv, StartedInv, IdleTx
<1>6. FlowInv'
  BY <1>1 DEF IInv, FlowInv, NoNewFlow
<1>7. ReceiverInv'
  BY DEF IInv, ReceiverInv, Ahead, IdleTx
<1>8. GotInv'
  BY DEF IInv, GotInv, IdleTx
<1> QED
  BY <1>2, <1>3, <1>4, <1>5, <1>6, <1>7, <1>8 DEF IInv

\* The sender's queue changes, but no flow control is added, and the sender at
\* most counts a WAIT frame.
LEMMA FlowQueueStep ==
  ASSUME IInv, NoNewFlow, toTx' \in Seq(FlowFrames),
         tx' \in TxLocals, tx'.pc = tx.pc, tx'.offset = tx.offset,
         UNCHANGED <<sent, failed, stale, rxSide, toRx, medium>>, faults' \in 0 .. MaxFaults
  PROVE  IInv'
<1> USE DEF medium, rxSide
<1>1. TypeInv' /\ SentInv' /\ QueueInv'
  BY DEF IInv, TypeInv, SentInv, QueueInv
<1>2. SenderInv'
  BY DEF IInv, SenderInv, data, NoNewFlow
<1>3. StartedInv'
  BY DEF IInv, StartedInv
<1>4. FlowInv'
  BY DEF IInv, FlowInv, NoNewFlow
<1>5. ReceiverInv'
  BY DEF IInv, ReceiverInv, Ahead
<1>6. GotInv'
  BY DEF IInv, GotInv
<1> QED
  BY <1>1, <1>2, <1>3, <1>4, <1>5, <1>6 DEF IInv

\* A PDU is appended: the frames of the others stay what they are.
LEMMA PduAppended ==
  ASSUME NEW mode, NEW pdus \in Seq(Seq(Octet)), NEW x \in Seq(Octet), NEW frame,
         FrameOk(mode, pdus, frame)
  PROVE  /\ FrameOk(mode, Append(pdus, x), frame)
         /\ IsLast(mode, Append(pdus, x), frame) <=> IsLast(mode, pdus, frame)
<1>1. Msg(frame) \in 1 .. Len(pdus)
  BY DEF FrameOk
<1>2. /\ Append(pdus, x)[Msg(frame)] = pdus[Msg(frame)]
      /\ Msg(frame) \in 1 .. Len(Append(pdus, x))
  BY <1>1
<1> HIDE <1>1
<1> QED
  BY <1>2 DEF FrameOk, IsLast

\* uds_tp_send is called.
LEMMA CallInv ==
  ASSUME IInv, NEW len \in Lengths[bus][fd], Call(len)
  PROVE  IInv'
<1> USE DEF medium, rxSide
<1> DEFINE S == Len(sent)
           pdu == Pdu(S + 1, len)
<1>1. len \in Nat \ {0}
  BY TransportAssumption DEF IInv, TypeInv
<1>2. S \in Nat
  BY DEF IInv, TypeInv
<1>3. pdu \in Seq(Octet) /\ Len(pdu) = len
  BY <1>1, <1>2 DEF Pdu, Octet
<1>4. sent' = Append(sent, pdu) /\ tx' = [IdleTx EXCEPT !.pc = "first"] /\ tx.pc = "idle"
  BY DEF Call
<1>5. UNCHANGED <<failed, stale, rx, got, toRx, toTx, faults, lost, bus, fd>>
  BY DEF Call
<1> HIDE DEF pdu
<1>6. /\ sent' \in Seq(Seq(Octet)) /\ Len(sent') = S + 1 /\ sent'[S + 1] = pdu
      /\ \A m \in 1 .. S : sent'[m] = sent[m]
      /\ \A m \in 1 .. S + 1 : m \in 1 .. S \/ m = S + 1
  BY <1>3, <1>4, AppendFacts DEF IInv, TypeInv
<1>7. tx' \in TxLocals /\ tx'.pc = "first"
  BY <1>4, IdleTypes DEF IdleTx
<1> HIDE DEF S
<1>8. TypeInv'
  <2>1. 1 .. S \subseteq 1 .. Len(sent')
    BY <1>2, <1>6
  <2>2. failed' \subseteq 1 .. Len(sent') /\ stale' \subseteq 1 .. Len(sent')
        /\ lost' \subseteq 1 .. Len(sent')
    BY <1>5, <2>1 DEF IInv, TypeInv, S
  <2> QED
    BY <1>5, <1>6, <1>7, <2>2 DEF IInv, TypeInv
<1>9. SentInv'
  BY <1>1, <1>2, <1>3, <1>6 DEF IInv, SentInv, S, pdu
<1>10. \A p \in 1 .. Len(toRx) : /\ Msg(toRx[p]) \in 1 .. S
                                 /\ FrameOk(fd, sent', toRx[p])
                                 /\ IsLast(fd, sent', toRx[p]) <=> IsLast(fd, sent, toRx[p])
  <2> SUFFICES ASSUME NEW p \in 1 .. Len(toRx)
               PROVE  /\ Msg(toRx[p]) \in 1 .. S
                      /\ FrameOk(fd, sent', toRx[p])
                      /\ IsLast(fd, sent', toRx[p]) <=> IsLast(fd, sent, toRx[p])
    OBVIOUS
  <2>1. FrameOk(fd, sent, toRx[p]) /\ sent \in Seq(Seq(Octet))
    BY DEF IInv, QueueInv, TypeInv
  <2>2. Msg(toRx[p]) \in 1 .. S
    BY <2>1 DEF FrameOk, S
  <2> QED
    BY <1>3, <1>4, <2>1, <2>2, PduAppended
<1>11. QueueInv'
  BY <1>5, <1>10 DEF IInv, QueueInv
<1>12. rx.pc = "cf" => MsgOf(rx.buf) \in 1 .. S
  BY DEF IInv, ReceiverInv, S
<1>13. SenderInv'
  <2>1. S + 1 \notin failed \cup stale \cup lost
    BY <1>2 DEF IInv, TypeInv, S
  <2>2. \A i \in 1 .. Len(toTx) :
          toTx[i].type = "FC" /\ toTx[i].fs = "CTS" => toTx[i].msg \in 1 .. S
    BY DEF IInv, FlowInv, S
  <2> QED
    BY <1>2, <1>5, <1>6, <1>7, <1>10, <1>12, <2>1, <2>2 DEF SenderInv
<1>14. StartedInv'
  BY <1>5, <1>7 DEF IInv, StartedInv
<1>15. FlowInv'
  BY <1>2, <1>5, <1>6 DEF IInv, FlowInv, S
<1>16. ReceiverInv'
  BY <1>2, <1>5, <1>6, <1>7, <1>12 DEF IInv, ReceiverInv, Ahead, S
<1>17. GotInv'
  <2>1. ASSUME NEW i \in 1 .. Len(got), ~ Offending(got[i], stale \cap lost)
        PROVE  LET m == MsgOf(got[i]) IN
               /\ m \in 1 .. Len(sent') /\ got[i] = sent'[m] /\ m \notin failed \cup lost
               /\ m # Len(sent')
               /\ \A p \in 1 .. Len(toRx) : Msg(toRx[p]) > m
               /\ rx.pc = "cf" => MsgOf(rx.buf) > m
    <3>1. MsgOf(got[i]) \in 1 .. S /\ got[i] = sent[MsgOf(got[i])]
      BY <2>1 DEF IInv, GotInv, S
    <3>2. MsgOf(got[i]) \in 1 .. Len(sent') /\ MsgOf(got[i]) # Len(sent')
      BY <1>2, <1>6, <3>1
    <3> QED
      BY <1>6, <2>1, <3>1, <3>2 DEF IInv, GotInv
  <2> QED
    BY <1>5, <2>1 DEF IInv, GotInv
<1> QED
  BY <1>8, <1>9, <1>11, <1>13, <1>14, <1>15, <1>16, <1>17 DEF IInv

\* The sender is at the last PDU passed to it.
LEMMA Sending ==
  ASSUME IInv, tx.pc # "idle"
  PROVE  /\ fd \in BOOLEAN
         /\ Len(sent) \in Nat \ {0} /\ Len(sent) \in 1 .. Len(sent)
         /\ IsPdu(Len(sent), data)
         /\ data \in Seq(Octet) /\ Len(data) \in Nat \ {0}
         /\ Len(sent) \notin failed
         /\ tx \in TxLocals /\ tx.offset \in Nat
<1>1. Len(sent) \in Nat \ {0} /\ Len(sent) \in 1 .. Len(sent)
  BY DEF IInv, SenderInv, TypeInv
<1>2. fd \in BOOLEAN /\ tx \in TxLocals /\ tx.offset \in Nat
  BY TransportAssumption DEF IInv, TypeInv, TxLocals
<1>3. sent[Len(sent)] \in Seq(Octet)
  BY <1>1 DEF IInv, TypeInv
<1>4. /\ Len(sent[Len(sent)]) \in Nat \ {0}
      /\ sent[Len(sent)] = Pdu(Len(sent), Len(sent[Len(sent)]))
  BY <1>1 DEF IInv, SentInv
<1>5. IsPdu(Len(sent), data) /\ data \in Seq(Octet) /\ Len(data) \in Nat \ {0}
  BY <1>3, <1>4 DEF IsPdu, data
<1>6. Len(sent) \notin failed
  BY DEF IInv, SenderInv
<1> QED
  BY <1>1, <1>2, <1>5, <1>6

\* A single frame goes out and the call returns.
LEMMA SingleSent ==
  ASSUME IInv, tx.pc = "first", Len(data) <= SFLimit, toRx' = Append(toRx, EncodeSF(data)),
         tx' = IdleTx,
         UNCHANGED <<sent, failed, stale, rxSide, toTx, faults, medium>>
  PROVE  IInv'
<1> USE DEF medium, rxSide
<1> DEFINE S == Len(sent)
           f == EncodeSF(data)
           n == Len(toRx)
<1>1. fd \in BOOLEAN /\ S \in Nat \ {0} /\ S \in 1 .. S /\ IsPdu(S, data) /\ S \notin failed
  BY Sending
<1>2. f = SingleFrame(fd, sent[S]) /\ Len(sent[S]) <= SFSize(fd)
  BY DEF EncodeSF, SingleFrame, data, SFLimit, SFSize
<1>3. f \in DataFrames /\ f.type = "SF" /\ Msg(f) = S /\ FrameOk(fd, sent, f)
  BY <1>1, <1>2, SingleFrameFacts DEF data
<1> HIDE DEF f
<1>4. /\ toRx' \in Seq(DataFrames) /\ n \in Nat /\ Len(toRx') = n + 1 /\ toRx'[n + 1] = f
      /\ \A p \in 1 .. n : toRx'[p] = toRx[p]
      /\ \A p \in 1 .. n + 1 : p \in 1 .. n \/ p = n + 1
  BY <1>3, AppendFacts DEF IInv, TypeInv, f
<1> HIDE DEF S, n
<1>5. /\ \A p \in 1 .. n : Msg(toRx[p]) < S
      /\ rx.pc = "cf" => MsgOf(rx.buf) < S /\ MsgOf(rx.buf) \in Nat
      /\ S \notin lost
  BY DEF IInv, SenderInv, ReceiverInv, S, n
<1>6. TypeInv' /\ SentInv'
  BY <1>4, IdleTypes DEF IInv, TypeInv, SentInv
<1>7. QueueInv'
  BY <1>1, <1>3, <1>4, <1>5 DEF IInv, QueueInv, Before, n
<1>8. SenderInv'
  BY DEF SenderInv, IdleTx
<1>9. StartedInv'
  BY <1>3, <1>4 DEF IInv, StartedInv, IdleTx, n
<1>10. FlowInv'
  BY <1>3, <1>4 DEF IInv, FlowInv, n
<1>11. ReceiverInv'
  BY <1>1, <1>3, <1>4, <1>5 DEF IInv, ReceiverInv, Ahead, IdleTx, n
<1>12. GotInv'
  <2>1. \A i \in 1 .. Len(got) : ~ Offending(got[i], stale \cap lost) =>
          MsgOf(got[i]) < S
    BY <1>1 DEF IInv, GotInv, S
  <2> QED
    BY <1>3, <1>4, <2>1 DEF IInv, GotInv, IdleTx, n
<1> QED
  BY <1>6, <1>7, <1>8, <1>9, <1>10, <1>11, <1>12 DEF IInv

\* A first frame goes out and the call waits for flow control.
LEMMA FirstSent ==
  ASSUME IInv, tx.pc = "first", Len(data) > SFLimit, fd \/ Len(data) <= FFMaxLen,
         toRx' = Append(toRx, EncodeFF(data)),
         tx' = [tx EXCEPT !.pc = "fc", !.offset = ff_embed, !.sn = 1],
         UNCHANGED <<sent, failed, stale, rxSide, toTx, faults, medium>>
  PROVE  IInv'
<1> USE DEF medium, rxSide
<1> DEFINE S == Len(sent)
           f == EncodeFF(data)
           n == Len(toRx)
           e == FFSize(fd, Len(data))
<1>1. /\ fd \in BOOLEAN /\ S \in Nat \ {0} /\ S \in 1 .. S /\ IsPdu(S, data) /\ S \notin failed
      /\ tx \in TxLocals
  BY Sending
<1>2. f = FirstFrame(fd, sent[S]) /\ Segmented(fd, Len(sent[S])) /\ ff_embed = e
  BY DEF EncodeFF, FirstFrame, data, SFLimit, SFSize, Segmented, ff_embed, FFSize
<1>3. /\ f \in DataFrames /\ f.type = "FF" /\ Msg(f) = S /\ FrameOk(fd, sent, f)
      /\ e < Len(data)
  BY <1>1, <1>2, FirstFrameFacts DEF data
<1>4. e \in Nat /\ OnGrid(fd, Len(data), e)
  BY <1>1, Sizes, GridFirst
<1> HIDE DEF f, e
<1>5. /\ toRx' \in Seq(DataFrames) /\ n \in Nat /\ Len(toRx') = n + 1 /\ toRx'[n + 1] = f
      /\ \A p \in 1 .. n : toRx'[p] = toRx[p]
      /\ \A p \in 1 .. n + 1 : p \in 1 .. n \/ p = n + 1
  BY <1>3, AppendFacts DEF IInv, TypeInv, f
<1>6. tx' \in TxLocals /\ tx'.pc = "fc" /\ tx'.offset = e
  BY <1>1, <1>2, <1>4, IdleTypes DEF TxLocals
<1> HIDE DEF S, n
<1>7. /\ \A p \in 1 .. n : Msg(toRx[p]) < S /\ Msg(toRx[p]) \in Nat
      /\ rx.pc = "cf" => MsgOf(rx.buf) < S /\ MsgOf(rx.buf) \in Nat
      /\ S \notin stale \cup lost
  BY DEF IInv, SenderInv, ReceiverInv, QueueInv, FrameOk, S, n
<1>8. TypeInv' /\ SentInv'
  BY <1>5, <1>6 DEF IInv, TypeInv, SentInv
<1>9. QueueInv'
  BY <1>1, <1>3, <1>5, <1>7 DEF IInv, QueueInv, Before, IsLast, n
<1>10. SenderInv'
  BY <1>1, <1>2, <1>3, <1>4, <1>5, <1>6, <1>7 DEF SenderInv, S, data
<1>11. StartedInv'
  BY <1>1, <1>3, <1>5, <1>6 DEF IInv, StartedInv, n, S
<1>12. FlowInv'
  <2>1. \A i \in 1 .. Len(toTx) :
          toTx[i].type = "FC" /\ toTx[i].fs = "CTS" => toTx[i].msg # S
    BY <1>1 DEF IInv, SenderInv, FlowInv, S
  <2> QED
    BY <1>3, <1>5, <2>1 DEF IInv, FlowInv, n
<1>13. ReceiverInv'
  BY <1>1, <1>3, <1>5, <1>7 DEF IInv, ReceiverInv, Ahead, n, S
<1>14. GotInv'
  <2>1. \A i \in 1 .. Len(got) : ~ Offending(got[i], stale \cap lost) =>
          MsgOf(got[i]) < S
    BY <1>1 DEF IInv, GotInv, S
  <2>2. UNCHANGED <<got, sent, stale, lost, failed, rx>> /\ tx'.pc # "idle"
    BY <1>6
  <2>3. ASSUME NEW i \in 1 .. Len(got), ~ Offending(got[i], stale \cap lost),
               NEW p \in 1 .. n + 1
        PROVE  Msg(toRx'[p]) > MsgOf(got[i])
    <3>1. CASE p \in 1 .. n
      BY <1>5, <2>3, <3>1 DEF IInv, GotInv, n
    <3>2. CASE p = n + 1
      <4>1. Msg(toRx'[p]) = S
        BY <1>3, <1>5, <3>2
      <4>2. MsgOf(got[i]) < S
        BY <2>1, <2>3
      <4> QED
        BY <4>1, <4>2
    <3> QED
      BY <1>5, <3>1, <3>2
  <2> QED
    BY <1>5, <2>1, <2>2, <2>3 DEF IInv, GotInv, S
<1> QED
  BY <1>8, <1>9, <1>10, <1>11, <1>12, <1>13, <1>14 DEF IInv

\* Offending calls stay so.
LEMMA OffendingStays ==
  ASSUME NEW pdu, NEW A, NEW B, A \subseteq B, Offending(pdu, A)
  PROVE  Offending(pdu, B)
BY DEF Offending

\* Flow control arrives and a block starts: on flow control for an earlier PDU
\* the call is on record as stale.
LEMMA BlockStarted ==
  ASSUME IInv, tx.pc = "fc", toTx # <<>>, toTx' = Tail(toTx),
         Head(toTx).type = "FC", Head(toTx).fs = "CTS", StartBlock(Head(toTx)),
         UNCHANGED <<rxSide, toRx, faults, medium>>
  PROVE  IInv'
<1> USE DEF medium, rxSide
<1> DEFINE S == Len(sent)
           fc == toTx[1]
<1>1. /\ S \in Nat \ {0} /\ S \in 1 .. S /\ S \notin failed
      /\ tx \in TxLocals
  BY Sending
<1>2. Head(toTx) = fc /\ fc \in FlowFrames /\ 1 \in 1 .. Len(toTx)
  BY TailFacts DEF IInv, TypeInv
<1>3. NoNewFlow /\ toTx' \in Seq(FlowFrames)
  BY FlowTaken DEF IInv
<1>4. fc.bs \in Nat
  <2>1. uds_tp_encode_sf(Pdu(0, 1)).type = "SF"
    BY DEF uds_tp_encode_sf
  <2>2. fc.type = "FC"
    BY <1>2
  <2> QED
    BY <1>2, <2>1, <2>2 DEF FlowFrames
<1>5. /\ tx' = [tx EXCEPT !.pc = "cf", !.waits = 0, !.bs = fc.bs, !.bs_sent = 0]
      /\ stale' = IF fc.msg = S THEN stale ELSE stale \cup {S}
      /\ UNCHANGED <<sent, failed>>
  BY <1>2 DEF StartBlock
<1>6. tx' \in TxLocals /\ tx'.pc = "cf" /\ tx'.offset = tx.offset
  <2>1. 0 \in 0 .. MaxWait
    BY TransportAssumption
  <2> QED
    BY <1>1, <1>4, <1>5, <2>1 DEF TxLocals
<1>7. stale \subseteq stale' /\ stale' \subseteq 1 .. S
  BY <1>1, <1>5 DEF IInv, TypeInv
<1>8. fc.msg = S => /\ S \notin lost
                    /\ \A q \in 1 .. Len(toRx) : toRx[q].type = "FF" => Msg(toRx[q]) # S
  BY <1>2 DEF IInv, FlowInv
<1>9. fc.msg # S => S \in stale'
  BY <1>5
<1> HIDE DEF S, fc
<1>10. TypeInv'
  BY <1>3, <1>5, <1>6, <1>7 DEF IInv, TypeInv, S
<1>11. SentInv' /\ QueueInv'
  BY <1>5 DEF IInv, SentInv, QueueInv
<1>12. SenderInv'
  BY <1>1, <1>5, <1>6 DEF IInv, SenderInv, data, S
<1>13. StartedInv'
  BY <1>5, <1>6, <1>7, <1>8, <1>9 DEF IInv, StartedInv, S
<1>14. FlowInv'
  BY <1>3, <1>5 DEF IInv, FlowInv, NoNewFlow
<1>15. ReceiverInv'
  <2>1. stale \cap lost \subseteq stale' \cap lost'
    BY <1>7
  <2>2. Offending(rx.buf, stale \cap lost) => Offending(rx.buf, stale' \cap lost')
    BY <2>1, OffendingStays
  <2> QED
    BY <1>5, <1>6, <2>2 DEF IInv, ReceiverInv, Ahead
<1>16. GotInv'
  <2>1. stale \cap lost \subseteq stale' \cap lost'
    BY <1>7
  <2>2. \A i \in 1 .. Len(got) :
          Offending(got[i], stale \cap lost) => Offending(got[i], stale' \cap lost')
    BY <2>1, OffendingStays
  <2>3. \A i \in 1 .. Len(got) :
          ~ Offending(got[i], stale \cap lost) => MsgOf(got[i]) # S
    BY DEF IInv, GotInv, S
  <2> QED
    BY <1>5, <2>2, <2>3 DEF IInv, GotInv, S
<1> QED
  BY <1>10, <1>11, <1>12, <1>13, <1>14, <1>15, <1>16 DEF IInv

\* A consecutive frame goes out.
LEMMA ConsecutiveSent ==
  ASSUME IInv, SendCF
  PROVE  IInv'
<1> USE DEF medium, rxSide
<1> DEFINE S == Len(sent)
           n == Len(toRx)
           c == CFSize(fd)
           f == ConsecutiveFrame(fd, data, tx.offset, tx.sn)
           off == tx.offset + Smaller(Len(data) - tx.offset, c)
<1>1. /\ fd \in BOOLEAN /\ S \in Nat \ {0} /\ S \in 1 .. S /\ IsPdu(S, data) /\ S \notin failed
      /\ tx \in TxLocals /\ tx.pc = "cf"
      /\ data = sent[S] /\ Len(data) \in Nat \ {0}
  BY Sending DEF SendCF, data
<1>2. /\ Segmented(fd, Len(data)) /\ OnGrid(fd, Len(data), tx.offset)
      /\ tx.offset < Len(data) /\ tx.offset \in Nat /\ tx.sn \in 0 .. SNMod - 1
      /\ \A p \in 1 .. n : Msg(toRx[p]) = S =>
            /\ toRx[p].type # "SF"
            /\ toRx[p].type = "CF" => Start(toRx[p]) < tx.offset
  BY <1>1 DEF IInv, SenderInv, TxLocals
<1>3. c \in Nat \ {0}
  BY <1>1, Sizes
<1>4. /\ f \in DataFrames /\ f.type = "CF" /\ Msg(f) = S /\ Start(f) = tx.offset
      /\ FrameOk(fd, sent, f)
  BY <1>1, <1>2, ConsecutiveFrameFacts
<1>5. CFLimit = c
  BY DEF CFLimit, CFSize
<1>6. toRx' = Append(toRx, f)
  BY <1>5 DEF SendCF, EncodeCF, ConsecutiveFrame, Piece
<1>7. \/ /\ tx' = IdleTx /\ UNCHANGED <<sent, failed, stale>>
      \/ /\ off < Len(data)
         /\ \E pc \in {"fc", "cf"} :
              tx' = [tx EXCEPT !.pc = pc, !.offset = off, !.sn = (@ + 1) % SNMod,
                               !.bs_sent = tx.bs_sent + 1]
         /\ UNCHANGED <<sent, failed, stale>>
  <2>1. off \in Nat
    BY <1>1, <1>2, <1>3 DEF Smaller
  <2>2. AfterCF(off, tx.bs_sent + 1) = "idle" \/ off < Len(data)
    BY <1>1, <2>1 DEF AfterCF
  <2>3. AfterCF(off, tx.bs_sent + 1) \in {"idle", "fc", "cf"}
    BY DEF AfterCF
  <2>4. \/ AfterCF(off, tx.bs_sent + 1) = "idle" /\ SendReturnsOk
        \/ /\ AfterCF(off, tx.bs_sent + 1) # "idle"
           /\ tx' = [tx EXCEPT !.pc = AfterCF(off, tx.bs_sent + 1), !.offset = off,
                               !.sn = (@ + 1) % SNMod, !.bs_sent = tx.bs_sent + 1]
           /\ UNCHANGED <<sent, failed, stale>>
    BY <1>5 DEF SendCF
  <2> HIDE DEF off
  <2> QED
    BY <2>2, <2>3, <2>4 DEF SendReturnsOk
<1>8. UNCHANGED <<rx, got, toTx, faults, lost, bus, fd, sent, failed, stale>>
  BY <1>7 DEF SendCF
<1>9. off < Len(data) => off = tx.offset + c
  BY <1>1, <1>2, <1>3 DEF Smaller
<1> HIDE DEF f, c, off
<1>10. /\ toRx' \in Seq(DataFrames) /\ n \in Nat /\ Len(toRx') = n + 1 /\ toRx'[n + 1] = f
       /\ \A p \in 1 .. n : toRx'[p] = toRx[p]
       /\ \A p \in 1 .. n + 1 : p \in 1 .. n \/ p = n + 1
  <2>1. toRx \in Seq(DataFrames)
    BY DEF IInv, TypeInv
  <2>2. f \in DataFrames
    BY <1>4
  <2> QED
    BY <1>6, <2>1, <2>2, AppendFacts
<1>11. /\ tx' \in TxLocals
       /\ tx'.pc # "idle" => /\ tx'.pc \in {"fc", "cf"}
                             /\ tx'.offset = tx.offset + c
                             /\ tx'.offset < Len(data)
  <2>1. CASE tx' = IdleTx
    BY <2>1, IdleTypes
  <2>2. CASE /\ off < Len(data)
             /\ \E pc \in {"fc", "cf"} :
                  tx' = [tx EXCEPT !.pc = pc, !.offset = off, !.sn = (@ + 1) % SNMod,
                                   !.bs_sent = tx.bs_sent + 1]
    <3>1. (tx.sn + 1) % SNMod \in 0 .. SNMod - 1
      BY <1>2, TransportAssumption
    <3>2. off \in Nat /\ tx.bs_sent + 1 \in Nat
      BY <1>1, <1>2, <1>3, <1>9, <2>2 DEF TxLocals
    <3>3. off = tx.offset + c
      BY <1>9, <2>2
    <3> QED
      BY <1>1, <2>2, <3>1, <3>2, <3>3 DEF TxLocals
  <2> QED
    BY <1>7, <2>1, <2>2
<1>12. \A p \in 1 .. n : Msg(toRx[p]) \in 1 .. S /\ toRx[p].type \in {"SF", "FF", "CF"}
  BY DEF IInv, QueueInv, FrameOk
<1> HIDE DEF S, n
<1>13. TypeInv' /\ SentInv'
  BY <1>8, <1>10, <1>11 DEF IInv, TypeInv, SentInv
<1>14. QueueInv'
  <2>1. \A p \in 1 .. n : Before(toRx[p], f)
    BY <1>1, <1>2, <1>4, <1>12 DEF Before
  <2>2. ASSUME NEW p \in 1 .. n + 1, NEW q \in 1 .. n + 1, p < q
        PROVE  Before(toRx'[p], toRx'[q])
    <3>1. p \in 1 .. n
      BY <1>10, <2>2
    <3> QED
      BY <1>10, <2>1, <2>2, <3>1 DEF IInv, QueueInv, n
  <2> QED
    BY <1>1, <1>4, <1>8, <1>10, <2>2 DEF IInv, QueueInv, n
<1>15. SenderInv'
  <2>1. CASE tx'.pc = "idle"
    BY <2>1 DEF SenderInv
  <2>2. CASE tx'.pc # "idle"
    <3>1. OnGrid(fd, Len(data), tx.offset + c)
      BY <1>1, <1>2, GridStep DEF c
    <3>2. ASSUME NEW p \in 1 .. Len(toRx'), Msg(toRx'[p]) = S
          PROVE  /\ toRx'[p].type # "SF"
                 /\ toRx'[p].type = "CF" => Start(toRx'[p]) < tx.offset + c
      <4>1. CASE p = n + 1
        BY <1>2, <1>3, <1>4, <1>10, <4>1
      <4>2. CASE p \in 1 .. n
        <5>1. toRx[p].type = "CF" => Start(toRx[p]) \in Nat
          BY <4>2 DEF IInv, QueueInv, FrameOk, n
        <5> QED
          BY <1>2, <1>3, <1>10, <3>2, <4>2, <5>1
      <4> QED
        BY <1>10, <3>2, <4>1, <4>2
    <3> QED
      BY <1>1, <1>2, <1>8, <1>11, <2>2, <3>1, <3>2 DEF SenderInv, data, S
  <2> QED
    BY <2>1, <2>2
<1>16. StartedInv'
  <2>1. \/ S \in lost \cap stale
        \/ /\ S \in stale
           /\ \E q \in 1 .. n : toRx[q].type = "FF" /\ Msg(toRx[q]) = S
        \/ /\ \A q \in 1 .. n : toRx[q].type = "CF" /\ Msg(toRx[q]) = S
           /\ rx.pc = "cf" => MsgOf(rx.buf) = S
           /\ S \notin lost
    BY <1>1 DEF IInv, StartedInv, S, n
  <2>2. ASSUME NEW p \in 1 .. n + 1, toRx'[p].type = "CF"
        PROVE  LET m == Msg(toRx'[p]) IN
               \/ m \in stale \cap lost
               \/ /\ m \in stale
                  /\ \E q \in 1 .. p - 1 : toRx'[q].type = "FF" /\ Msg(toRx'[q]) = m
               \/ /\ \A q \in 1 .. p - 1 : toRx'[q].type = "CF" /\ Msg(toRx'[q]) = m
                  /\ rx.pc = "cf" => MsgOf(rx.buf) = m
    <3>1. CASE p = n + 1
      BY <1>4, <1>10, <2>1, <3>1
    <3>2. CASE p \in 1 .. n
      <4>1. \A q \in 1 .. p - 1 : toRx'[q] = toRx[q]
        BY <1>10, <3>2
      <4> QED
        BY <1>10, <2>2, <3>2, <4>1 DEF IInv, StartedInv, n
    <3> QED
      BY <1>10, <3>1, <3>2
  <2>3. \/ S \in lost \cap stale
        \/ /\ S \in stale
           /\ \E q \in 1 .. n + 1 : toRx'[q].type = "FF" /\ Msg(toRx'[q]) = S
        \/ /\ \A q \in 1 .. n + 1 : toRx'[q].type = "CF" /\ Msg(toRx'[q]) = S
           /\ rx.pc = "cf" => MsgOf(rx.buf) = S
           /\ S \notin lost
    BY <1>4, <1>10, <2>1
  <2> QED
    BY <1>8, <1>10, <2>2, <2>3 DEF StartedInv, S
<1>17. FlowInv'
  BY <1>4, <1>8, <1>10 DEF IInv, FlowInv, n
<1>18. ReceiverInv'
  <2>1. ASSUME rx.pc = "cf", NEW k \in Nat, Ahead(k)
        PROVE  Ahead(k)'
    BY <1>1, <1>2, <1>3, <1>4, <1>8, <1>10, <1>11, <2>1 DEF Ahead, S, n
  <2>2. rx.pc = "cf" => Len(rx.buf) \in Nat /\ Len(rx.buf) + c \in Nat
    BY <1>3 DEF IInv, TypeInv, RxLocals
  <2>3. ASSUME rx.pc = "cf", NEW p \in 1 .. n + 1
        PROVE  /\ Msg(toRx'[p]) >= MsgOf(rx.buf)
               /\ Msg(toRx'[p]) = MsgOf(rx.buf) => toRx'[p].type = "CF"
    BY <1>1, <1>4, <1>10, <2>3 DEF IInv, ReceiverInv, S, n
  <2>4. rx.pc = "cf" =>
          \/ Offending(rx.buf, stale \cap lost)
          \/ rx.buf = SubSeq(sent[MsgOf(rx.buf)], 1, Len(rx.buf)) /\ Ahead(Len(rx.buf))'
          \/ Ahead(Len(rx.buf) + CFSize(fd))'
    BY <1>8, <2>1, <2>2 DEF IInv, ReceiverInv, c
  <2> QED
    BY <1>8, <1>10, <2>3, <2>4 DEF IInv, ReceiverInv
<1>19. GotInv'
  <2>1. \A i \in 1 .. Len(got) : ~ Offending(got[i], stale \cap lost) =>
          MsgOf(got[i]) < S
    BY <1>1 DEF IInv, GotInv, S
  <2> QED
    BY <1>1, <1>4, <1>8, <1>10, <2>1 DEF IInv, GotInv, n, S
<1> QED
  BY <1>13, <1>14, <1>15, <1>16, <1>17, <1>18, <1>19 DEF IInv
----------------------------------------------------------------------------
(* Steps of the receiver *)

\* What the frame at the head of the receiver's queue says about the rest.
LEMMA HeadFacts ==
  ASSUME IInv, toRx # <<>>, toRx' = Tail(toRx)
  PROVE  LET h == toRx[1]
             n == Len(toRx)
         IN
         /\ n \in Nat \ {0} /\ 1 \in 1 .. n /\ h = Head(toRx)
         /\ toRx' \in Seq(DataFrames) /\ Len(toRx') = n - 1
         /\ \A p \in 1 .. n - 1 : toRx'[p] = toRx[p + 1] /\ p + 1 \in 1 .. n
         /\ \A q \in 2 .. n : toRx[q] = toRx'[q - 1] /\ q - 1 \in 1 .. n - 1
         /\ FrameOk(fd, sent, h)
         /\ Msg(h) \in 1 .. Len(sent) /\ h.type \in {"SF", "FF", "CF"}
         /\ \A q \in 2 .. n : /\ Before(h, toRx[q])
                              /\ Msg(toRx[q]) \in 1 .. Len(sent)
                              /\ Msg(toRx[q]) >= Msg(h)
<1> DEFINE n == Len(toRx)
           h == toRx[1]
<1>1. /\ n \in Nat \ {0} /\ 1 \in 1 .. n /\ h = Head(toRx)
      /\ toRx' \in Seq(DataFrames) /\ Len(toRx') = n - 1
      /\ \A p \in 1 .. n - 1 : toRx'[p] = toRx[p + 1] /\ p + 1 \in 1 .. n
  BY TailFacts DEF IInv, TypeInv
<1>2. \A q \in 2 .. n : toRx[q] = toRx'[q - 1] /\ q - 1 \in 1 .. n - 1
  BY <1>1
<1>3. /\ FrameOk(fd, sent, h)
      /\ Msg(h) \in 1 .. Len(sent) /\ h.type \in {"SF", "FF", "CF"}
  BY <1>1 DEF IInv, QueueInv, FrameOk
<1>4. ASSUME NEW q \in 2 .. n
      PROVE  /\ Before(h, toRx[q])
             /\ Msg(toRx[q]) \in 1 .. Len(sent)
             /\ Msg(toRx[q]) >= Msg(h)
  <2>1. q \in 1 .. n /\ 1 < q
    BY <1>1
  <2>2. Before(h, toRx[q]) /\ FrameOk(fd, sent, toRx[q])
    BY <1>1, <2>1 DEF IInv, QueueInv
  <2> QED
    BY <1>3, <2>2 DEF FrameOk, Before
<1> QED
  BY <1>1, <1>2, <1>3, <1>4

\* The rest of the queue is still in order, and about the same PDUs.
LEMMA QueueTail ==
  ASSUME IInv, toRx # <<>>, toRx' = Tail(toRx),
         UNCHANGED <<sent, failed, fd>>, lost' = lost
  PROVE  QueueInv'
<1> DEFINE n == Len(toRx)
<1>1. /\ n \in Nat \ {0} /\ Len(toRx') = n - 1
      /\ \A p \in 1 .. n - 1 : toRx'[p] = toRx[p + 1] /\ p + 1 \in 1 .. n
  BY HeadFacts
<1> HIDE DEF n
<1>2. \A p, q \in 1 .. n - 1 : p < q => Before(toRx'[p], toRx'[q])
  BY <1>1 DEF IInv, QueueInv, n
<1> QED
  BY <1>1, <1>2 DEF IInv, QueueInv, n

\* The frame at the head is consumed and no reception is going on after it:
\* the frames behind a first frame are then its own consecutive frames.
LEMMA HeadConsumed ==
  ASSUME IInv, toRx # <<>>, toRx' = Tail(toRx), rx' = IdleRx,
         got' \in Seq(Seq(Octet)),
         UNCHANGED <<txSide, toTx, medium>>, faults' \in 0 .. MaxFaults
  PROVE  /\ TypeInv' /\ SentInv' /\ QueueInv' /\ SenderInv' /\ StartedInv'
         /\ FlowInv' /\ ReceiverInv'
<1> USE DEF medium, txSide
<1> DEFINE n == Len(toRx)
           h == toRx[1]
           S == Len(sent)
<1>1. /\ n \in Nat \ {0} /\ 1 \in 1 .. n
      /\ toRx' \in Seq(DataFrames) /\ Len(toRx') = n - 1
      /\ \A p \in 1 .. n - 1 : toRx'[p] = toRx[p + 1] /\ p + 1 \in 1 .. n
      /\ \A q \in 2 .. n : toRx[q] = toRx'[q - 1] /\ q - 1 \in 1 .. n - 1
      /\ Msg(h) \in 1 .. S
      /\ \A q \in 2 .. n : Before(h, toRx[q]) /\ Msg(toRx[q]) \in 1 .. S
  BY HeadFacts
<1>2. rx'.pc = "first"
  BY IdleTypes
<1> HIDE DEF n, h, S
<1>3. TypeInv' /\ SentInv'
  BY <1>1, IdleTypes DEF IInv, TypeInv, SentInv
<1>4. QueueInv'
  BY QueueTail
<1>5. SenderInv'
  BY <1>1, <1>2 DEF IInv, SenderInv, data, n
<1>6. StartedInv'
  <2>1. ASSUME NEW p \in 1 .. n - 1, toRx'[p].type = "CF"
        PROVE  LET m == Msg(toRx'[p]) IN
               \/ m \in stale \cap lost
               \/ /\ m \in stale
                  /\ \E q \in 1 .. p - 1 : toRx'[q].type = "FF" /\ Msg(toRx'[q]) = m
               \/ \A q \in 1 .. p - 1 : toRx'[q].type = "CF" /\ Msg(toRx'[q]) = m
    <3> DEFINE m == Msg(toRx[p + 1])
    <3>1. toRx'[p] = toRx[p + 1] /\ p + 1 \in 1 .. n /\ toRx[p + 1].type = "CF"
      BY <1>1, <2>1
    <3>2. \A q \in 1 .. p - 1 : toRx'[q] = toRx[q + 1] /\ q + 1 \in 1 .. p /\ q + 1 \in 2 .. n
      BY <1>1, <2>1
    <3>3. CASE m \in stale \cap lost
      BY <3>1, <3>3
    <3>4. CASE m \in stale /\ \E q \in 1 .. p : toRx[q].type = "FF" /\ Msg(toRx[q]) = m
      <4>1. PICK q \in 1 .. p : toRx[q].type = "FF" /\ Msg(toRx[q]) = m
        BY <3>4
      <4>2. CASE q # 1
        <5>1. q - 1 \in 1 .. p - 1 /\ toRx'[q - 1] = toRx[q]
          BY <1>1, <2>1, <4>2
        <5> QED
          BY <3>1, <3>4, <4>1, <5>1
      <4>3. CASE q = 1
        <5>1. ASSUME NEW k \in 1 .. p - 1
              PROVE  toRx'[k].type = "CF" /\ Msg(toRx'[k]) = m
          <6>1. /\ Before(h, toRx[k + 1]) /\ Msg(toRx[k + 1]) \in 1 .. S
                /\ Before(toRx[k + 1], toRx[p + 1]) /\ Msg(h) = m /\ m \in 1 .. S
                /\ h.type = "FF"
            BY <1>1, <2>1, <3>1, <3>2, <4>1, <4>3 DEF IInv, QueueInv, n, h
          <6>2. S \in Nat
            BY DEF IInv, TypeInv, S
          <6>3. Msg(toRx[k + 1]) = m /\ toRx[k + 1].type = "CF"
            BY <6>1, <6>2, <3>1 DEF Before
          <6> QED
            BY <3>2, <6>3
        <5> QED
          BY <3>1, <5>1
      <4> QED
        BY <4>2, <4>3
    <3>5. CASE \A q \in 1 .. p : toRx[q].type = "CF" /\ Msg(toRx[q]) = m
      BY <3>1, <3>2, <3>5
    <3>6. (p + 1) - 1 = p
      BY <2>1
    <3> QED
      BY <3>1, <3>3, <3>4, <3>5, <3>6 DEF IInv, StartedInv, n
  <2>2. ASSUME tx.pc \in {"fc", "cf"}
        PROVE  \/ /\ S \in lost
                  /\ tx.pc = "cf" => S \in stale
               \/ /\ \E q \in 1 .. n - 1 : toRx'[q].type = "FF" /\ Msg(toRx'[q]) = S
                  /\ tx.pc = "cf" => S \in stale
               \/ /\ \A q \in 1 .. n - 1 : toRx'[q].type = "CF" /\ Msg(toRx'[q]) = S
                  /\ S \notin lost
    <3>1. CASE S \in lost /\ (tx.pc = "cf" => S \in stale)
      BY <3>1
    <3>2. CASE /\ \E q \in 1 .. n : toRx[q].type = "FF" /\ Msg(toRx[q]) = S
               /\ tx.pc = "cf" => S \in stale
      <4>1. PICK q \in 1 .. n : toRx[q].type = "FF" /\ Msg(toRx[q]) = S
        BY <3>2
      <4>2. CASE q # 1
        <5>1. q - 1 \in 1 .. n - 1 /\ toRx'[q - 1] = toRx[q]
          BY <1>1, <4>2
        <5> QED
          BY <3>2, <4>1, <5>1
      <4>3. CASE q = 1
        <5>1. S \notin lost
          BY <1>1, <4>1, <4>3 DEF IInv, QueueInv, n
        <5>2. ASSUME NEW k \in 1 .. n - 1
              PROVE  toRx'[k].type = "CF" /\ Msg(toRx'[k]) = S
          <6>1. /\ toRx'[k] = toRx[k + 1] /\ Before(h, toRx[k + 1])
                /\ Msg(toRx[k + 1]) \in 1 .. S /\ Msg(h) = S /\ h.type = "FF"
            BY <1>1, <4>1, <4>3 DEF h
          <6>2. S \in Nat
            BY DEF IInv, TypeInv, S
          <6>3. Msg(toRx[k + 1]) = S /\ toRx[k + 1].type = "CF"
            BY <6>1, <6>2 DEF Before
          <6> QED
            BY <6>1, <6>3
        <5> QED
          BY <5>1, <5>2
      <4> QED
        BY <4>2, <4>3
    <3>3. CASE /\ \A q \in 1 .. n : toRx[q].type = "CF" /\ Msg(toRx[q]) = S
               /\ S \notin lost
      BY <1>1, <3>3
    <3> QED
      BY <2>2, <3>1, <3>2, <3>3 DEF IInv, StartedInv, n, S
  <2> QED
    BY <1>1, <1>2, <2>1, <2>2 DEF StartedInv, S
<1>7. FlowInv'
  BY <1>1 DEF IInv, FlowInv, n
<1>8. ReceiverInv'
  BY <1>2 DEF ReceiverInv
<1> QED
  BY <1>3, <1>4, <1>5, <1>6, <1>7, <1>8

\* Nothing is received from the frame at the head.
LEMMA HeadDropped ==
  ASSUME IInv, toRx # <<>>, toRx' = Tail(toRx), rx' = IdleRx, got' = got,
         UNCHANGED <<txSide, toTx, medium>>, faults' \in 0 .. MaxFaults
  PROVE  IInv'
<1>1. got' \in Seq(Seq(Octet))
  BY DEF IInv, TypeInv
<1>2. /\ TypeInv' /\ SentInv' /\ QueueInv' /\ SenderInv' /\ StartedInv'
      /\ FlowInv' /\ ReceiverInv'
  BY <1>1, HeadConsumed
<1>3. \A p \in 1 .. Len(toRx') : toRx'[p] = toRx[p + 1] /\ p + 1 \in 1 .. Len(toRx)
  BY HeadFacts
<1>4. GotInv'
  BY <1>3, IdleTypes DEF IInv, GotInv, txSide, medium
<1> QED
  BY <1>2, <1>4 DEF IInv

\* A PDU is complete: what was received before it is older, and nothing of it
\* is under way any more.
LEMMA Received ==
  ASSUME IInv, toRx # <<>>, toRx' = Tail(toRx), rx' = IdleRx,
         NEW pdu \in Seq(Octet), got' = Append(got, pdu),
         ~ Offending(pdu, stale \cap lost) =>
           LET m == MsgOf(pdu) IN
           /\ m \in 1 .. Len(sent) /\ pdu = sent[m] /\ m \notin failed \cup lost
           /\ m = Len(sent) => tx.pc = "idle"
           /\ \A q \in 2 .. Len(toRx) : Msg(toRx[q]) > m
           /\ \A i \in 1 .. Len(got) : ~ Offending(got[i], stale \cap lost) => MsgOf(got[i]) < m,
         UNCHANGED <<txSide, toTx, medium, faults>>
  PROVE  IInv'
<1>1. /\ got' \in Seq(Seq(Octet)) /\ Len(got) \in Nat /\ Len(got') = Len(got) + 1
      /\ got'[Len(got) + 1] = pdu
      /\ \A i \in 1 .. Len(got) : got'[i] = got[i]
      /\ \A i \in 1 .. Len(got) + 1 : i \in 1 .. Len(got) \/ i = Len(got) + 1
  BY AppendFacts DEF IInv, TypeInv
<1>2. faults' \in 0 .. MaxFaults
  BY DEF IInv, TypeInv
<1>3. /\ TypeInv' /\ SentInv' /\ QueueInv' /\ SenderInv' /\ StartedInv'
      /\ FlowInv' /\ ReceiverInv'
  BY <1>1, <1>2, HeadConsumed
<1>4. /\ \A p \in 1 .. Len(toRx') : /\ toRx'[p] = toRx[p + 1] /\ p + 1 \in 1 .. Len(toRx)
                                     /\ p + 1 \in 2 .. Len(toRx)
  BY HeadFacts
<1>5. rx'.pc = "first"
  BY IdleTypes
<1> USE DEF txSide, medium
<1>6. ASSUME NEW i \in 1 .. Len(got'), ~ Offending(got'[i], stale \cap lost)
      PROVE  LET m == MsgOf(got'[i]) IN
             /\ m \in 1 .. Len(sent) /\ got'[i] = sent[m] /\ m \notin failed \cup lost
             /\ m = Len(sent) => tx.pc = "idle"
             /\ \A p \in 1 .. Len(toRx') : Msg(toRx'[p]) > m
  <2>1. CASE i = Len(got) + 1
    BY <1>1, <1>4, <1>6, <2>1
  <2>2. CASE i \in 1 .. Len(got)
    <3>1. ~ Offending(got[i], stale \cap lost) /\ got'[i] = got[i]
      BY <1>1, <1>6, <2>2
    <3> QED
      BY <1>4, <2>2, <3>1 DEF IInv, GotInv
  <2> QED
    BY <1>1, <1>6, <2>1, <2>2
<1>7. ASSUME NEW i \in 1 .. Len(got'), NEW j \in 1 .. Len(got'), i < j,
             ~ Offending(got'[i], stale \cap lost), ~ Offending(got'[j], stale \cap lost)
      PROVE  MsgOf(got'[i]) < MsgOf(got'[j])
  <2>1. i \in 1 .. Len(got) /\ got'[i] = got[i]
    BY <1>1, <1>7
  <2>2. CASE j = Len(got) + 1
    BY <1>1, <1>7, <2>1, <2>2
  <2>3. CASE j \in 1 .. Len(got)
    BY <1>1, <1>7, <2>1, <2>3 DEF IInv, GotInv
  <2> QED
    BY <1>1, <1>7, <2>2, <2>3
<1>8. GotInv'
  BY <1>5, <1>6, <1>7 DEF GotInv
<1> QED
  BY <1>3, <1>8 DEF IInv

\* uds_tp_recv gives a reception up.
LEMMA ReceiverGivesUp ==
  ASSUME IInv, rx' = IdleRx, got' = got,
         UNCHANGED <<txSide, toRx, toTx, medium>>, faults' \in 0 .. MaxFaults
  PROVE  IInv'
<1> USE DEF txSide, medium
<1>1. rx'.pc = "first"
  BY IdleTypes
<1>2. TypeInv' /\ SentInv' /\ QueueInv'
  BY IdleTypes DEF IInv, TypeInv, SentInv, QueueInv
<1>3. SenderInv' /\ FlowInv' /\ ReceiverInv'
  BY <1>1 DEF IInv, SenderInv, FlowInv, ReceiverInv, data
<1>4. StartedInv'
  BY <1>1 DEF IInv, StartedInv
<1>5. GotInv'
  BY <1>1 DEF IInv, GotInv
<1> QED
  BY <1>2, <1>3, <1>4, <1>5 DEF IInv

\* A frame is lost.  When it is a first frame, what follows of its PDU is
\* nobody's, unless a stale flow control set it off.
LEMMA FrameLost ==
  ASSUME IInv, LoseData
  PROVE  IInv'
<1> USE DEF txSide, rxSide
<1> DEFINE n == Len(toRx)
           h == toRx[1]
           S == Len(sent)
           m == Msg(h)
<1>1. /\ toRx # <<>> /\ toRx' = Tail(toRx)
      /\ lost' = IF h.type = "FF" THEN lost \cup {m} ELSE lost
      /\ UNCHANGED <<tx, sent, failed, stale, rx, got, toTx, bus, fd>>
      /\ faults' \in 0 .. MaxFaults
  <2>1. toRx # <<>> /\ toRx' = Tail(toRx)
    BY DEF LoseData
  <2>2. h = Head(toRx)
    BY <2>1, HeadFacts
  <2>3. faults' \in 0 .. MaxFaults
    BY TransportAssumption DEF LoseData, Fault, IInv, TypeInv
  <2> QED
    BY <2>2, <2>3 DEF LoseData, Fault, Msg
<1>2. /\ n \in Nat \ {0} /\ 1 \in 1 .. n
      /\ toRx' \in Seq(DataFrames) /\ Len(toRx') = n - 1
      /\ \A p \in 1 .. n - 1 : toRx'[p] = toRx[p + 1] /\ p + 1 \in 1 .. n /\ p + 1 \in 2 .. n
      /\ m \in 1 .. S
      /\ \A q \in 2 .. n : /\ Before(h, toRx[q]) /\ Msg(toRx[q]) \in 1 .. S
                           /\ toRx[q] = toRx'[q - 1] /\ q - 1 \in 1 .. n - 1
  BY <1>1, HeadFacts
<1>3. lost \subseteq lost' /\ lost' \subseteq 1 .. S
  BY <1>1, <1>2 DEF IInv, TypeInv
<1>4. \A x : x \in lost' => x \in lost \/ (h.type = "FF" /\ x = m)
  BY <1>1
<1>5. stale \cap lost \subseteq stale' \cap lost'
  BY <1>1, <1>3
<1> HIDE DEF n, h, S, m
<1>6. TypeInv' /\ SentInv'
  BY <1>1, <1>2, <1>3 DEF IInv, TypeInv, SentInv, S
<1>7. QueueInv'
  <2>1. ASSUME NEW p \in 1 .. n - 1, toRx'[p].type # "CF"
        PROVE  Msg(toRx'[p]) \notin lost'
    <3>1. Msg(toRx[p + 1]) \notin lost /\ toRx'[p] = toRx[p + 1]
      BY <1>2, <2>1 DEF IInv, QueueInv, n
    <3>2. Before(h, toRx[p + 1]) /\ Msg(toRx[p + 1]) \in 1 .. S /\ toRx[p + 1].type # "CF"
      BY <1>2, <2>1
    <3>3. Msg(toRx[p + 1]) # m
      BY <1>2, <3>2 DEF Before, m
    <3> QED
      BY <1>4, <3>1, <3>3
  <2>2. ASSUME NEW p \in 1 .. n - 1, NEW q \in 1 .. n - 1, p < q
        PROVE  Before(toRx'[p], toRx'[q])
    <3>1. p + 1 \in 1 .. n /\ q + 1 \in 1 .. n /\ p + 1 < q + 1
      BY <1>2, <2>2
    <3> QED
      BY <1>2, <3>1 DEF IInv, QueueInv, n
  <2>3. \A p \in 1 .. n - 1 : /\ FrameOk(fd, sent, toRx'[p])
                              /\ IsLast(fd, sent, toRx'[p]) => Msg(toRx'[p]) \notin failed
    BY <1>2 DEF IInv, QueueInv, n
  <2> QED
    BY <1>1, <1>2, <2>1, <2>2, <2>3 DEF QueueInv
<1>8. SenderInv'
  <2>1. tx.pc = "first" => S \notin lost'
    <3>1. tx.pc = "first" => m < S /\ S \notin lost
      BY <1>2 DEF IInv, SenderInv, n, S, m, h
    <3> QED
      BY <1>2, <1>4, <3>1
  <2> QED
    BY <1>1, <1>2, <2>1 DEF IInv, SenderInv, data, n, S
<1>9. StartedInv'
  <2>1. ASSUME NEW p \in 1 .. n - 1, toRx'[p].type = "CF"
        PROVE  LET x == Msg(toRx'[p]) IN
               \/ x \in stale \cap lost'
               \/ /\ x \in stale
                  /\ \E q \in 1 .. p - 1 : toRx'[q].type = "FF" /\ Msg(toRx'[q]) = x
               \/ /\ \A q \in 1 .. p - 1 : toRx'[q].type = "CF" /\ Msg(toRx'[q]) = x
                  /\ rx.pc = "cf" => MsgOf(rx.buf) = x
    <3> DEFINE x == Msg(toRx[p + 1])
    <3>1. toRx'[p] = toRx[p + 1] /\ p + 1 \in 1 .. n /\ toRx[p + 1].type = "CF"
      BY <1>2, <2>1
    <3>2. \A q \in 1 .. p - 1 : toRx'[q] = toRx[q + 1] /\ q + 1 \in 1 .. p
      BY <1>2, <2>1
    <3>3. CASE x \in stale \cap lost
      BY <1>3, <3>1, <3>3
    <3>4. CASE x \in stale /\ \E q \in 1 .. p : toRx[q].type = "FF" /\ Msg(toRx[q]) = x
      <4>1. PICK q \in 1 .. p : toRx[q].type = "FF" /\ Msg(toRx[q]) = x
        BY <3>4
      <4>2. CASE q # 1
        <5>1. q - 1 \in 1 .. p - 1 /\ toRx'[q - 1] = toRx[q]
          BY <1>2, <2>1, <4>2
        <5> QED
          BY <3>1, <3>4, <4>1, <5>1
      <4>3. CASE q = 1
        <5>1. x = m /\ h.type = "FF"
          BY <4>1, <4>3 DEF m, h
        <5>2. x \in lost'
          BY <1>1, <5>1 DEF m, h
        <5> QED
          BY <3>1, <3>4, <5>2
      <4> QED
        BY <4>2, <4>3
    <3>5. CASE /\ \A q \in 1 .. p : toRx[q].type = "CF" /\ Msg(toRx[q]) = x
               /\ rx.pc = "cf" => MsgOf(rx.buf) = x
      BY <3>1, <3>2, <3>5
    <3>6. (p + 1) - 1 = p
      BY <2>1
    <3> QED
      BY <3>1, <3>3, <3>4, <3>5, <3>6 DEF IInv, StartedInv, n
  <2>2. ASSUME tx.pc \in {"fc", "cf"}
        PROVE  \/ /\ S \in lost'
                  /\ tx.pc = "cf" => S \in stale
               \/ /\ \E q \in 1 .. n - 1 : toRx'[q].type = "FF" /\ Msg(toRx'[q]) = S
                  /\ tx.pc = "cf" => S \in stale
               \/ /\ \A q \in 1 .. n - 1 : toRx'[q].type = "CF" /\ Msg(toRx'[q]) = S
                  /\ rx.pc = "cf" => MsgOf(rx.buf) = S
                  /\ S \notin lost'
    <3>1. CASE S \in lost /\ (tx.pc = "cf" => S \in stale)
      BY <1>3, <3>1
    <3>2. CASE /\ \E q \in 1 .. n : toRx[q].type = "FF" /\ Msg(toRx[q]) = S
               /\ tx.pc = "cf" => S \in stale
      <4>1. PICK q \in 1 .. n : toRx[q].type = "FF" /\ Msg(toRx[q]) = S
        BY <3>2
      <4>2. CASE q # 1
        <5>1. q - 1 \in 1 .. n - 1 /\ toRx'[q - 1] = toRx[q]
          BY <1>2, <4>2
        <5> QED
          BY <3>2, <4>1, <5>1
      <4>3. CASE q = 1
        <5>1. S \in lost'
          BY <1>1, <4>1, <4>3 DEF m, h
        <5> QED
          BY <3>2, <5>1
      <4> QED
        BY <4>2, <4>3
    <3>3. CASE /\ \A q \in 1 .. n : toRx[q].type = "CF" /\ Msg(toRx[q]) = S
               /\ rx.pc = "cf" => MsgOf(rx.buf) = S
               /\ S \notin lost
      <4>1. h.type = "CF"
        BY <1>2, <3>3 DEF h
      <4> QED
        BY <1>2, <1>4, <3>3, <4>1
    <3> QED
      BY <2>2, <3>1, <3>2, <3>3 DEF IInv, StartedInv, n, S
  <2> QED
    BY <1>1, <1>2, <2>1, <2>2 DEF StartedInv, S
<1>10. FlowInv'
  <2>1. ASSUME NEW i \in 1 .. Len(toTx), toTx[i].type = "FC", toTx[i].fs = "CTS"
        PROVE  toTx[i].msg \notin lost'
    BY <1>2, <1>4, <2>1 DEF IInv, FlowInv, n, m, h
  <2> QED
    BY <1>1, <1>2, <2>1 DEF IInv, FlowInv, n
<1>11. ReceiverInv'
  <2>1. rx.pc = "cf" => MsgOf(rx.buf) \notin lost'
    BY <1>2, <1>4 DEF IInv, ReceiverInv, n, m, h
  <2>2. ASSUME NEW k, Ahead(k)
        PROVE  Ahead(k)'
    BY <1>1, <1>2, <2>2 DEF Ahead, n
  <2>3. Offending(rx.buf, stale \cap lost) => Offending(rx.buf, stale' \cap lost')
    BY <1>5, OffendingStays
  <2>4. rx.pc = "cf" =>
          \/ Offending(rx.buf, stale' \cap lost')
          \/ rx.buf = SubSeq(sent[MsgOf(rx.buf)], 1, Len(rx.buf)) /\ Ahead(Len(rx.buf))'
          \/ Ahead(Len(rx.buf) + CFSize(fd))'
    BY <1>1, <2>2, <2>3 DEF IInv, ReceiverInv
  <2> QED
    BY <1>1, <1>2, <2>1, <2>4 DEF IInv, ReceiverInv, n
<1>12. GotInv'
  <2>1. \A i \in 1 .. Len(got) :
          Offending(got[i], stale \cap lost) => Offending(got[i], stale' \cap lost')
    BY <1>5, OffendingStays
  <2>2. ASSUME NEW i \in 1 .. Len(got), ~ Offending(got[i], stale' \cap lost')
        PROVE  LET x == MsgOf(got[i]) IN
               /\ x \in 1 .. Len(sent) /\ got[i] = sent[x] /\ x \notin failed \cup lost'
               /\ x = Len(sent) => tx.pc = "idle"
               /\ \A p \in 1 .. Len(toRx') : Msg(toRx'[p]) > x
               /\ rx.pc = "cf" => MsgOf(rx.buf) > x
    <3> DEFINE x == MsgOf(got[i])
    <3>1. /\ x \in 1 .. Len(sent) /\ got[i] = sent[x] /\ x \notin failed \cup lost
          /\ x = Len(sent) => tx.pc = "idle"
          /\ \A p \in 1 .. n : Msg(toRx[p]) > x
          /\ rx.pc = "cf" => MsgOf(rx.buf) > x
      BY <2>1, <2>2 DEF IInv, GotInv, n
    <3>2. m > x
      BY <1>2, <3>1 DEF m, h
    <3>3. x \notin lost'
      BY <1>2, <1>4, <3>1, <3>2
    <3> QED
      BY <1>2, <3>1, <3>3
  <2> QED
    BY <1>1, <2>1, <2>2 DEF IInv, GotInv
<1> QED
  BY <1>6, <1>7, <1>8, <1>9, <1>10, <1>11, <1>12 DEF IInv

\* A first frame is read and answered: the receiver holds the first bytes of
\* its PDU, and whatever else is under way of it comes after them.
LEMMA FirstAccepted ==
  ASSUME IInv, toRx # <<>>, toRx' = Tail(toRx),
         Head(toRx).type = "FF", DecodeFF(Head(toRx)) \in 1 .. BufSize[fd],
         rx' = [pc |-> "cf", total_len |-> DecodeFF(Head(toRx)), buf |-> Head(toRx).bytes,
                expected_sn |-> 1, bs_count |-> 0],
         SendFC(Head(toRx).bytes),
         UNCHANGED <<got, txSide, faults, medium>>
  PROVE  IInv'
<1> USE DEF txSide, medium
<1> DEFINE n == Len(toRx)
           h == toRx[1]
           S == Len(sent)
           m == Msg(h)
           pdu == sent[m]
           e == FFSize(fd, Len(pdu))
           fc == uds_tp_encode_fc("CTS", BlockSize, m)
<1>1. /\ n \in Nat \ {0} /\ 1 \in 1 .. n /\ h = Head(toRx)
      /\ toRx' \in Seq(DataFrames) /\ Len(toRx') = n - 1
      /\ \A p \in 1 .. n - 1 : toRx'[p] = toRx[p + 1] /\ p + 1 \in 1 .. n /\ p + 1 \in 2 .. n
      /\ FrameOk(fd, sent, h) /\ m \in 1 .. S /\ S \in Nat
      /\ \A q \in 2 .. n : /\ Before(h, toRx[q]) /\ Msg(toRx[q]) \in 1 .. S
                           /\ toRx[q] = toRx'[q - 1] /\ q - 1 \in 1 .. n - 1
  BY HeadFacts DEF IInv, TypeInv
<1>2. h.type = "FF" /\ m \notin lost
  BY <1>1 DEF IInv, QueueInv
<1>3. /\ DecodeFF(h) = Len(pdu)
      /\ h.bytes = SubSeq(pdu, 1, e)
      /\ Len(h.bytes) = e
      /\ e \in 1 .. Len(pdu) - 1
  BY <1>1, <1>2, ReadFirst DEF IInv
<1>4. /\ Segmented(fd, Len(pdu)) /\ fd \in BOOLEAN
      /\ Len(pdu) \in Nat \ {0} /\ h.bytes \in Seq(Octet)
  <2>1. h \in DataFrames
    BY <1>1 DEF IInv, TypeInv
  <2> QED
    BY <1>1, <1>2, <2>1, TransportAssumption DEF FrameOk, DataFrames, IInv, SentInv, TypeInv
<1>5. /\ rx'.pc = "cf" /\ rx'.buf = h.bytes /\ rx'.total_len = Len(pdu)
      /\ rx'.expected_sn = 1 /\ rx'.bs_count = 0 /\ MsgOf(rx'.buf) = m
      /\ Len(pdu) <= BufSize[fd]
  <2>1. Len(pdu) \in 1 .. BufSize[fd]
    BY <1>1, <1>3
  <2>2. BufSize[fd] \in Nat
    BY <1>4, TransportAssumption
  <2> QED
    BY <1>1, <1>3, <1>4, <2>1, <2>2 DEF Msg
<1>6. rx' \in RxLocals
  BY <1>1, <1>3, <1>4, IdleTypes DEF RxLocals
<1>7. fc \in FlowFrames /\ fc.type = "FC" /\ fc.fs = "CTS" /\ fc.msg = m
  BY <1>1, TransportAssumption DEF uds_tp_encode_fc, FlowFrames
<1>8. toTx' = Append(toTx, fc)
  BY <1>1 DEF SendFC, Msg
<1> HIDE DEF fc
<1>9. /\ toTx' \in Seq(FlowFrames) /\ Len(toTx) \in Nat /\ Len(toTx') = Len(toTx) + 1
      /\ toTx'[Len(toTx) + 1] = fc
      /\ \A i \in 1 .. Len(toTx) : toTx'[i] = toTx[i]
      /\ \A i \in 1 .. Len(toTx) + 1 : i \in 1 .. Len(toTx) \/ i = Len(toTx) + 1
  BY <1>7, <1>8, AppendFacts DEF IInv, TypeInv
<1> HIDE DEF n, h, S, m, pdu, e
\* Behind a first frame there is more of its PDU, or there are later PDUs.
<1>10. \A q \in 2 .. n : Msg(toRx[q]) >= m /\ (Msg(toRx[q]) = m => toRx[q].type = "CF")
  BY <1>1, <1>2 DEF Before, m
<1>11. TypeInv' /\ SentInv'
  BY <1>1, <1>6, <1>9 DEF IInv, TypeInv, SentInv
<1>12. QueueInv'
  BY QueueTail
<1>13. SenderInv'
  <2>1. tx.pc = "first" => m < S
    BY <1>1 DEF IInv, SenderInv, n, S, m, h
  <2>2. ASSUME tx.pc = "first", NEW i \in 1 .. Len(toTx'),
               toTx'[i].type = "FC", toTx'[i].fs = "CTS"
        PROVE  toTx'[i].msg < S
    <3>1. CASE i = Len(toTx) + 1
      BY <1>7, <1>9, <2>1, <2>2, <3>1
    <3>2. CASE i \in 1 .. Len(toTx)
      BY <1>9, <2>2, <3>2 DEF IInv, SenderInv, S
    <3> QED
      BY <1>9, <2>2, <3>1, <3>2
  <2> QED
    BY <1>1, <1>5, <2>1, <2>2 DEF IInv, SenderInv, data, n, S
<1>14. StartedInv'
  <2>1. ASSUME NEW p \in 1 .. n - 1, toRx'[p].type = "CF"
        PROVE  LET x == Msg(toRx'[p]) IN
               \/ x \in stale \cap lost
               \/ /\ x \in stale
                  /\ \E q \in 1 .. p - 1 : toRx'[q].type = "FF" /\ Msg(toRx'[q]) = x
               \/ /\ \A q \in 1 .. p - 1 : toRx'[q].type = "CF" /\ Msg(toRx'[q]) = x
                  /\ x = m
    <3> DEFINE x == Msg(toRx[p + 1])
    <3>1. toRx'[p] = toRx[p + 1] /\ p + 1 \in 1 .. n /\ p + 1 \in 2 .. n /\ toRx[p + 1].type = "CF"
      BY <1>1, <2>1
    <3>2. \A q \in 1 .. p - 1 : toRx'[q] = toRx[q + 1] /\ q + 1 \in 1 .. p /\ q + 1 \in 2 .. n
      BY <1>1, <2>1
    <3>3. CASE x \in stale \cap lost
      BY <3>1, <3>3
    <3>4. CASE x \in stale /\ \E q \in 1 .. p : toRx[q].type = "FF" /\ Msg(toRx[q]) = x
      <4>1. PICK q \in 1 .. p : toRx[q].type = "FF" /\ Msg(toRx[q]) = x
        BY <3>4
      <4>2. CASE q # 1
        <5>1. q - 1 \in 1 .. p - 1 /\ toRx'[q - 1] = toRx[q]
          BY <1>1, <2>1, <4>2
        <5> QED
          BY <3>1, <3>4, <4>1, <5>1
      <4>3. CASE q = 1
        <5>1. x = m
          BY <4>1, <4>3 DEF m, h
        <5>2. ASSUME NEW k \in 1 .. p - 1
              PROVE  toRx'[k].type = "CF" /\ Msg(toRx'[k]) = x
          <6>1. k + 1 \in 1 .. n /\ k + 1 \in 2 .. n /\ k + 1 < p + 1 /\ toRx'[k] = toRx[k + 1]
            BY <1>1, <2>1, <3>2, <5>2
          <6>2. Before(toRx[k + 1], toRx[p + 1]) /\ Msg(toRx[k + 1]) \in 1 .. S
            BY <1>1, <3>1, <6>1 DEF IInv, QueueInv, n
          <6>3. Msg(toRx[k + 1]) = m
            BY <1>1, <1>10, <5>1, <6>1, <6>2 DEF Before
          <6> QED
            BY <1>10, <5>1, <6>1, <6>3
        <5> QED
          BY <3>1, <5>1, <5>2
      <4> QED
        BY <4>2, <4>3
    <3>5. CASE \A q \in 1 .. p : toRx[q].type = "CF" /\ Msg(toRx[q]) = x
      <4>1. 1 \in 1 .. p
        BY <1>1, <2>1
      <4> QED
        BY <1>2, <3>5, <4>1 DEF h
    <3>6. (p + 1) - 1 = p
      BY <2>1
    <3> QED
      BY <3>1, <3>3, <3>4, <3>5, <3>6 DEF IInv, StartedInv, n
  <2>2. ASSUME tx.pc \in {"fc", "cf"}
        PROVE  \/ /\ S \in lost
                  /\ tx.pc = "cf" => S \in stale
               \/ /\ \E q \in 1 .. n - 1 : toRx'[q].type = "FF" /\ Msg(toRx'[q]) = S
                  /\ tx.pc = "cf" => S \in stale
               \/ /\ \A q \in 1 .. n - 1 : toRx'[q].type = "CF" /\ Msg(toRx'[q]) = S
                  /\ m = S
                  /\ S \notin lost
    <3>1. CASE S \in lost /\ (tx.pc = "cf" => S \in stale)
      BY <3>1
    <3>2. CASE /\ \E q \in 1 .. n : toRx[q].type = "FF" /\ Msg(toRx[q]) = S
               /\ tx.pc = "cf" => S \in stale
      <4>1. PICK q \in 1 .. n : toRx[q].type = "FF" /\ Msg(toRx[q]) = S
        BY <3>2
      <4>2. CASE q # 1
        <5>1. q - 1 \in 1 .. n - 1 /\ toRx'[q - 1] = toRx[q]
          BY <1>1, <4>2
        <5> QED
          BY <3>2, <4>1, <5>1
      <4>3. CASE q = 1
        <5>1. m = S
          BY <4>1, <4>3 DEF m, h
        <5>2. ASSUME NEW k \in 1 .. n - 1
              PROVE  toRx'[k].type = "CF" /\ Msg(toRx'[k]) = S
          <6>1. k + 1 \in 2 .. n /\ toRx'[k] = toRx[k + 1] /\ Msg(toRx[k + 1]) \in 1 .. S
            BY <1>1, <5>2
          <6>2. Msg(toRx[k + 1]) = m
            BY <1>1, <1>10, <5>1, <6>1
          <6> QED
            BY <1>10, <5>1, <6>1, <6>2
        <5> QED
          BY <1>2, <5>1, <5>2
      <4> QED
        BY <4>2, <4>3
    <3>3. CASE \A q \in 1 .. n : toRx[q].type = "CF" /\ Msg(toRx[q]) = S
      BY <1>1, <1>2, <3>3 DEF h
    <3> QED
      BY <2>2, <3>1, <3>2, <3>3 DEF IInv, StartedInv, n, S
  <2> QED
    BY <1>1, <1>5, <2>1, <2>2 DEF StartedInv, S
<1>15. FlowInv'
  <2>1. ASSUME NEW i \in 1 .. Len(toTx'), toTx'[i].type = "FC", toTx'[i].fs = "CTS"
        PROVE  /\ toTx'[i].msg \in 1 .. S
               /\ toTx'[i].msg \notin lost
               /\ \A q \in 1 .. n - 1 : toRx'[q].type = "FF" => Msg(toRx'[q]) # toTx'[i].msg
    <3>1. CASE i = Len(toTx) + 1
      BY <1>1, <1>2, <1>7, <1>9, <1>10, <3>1
    <3>2. CASE i \in 1 .. Len(toTx)
      BY <1>1, <1>9, <2>1, <3>2 DEF IInv, FlowInv, n, S
    <3> QED
      BY <1>9, <2>1, <3>1, <3>2
  <2> QED
    BY <1>1, <2>1 DEF FlowInv, S
<1>16. ReceiverInv'
  <2>1. OnGrid(fd, Len(pdu), e)
    BY <1>4, GridFirst DEF e
  <2>2. ASSUME NEW p \in 1 .. n - 1
        PROVE  /\ Msg(toRx'[p]) >= m
               /\ Msg(toRx'[p]) = m => toRx'[p].type = "CF" /\ Start(toRx'[p]) >= e
    <3>1. toRx'[p] = toRx[p + 1] /\ p + 1 \in 2 .. n /\ p + 1 \in 1 .. n
      BY <1>1
    <3>2. FrameOk(fd, sent, toRx[p + 1])
      BY <3>1 DEF IInv, QueueInv, n
    <3>3. toRx[p + 1].type = "CF" => /\ Start(toRx[p + 1]) \in Nat
                                     /\ OnGrid(fd, Len(sent[Msg(toRx[p + 1])]), Start(toRx[p + 1]))
      BY <3>2 DEF FrameOk
    <3> QED
      BY <1>4, <1>10, <3>1, <3>3, GridLow DEF e, pdu
  <2>3. m = S /\ tx.pc \in {"fc", "cf"} => tx.offset >= e
    BY <1>4, GridLow DEF IInv, SenderInv, TypeInv, TxLocals, data, S, e, pdu
  <2>4. Ahead(Len(rx.buf))'
    BY <1>1, <1>3, <1>5, <2>2, <2>3 DEF Ahead, S
  <2> QED
    BY <1>1, <1>2, <1>3, <1>4, <1>5, <2>1, <2>2, <2>4 DEF ReceiverInv, S, pdu
<1>17. GotInv'
  <2>1. \A i \in 1 .. Len(got) : ~ Offending(got[i], stale \cap lost) => m > MsgOf(got[i])
    BY <1>1 DEF IInv, GotInv, n, m, h
  <2>2. \A i \in 1 .. Len(got) : ~ Offending(got[i], stale \cap lost) =>
          \A p \in 1 .. n - 1 : Msg(toRx'[p]) > MsgOf(got[i])
    BY <1>1 DEF IInv, GotInv, n
  <2> QED
    BY <1>1, <1>5, <2>1, <2>2 DEF IInv, GotInv
<1> QED
  BY <1>11, <1>12, <1>13, <1>14, <1>15, <1>16, <1>17 DEF IInv

\* What uds_tp_recv has after it copied a consecutive frame.  Unless a byte of
\* an offending call is in it, the frame is of the PDU being received, and it
\* either continues what was received or lies at least a frame ahead of it.
LEMMA FrameCopied ==
  ASSUME IInv, rx.pc = "cf", toRx # <<>>, toRx[1].type = "CF"
  PROVE  LET h == toRx[1]
             r == MsgOf(rx.buf)
             c == CFSize(fd)
             chunk == Smaller(rx.total_len - Len(rx.buf), c)
             buf == rx.buf \o DecodeCF(h, chunk)
         IN
         /\ chunk \in 1 .. c /\ c \in Nat \ {0}
         /\ buf \in Seq(Octet) /\ Len(buf) = Len(rx.buf) + chunk
         /\ MsgOf(buf) = r
         /\ ~ Offending(buf, stale \cap lost) =>
              /\ Msg(h) = r
              /\ \/ Start(h) = Len(rx.buf) /\ buf = SubSeq(sent[r], 1, Len(buf))
                 \/ Start(h) >= Len(rx.buf) + c
              /\ \A q \in 2 .. Len(toRx) : Msg(toRx[q]) = r => Start(toRx[q]) >= Start(h) + c
              /\ r = Len(sent) /\ tx.pc \in {"fc", "cf"} => tx.offset >= Start(h) + c
<1> DEFINE h == toRx[1]
           n == Len(toRx)
           S == Len(sent)
           r == MsgOf(rx.buf)
           pdu == sent[r]
           c == CFSize(fd)
           old == Len(rx.buf)
           chunk == Smaller(rx.total_len - old, c)
           read == DecodeCF(h, chunk)
           buf == rx.buf \o read
           bad == stale \cap lost
<1>1. /\ fd \in BOOLEAN /\ S \in Nat
      /\ rx.buf \in Seq(Octet) /\ old \in Nat \ {0}
      /\ r \in 1 .. S /\ rx.total_len = Len(pdu) /\ Len(pdu) \in Nat
      /\ old < Len(pdu) /\ OnGrid(fd, Len(pdu), old)
      /\ pdu \in Seq(Octet)
  <2>1. fd \in BOOLEAN /\ S \in Nat /\ rx.buf \in Seq(Octet) /\ old \in Nat
    BY TransportAssumption DEF IInv, TypeInv, RxLocals
  <2>2. /\ old > 0 /\ r \in 1 .. S /\ rx.total_len = Len(pdu)
        /\ old < rx.total_len /\ OnGrid(fd, Len(pdu), old)
    BY DEF IInv, ReceiverInv
  <2>3. pdu \in Seq(Octet) /\ Len(pdu) \in Nat
    BY <2>2 DEF IInv, TypeInv
  <2> HIDE DEF old, S, r, pdu
  <2> QED
    BY <2>1, <2>2, <2>3
<1>2. n \in Nat \ {0} /\ 1 \in 1 .. n /\ FrameOk(fd, sent, h)
  BY TailFacts DEF IInv, QueueInv, TypeInv
<1>3. c \in Nat \ {0}
  BY <1>1, Sizes
<1>4. chunk \in 1 .. c /\ old + chunk <= Len(pdu)
  <2> HIDE DEF c, old, pdu
  <2> QED
    BY <1>1, <1>3 DEF Smaller
<1>5. /\ read \in Seq(Octet) /\ Len(read) = chunk
      /\ read[1][1] = Msg(h)
      /\ Start(h) + chunk <= Len(sent[Msg(h)]) =>
           \A k \in 1 .. chunk : read[k] = sent[Msg(h)][Start(h) + k]
  BY <1>2, <1>4, ReadConsecutive DEF IInv
<1> HIDE DEF h, n, S, r, pdu, c, old, chunk, read
<1>6. /\ buf \in Seq(Octet) /\ Len(buf) = old + chunk
      /\ \A k \in 1 .. old : buf[k] = rx.buf[k]
      /\ \A k \in 1 .. chunk : buf[old + k] = read[k]
  BY <1>1, <1>3, <1>4, <1>5 DEF old
<1> HIDE DEF buf
<1>7. MsgOf(buf) = r
  BY <1>1, <1>6 DEF MsgOf, r
<1>8. ASSUME ~ Offending(buf, bad)
      PROVE  Msg(h) = r /\ ~ Offending(rx.buf, bad)
  <2>1. Msg(h) \notin bad
    <3>1. buf[old + 1][1] = Msg(h) /\ old + 1 \in 1 .. Len(buf)
      BY <1>1, <1>3, <1>4, <1>5, <1>6
    <3> QED
      BY <1>8, <3>1 DEF Offending
  <2>2. ~ Offending(rx.buf, bad)
    <3>1. ASSUME NEW k \in 1 .. old PROVE k \in 1 .. Len(buf) /\ buf[k] = rx.buf[k]
      BY <1>1, <1>3, <1>4, <1>6
    <3> QED
      BY <1>8, <3>1 DEF Offending, old
  <2>3. \A q \in 1 .. 1 - 1 : FALSE
    OBVIOUS
  <2> QED
    BY <1>2, <2>1, <2>2, <2>3 DEF IInv, StartedInv, h, n, r
<1>9. ASSUME Msg(h) = r
      PROVE  /\ Start(h) \in Nat /\ OnGrid(fd, Len(pdu), Start(h))
             /\ \A q \in 2 .. n : Msg(toRx[q]) = r => Start(toRx[q]) >= Start(h) + c
             /\ r = S /\ tx.pc \in {"fc", "cf"} => tx.offset >= Start(h) + c
  <2>1. Start(h) \in Nat /\ OnGrid(fd, Len(pdu), Start(h))
    BY <1>2, <1>9 DEF FrameOk, h, pdu
  <2>2. ASSUME NEW q \in 2 .. n, Msg(toRx[q]) = r
        PROVE  Start(toRx[q]) >= Start(h) + c
    <3>1. q \in 1 .. n /\ 1 < q
      BY <1>2, <2>2
    <3>2. FrameOk(fd, sent, toRx[q]) /\ Before(h, toRx[q])
      BY <1>2, <3>1 DEF IInv, QueueInv, n, h
    <3>3. toRx[q].type = "CF" /\ Start(h) < Start(toRx[q])
      <4>1. h.type = "CF" /\ r \in Nat
        BY <1>1 DEF h
      <4> QED
        BY <1>9, <2>2, <3>2, <4>1 DEF Before
    <3>4. Start(toRx[q]) \in Nat /\ OnGrid(fd, Len(pdu), Start(toRx[q]))
      BY <2>2, <3>2, <3>3 DEF FrameOk, pdu
    <3> QED
      BY <1>1, <1>3, <2>1, <3>3, <3>4, GridGap DEF c
  <2>3. ASSUME r = S, tx.pc \in {"fc", "cf"}
        PROVE  tx.offset >= Start(h) + c
    <3>1. /\ tx.offset \in Nat /\ OnGrid(fd, Len(pdu), tx.offset)
          /\ h.type = "CF" /\ Start(h) < tx.offset
      BY <1>2, <1>9, <2>3 DEF IInv, SenderInv, TypeInv, TxLocals, data, S, n, h, pdu
    <3> QED
      BY <1>1, <1>3, <2>1, <3>1, GridGap DEF c
  <2> QED
    BY <2>1, <2>2, <2>3
<1>10. ASSUME ~ Offending(buf, bad)
       PROVE  \/ Start(h) = old /\ buf = SubSeq(pdu, 1, Len(buf))
              \/ Start(h) >= old + c
  <2>1. /\ Msg(h) = r /\ ~ Offending(rx.buf, bad)
        /\ Start(h) \in Nat /\ OnGrid(fd, Len(pdu), Start(h))
    BY <1>8, <1>9, <1>10
  <2>2. \/ rx.buf = SubSeq(pdu, 1, old) /\ Start(h) >= old
        \/ Start(h) >= old + c
    BY <1>2, <2>1 DEF IInv, ReceiverInv, Ahead, h, n, r, pdu, old, c
  <2>3. CASE Start(h) > old
    BY <1>1, <1>3, <2>1, <2>3, GridGap DEF c
  <2>4. CASE Start(h) = old /\ rx.buf = SubSeq(pdu, 1, old)
    <3>1. \A k \in 1 .. old : buf[k] = pdu[k]
      BY <1>1, <1>6, <2>4
    <3>2. \A k \in 1 .. chunk : buf[old + k] = pdu[old + k]
      BY <1>1, <1>4, <1>5, <1>6, <2>1, <2>4 DEF pdu
    <3>3. ASSUME NEW k \in 1 .. Len(buf) PROVE buf[k] = pdu[k]
      <4>1. CASE k <= old
        BY <1>1, <3>1, <3>3, <4>1
      <4>2. CASE k > old
        <5>1. k - old \in 1 .. chunk /\ k = old + (k - old)
          BY <1>1, <1>3, <1>4, <1>6, <3>3, <4>2
        <5> QED
          BY <3>2, <5>1
      <4> QED
        BY <1>1, <1>6, <3>3, <4>1, <4>2
    <3>4. Len(buf) \in 1 .. Len(pdu)
      BY <1>1, <1>3, <1>4, <1>6
    <3>5. /\ SubSeq(pdu, 1, Len(buf)) \in Seq(Octet)
          /\ Len(SubSeq(pdu, 1, Len(buf))) = Len(buf)
          /\ \A k \in 1 .. Len(buf) : SubSeq(pdu, 1, Len(buf))[k] = pdu[k]
      BY <1>1, <3>4
    <3>6. buf = SubSeq(pdu, 1, Len(buf))
      BY <1>6, <3>3, <3>5, SeqEqual
    <3> QED
      BY <2>4, <3>6
  <2> QED
    BY <1>1, <1>3, <2>1, <2>2, <2>3, <2>4
<1> QED
  BY <1>3, <1>4, <1>6, <1>7, <1>8, <1>9, <1>10
     DEF h, n, S, r, pdu, c, old, chunk, read, buf

\* The data of uds_tp_recv after the frame at the head of its queue is copied.
Copied == rx.buf \o DecodeCF(Head(toRx), Smaller(rx.total_len - Len(rx.buf), CFLimit))

\* The reception goes on after it.
Continued(bs_count) ==
  rx' = [rx EXCEPT !.buf = Copied, !.expected_sn = (@ + 1) % SNMod, !.bs_count = bs_count]

\* The last bytes of a PDU are in.  A reception that missed a frame cannot get
\* here: the frame that completes it would start behind the end of the PDU.
LEMMA PduComplete ==
  ASSUME IInv, rx.pc = "cf", toRx # <<>>, toRx' = Tail(toRx), Head(toRx).type = "CF",
         Len(Copied) >= rx.total_len,
         rx' = IdleRx, got' = Append(got, Copied),
         UNCHANGED <<txSide, toTx, medium, faults>>
  PROVE  IInv'
<1> DEFINE h == toRx[1]
           n == Len(toRx)
           S == Len(sent)
           buf == Copied
           r == MsgOf(rx.buf)
           pdu == sent[r]
           c == CFSize(fd)
           old == Len(rx.buf)
           bad == stale \cap lost
           chunk == Smaller(rx.total_len - old, c)
<1>1. /\ n \in Nat \ {0} /\ 1 \in 1 .. n /\ h = Head(toRx) /\ FrameOk(fd, sent, h)
      /\ CFLimit = c
  BY HeadFacts DEF CFLimit, CFSize
<1>2. /\ chunk \in 1 .. c /\ c \in Nat \ {0}
      /\ buf \in Seq(Octet) /\ Len(buf) = old + chunk
      /\ MsgOf(buf) = r
      /\ ~ Offending(buf, bad) =>
           /\ Msg(h) = r
           /\ (Start(h) = old /\ buf = SubSeq(pdu, 1, Len(buf))) \/ Start(h) >= old + c
           /\ \A q \in 2 .. n : Msg(toRx[q]) = r => Start(toRx[q]) >= Start(h) + c
           /\ r = S /\ tx.pc \in {"fc", "cf"} => tx.offset >= Start(h) + c
  BY <1>1, FrameCopied DEF Copied
<1>3. /\ r \in 1 .. S /\ S \in Nat /\ rx.total_len = Len(pdu) /\ pdu \in Seq(Octet)
      /\ old \in Nat /\ Len(pdu) \in Nat /\ old < rx.total_len /\ r \notin lost
  <2>1. S \in Nat /\ old \in Nat
    BY DEF IInv, TypeInv, RxLocals
  <2>2. r \in 1 .. S /\ rx.total_len = Len(pdu) /\ old < rx.total_len /\ r \notin lost
    BY DEF IInv, ReceiverInv
  <2> QED
    BY <2>1, <2>2 DEF IInv, TypeInv
<1> HIDE DEF c, old, pdu, r, S, n, h, buf
<1>4. Len(buf) = Len(pdu) /\ old + c >= Len(pdu)
  BY <1>2, <1>3 DEF Smaller, buf
<1> HIDE DEF chunk
<1>5. ASSUME ~ Offending(buf, bad)
      PROVE  /\ MsgOf(buf) = r /\ r \in 1 .. S /\ buf = pdu /\ r \notin failed \cup lost
             /\ r = S => tx.pc = "idle"
             /\ \A q \in 2 .. n : Msg(toRx[q]) > r
             /\ \A i \in 1 .. Len(got) : ~ Offending(got[i], bad) => MsgOf(got[i]) < r
  <2>1. Msg(h) = r /\ h.type = "CF" /\ Start(h) \in Nat /\ Start(h) < Len(pdu)
    BY <1>1, <1>2, <1>5 DEF FrameOk, pdu
  <2>2. Start(h) = old /\ buf = SubSeq(pdu, 1, Len(buf))
    BY <1>2, <1>3, <1>4, <1>5, <2>1
  <2>3. buf = pdu
    BY <1>3, <1>4, <2>2
  <2>4. r \notin failed
    <3>1. IsLast(fd, sent, h)
      BY <1>2, <1>3, <1>4, <2>1, <2>2 DEF IsLast, c, pdu
    <3> QED
      BY <1>1, <2>1, <3>1 DEF IInv, QueueInv, n, h
  <2>5. ASSUME r = S PROVE tx.pc = "idle"
    <3>1. tx.pc \in {"idle", "first", "fc", "cf"} /\ tx.offset \in Nat
      BY DEF IInv, TypeInv, TxLocals
    <3>2. tx.pc # "first"
      BY <1>3, <2>5 DEF IInv, SenderInv, r, S
    <3>3. tx.pc \in {"fc", "cf"} => tx.offset < Len(pdu)
      BY <2>5 DEF IInv, SenderInv, data, r, S, pdu
    <3> QED
      BY <1>2, <1>3, <1>4, <1>5, <2>1, <2>2, <2>5, <3>1, <3>2, <3>3
  <2>6. ASSUME NEW q \in 2 .. n PROVE Msg(toRx[q]) > r
    <3>1. /\ FrameOk(fd, sent, toRx[q]) /\ Msg(toRx[q]) >= r
          /\ Msg(toRx[q]) = r => toRx[q].type = "CF"
      <4>1. q \in 1 .. n
        BY <1>1
      <4> QED
        BY <4>1 DEF IInv, QueueInv, ReceiverInv, n, r
    <3>2. Msg(toRx[q]) \in Nat
      BY <1>3, <3>1 DEF FrameOk, S
    <3>3. Msg(toRx[q]) = r => Start(toRx[q]) < Len(pdu) /\ Start(toRx[q]) \in Nat
      BY <3>1 DEF FrameOk, pdu
    <3> QED
      BY <1>2, <1>3, <1>4, <1>5, <2>2, <3>1, <3>2, <3>3
  <2>7. \A i \in 1 .. Len(got) : ~ Offending(got[i], bad) => MsgOf(got[i]) < r
    BY <1>3 DEF IInv, GotInv, r, S
  <2> QED
    BY <1>2, <1>3, <2>3, <2>4, <2>5, <2>6, <2>7
<1> QED
  BY <1>2, <1>5, Received DEF pdu, S, n, buf

\* A consecutive frame is copied and more are awaited, after flow control when
\* the block is used up.
LEMMA ConsecutiveAccepted ==
  ASSUME IInv, rx.pc = "cf", toRx # <<>>, toRx' = Tail(toRx), Head(toRx).type = "CF",
         Len(Copied) < rx.total_len,
         NEW bs_count \in Nat,
         Continued(bs_count),
         SendFC(Copied) \/ UNCHANGED toTx,
         UNCHANGED <<got, txSide, medium, faults>>
  PROVE  IInv'
<1> USE DEF txSide, medium
<1> DEFINE h == toRx[1]
           n == Len(toRx)
           S == Len(sent)
           buf == Copied
           r == MsgOf(rx.buf)
           pdu == sent[r]
           c == CFSize(fd)
           old == Len(rx.buf)
           bad == stale \cap lost
           chunk == Smaller(rx.total_len - old, c)
           fc == uds_tp_encode_fc("CTS", BlockSize, r)
<1>1. /\ n \in Nat \ {0} /\ 1 \in 1 .. n /\ h = Head(toRx) /\ FrameOk(fd, sent, h)
      /\ CFLimit = c
      /\ toRx' \in Seq(DataFrames) /\ Len(toRx') = n - 1
      /\ \A p \in 1 .. n - 1 : toRx'[p] = toRx[p + 1] /\ p + 1 \in 1 .. n /\ p + 1 \in 2 .. n
      /\ \A q \in 2 .. n : toRx[q] = toRx'[q - 1] /\ q - 1 \in 1 .. n - 1
  BY HeadFacts DEF CFLimit, CFSize
<1>2. /\ chunk \in 1 .. c /\ c \in Nat \ {0}
      /\ buf \in Seq(Octet) /\ Len(buf) = old + chunk
      /\ MsgOf(buf) = r
      /\ ~ Offending(buf, bad) =>
           /\ Msg(h) = r
           /\ (Start(h) = old /\ buf = SubSeq(pdu, 1, Len(buf))) \/ Start(h) >= old + c
           /\ \A q \in 2 .. n : Msg(toRx[q]) = r => Start(toRx[q]) >= Start(h) + c
           /\ r = S /\ tx.pc \in {"fc", "cf"} => tx.offset >= Start(h) + c
  BY <1>1, FrameCopied DEF Copied
<1>3. /\ r \in 1 .. S /\ S \in Nat /\ rx.total_len = Len(pdu)
      /\ old \in Nat /\ Len(pdu) \in Nat /\ old < rx.total_len /\ r \notin lost
      /\ fd \in BOOLEAN /\ OnGrid(fd, Len(pdu), old)
      /\ \A p \in 1 .. n : Msg(toRx[p]) >= r /\ (Msg(toRx[p]) = r => toRx[p].type = "CF")
  <2>1. S \in Nat
    BY DEF IInv, TypeInv
  <2>2. rx.buf \in Seq(Octet) /\ fd \in BOOLEAN
    BY TransportAssumption DEF IInv, TypeInv, RxLocals
  <2>3. old \in Nat
    BY <2>2
  <2>4. /\ r \in 1 .. S /\ rx.total_len = Len(pdu) /\ old < rx.total_len /\ r \notin lost
        /\ OnGrid(fd, Len(pdu), old)
        /\ \A p \in 1 .. n : Msg(toRx[p]) >= r /\ (Msg(toRx[p]) = r => toRx[p].type = "CF")
    BY DEF IInv, ReceiverInv
  <2>5. pdu \in Seq(Octet)
    BY <2>4 DEF IInv, TypeInv
  <2>6. Len(pdu) \in Nat
    BY <2>5
  <2> QED
    BY <2>1, <2>2, <2>3, <2>4, <2>6
<1>4. h.type = "CF"
  BY <1>1
<1>5. toTx' = Append(toTx, fc) \/ UNCHANGED toTx
  BY <1>2 DEF SendFC
<1>6. fc \in FlowFrames /\ fc.msg = r
  BY <1>3, TransportAssumption DEF uds_tp_encode_fc, FlowFrames
<1> HIDE DEF c, old, pdu, r, S, n, h, fc, buf
<1>7. Len(buf) = old + c
  BY <1>2, <1>3 DEF Smaller, buf
<1> HIDE DEF chunk
<1>8. /\ rx' \in RxLocals /\ rx'.pc = "cf" /\ rx'.buf = buf /\ rx'.total_len = rx.total_len
  <2>1. rx \in RxLocals
    BY DEF IInv, TypeInv
  <2>2. (rx.expected_sn + 1) % SNMod \in 0 .. SNMod - 1
    <3>1. rx.expected_sn \in 0 .. SNMod - 1
      BY <2>1 DEF RxLocals
    <3>2. rx.expected_sn + 1 \in Nat /\ SNMod \in Nat \ {0}
      BY <3>1, TransportAssumption
    <3> QED
      BY <3>2
  <2>3. rx' = [rx EXCEPT !.buf = buf, !.expected_sn = (@ + 1) % SNMod, !.bs_count = bs_count]
    BY DEF Continued, buf
  <2>4. buf \in Seq(Octet) /\ bs_count \in Nat /\ rx.pc = "cf"
    BY <1>2
  <2> QED
    BY <2>1, <2>2, <2>3, <2>4 DEF RxLocals
\* Flow control in the sender's queue was there, or is for this PDU.
<1>9. /\ toTx' \in Seq(FlowFrames)
      /\ \A i \in 1 .. Len(toTx') :
           toTx'[i] = fc \/ \E j \in 1 .. Len(toTx) : toTx'[i] = toTx[j]
  <2>1. toTx \in Seq(FlowFrames)
    BY DEF IInv, TypeInv
  <2>2. CASE toTx' = Append(toTx, fc)
    BY <1>6, <2>1, <2>2, AppendFacts
  <2> QED
    BY <1>5, <2>1, <2>2
<1>10. TypeInv' /\ SentInv'
  BY <1>1, <1>8, <1>9 DEF IInv, TypeInv, SentInv
<1>11. QueueInv'
  BY QueueTail
<1>12. SenderInv'
  <2>1. tx.pc = "first" => r < S
    BY DEF IInv, SenderInv, S, r
  <2>2. ASSUME tx.pc = "first", NEW i \in 1 .. Len(toTx'),
               toTx'[i].type = "FC", toTx'[i].fs = "CTS"
        PROVE  toTx'[i].msg < S
    BY <1>6, <1>9, <2>1, <2>2 DEF IInv, SenderInv, S
  <2>3. MsgOf(rx'.buf) = r
    BY <1>2, <1>8
  <2>4. tx.pc = "first" => \A p \in 1 .. n - 1 : Msg(toRx'[p]) < S
    BY <1>1 DEF IInv, SenderInv, n, S
  <2>5. tx.pc \in {"fc", "cf"} =>
          \A p \in 1 .. n - 1 : Msg(toRx'[p]) = S =>
            /\ toRx'[p].type # "SF"
            /\ toRx'[p].type = "CF" => Start(toRx'[p]) < tx.offset
    BY <1>1 DEF IInv, SenderInv, n, S
  <2> QED
    BY <1>1, <2>1, <2>2, <2>3, <2>4, <2>5 DEF IInv, SenderInv, data, n, S
<1>13. StartedInv'
  <2>1. ASSUME NEW p \in 1 .. n - 1, toRx'[p].type = "CF"
        PROVE  LET x == Msg(toRx'[p]) IN
               \/ x \in stale \cap lost
               \/ /\ x \in stale
                  /\ \E q \in 1 .. p - 1 : toRx'[q].type = "FF" /\ Msg(toRx'[q]) = x
               \/ /\ \A q \in 1 .. p - 1 : toRx'[q].type = "CF" /\ Msg(toRx'[q]) = x
                  /\ r = x
    <3> DEFINE x == Msg(toRx[p + 1])
    <3>1. toRx'[p] = toRx[p + 1] /\ p + 1 \in 1 .. n /\ toRx[p + 1].type = "CF"
      BY <1>1, <2>1
    <3>2. \A q \in 1 .. p - 1 : toRx'[q] = toRx[q + 1] /\ q + 1 \in 1 .. p
      BY <1>1, <2>1
    <3>3. CASE x \in stale \cap lost
      BY <3>1, <3>3
    <3>4. CASE x \in stale /\ \E q \in 1 .. p : toRx[q].type = "FF" /\ Msg(toRx[q]) = x
      <4>1. PICK q \in 1 .. p : toRx[q].type = "FF" /\ Msg(toRx[q]) = x
        BY <3>4
      <4>2. q # 1
        BY <1>4, <4>1 DEF h
      <4>3. q - 1 \in 1 .. p - 1 /\ toRx'[q - 1] = toRx[q]
        BY <1>1, <2>1, <4>2
      <4> QED
        BY <3>1, <3>4, <4>1, <4>3
    <3>5. CASE /\ \A q \in 1 .. p : toRx[q].type = "CF" /\ Msg(toRx[q]) = x
               /\ r = x
      BY <3>1, <3>2, <3>5
    <3>6. (p + 1) - 1 = p
      BY <2>1
    <3> QED
      BY <3>1, <3>3, <3>4, <3>5, <3>6 DEF IInv, StartedInv, n, r
  <2>2. ASSUME tx.pc \in {"fc", "cf"}
        PROVE  \/ /\ S \in lost
                  /\ tx.pc = "cf" => S \in stale
               \/ /\ \E q \in 1 .. n - 1 : toRx'[q].type = "FF" /\ Msg(toRx'[q]) = S
                  /\ tx.pc = "cf" => S \in stale
               \/ /\ \A q \in 1 .. n - 1 : toRx'[q].type = "CF" /\ Msg(toRx'[q]) = S
                  /\ r = S
                  /\ S \notin lost
    <3>1. CASE S \in lost /\ (tx.pc = "cf" => S \in stale)
      BY <3>1
    <3>2. CASE /\ \E q \in 1 .. n : toRx[q].type = "FF" /\ Msg(toRx[q]) = S
               /\ tx.pc = "cf" => S \in stale
      <4>1. PICK q \in 1 .. n : toRx[q].type = "FF" /\ Msg(toRx[q]) = S
        BY <3>2
      <4>2. q # 1
        BY <1>4, <4>1 DEF h
      <4>3. q - 1 \in 1 .. n - 1 /\ toRx'[q - 1] = toRx[q]
        BY <1>1, <4>2
      <4> QED
        BY <3>2, <4>1, <4>3
    <3>3. CASE /\ \A q \in 1 .. n : toRx[q].type = "CF" /\ Msg(toRx[q]) = S
               /\ r = S
               /\ S \notin lost
      BY <1>1, <3>3
    <3> QED
      BY <2>2, <3>1, <3>2, <3>3 DEF IInv, StartedInv, n, S, r
  <2> QED
    BY <1>1, <1>2, <1>8, <2>1, <2>2 DEF StartedInv, S
<1>14. FlowInv'
  <2>1. ASSUME NEW i \in 1 .. Len(toTx'), toTx'[i].type = "FC", toTx'[i].fs = "CTS"
        PROVE  /\ toTx'[i].msg \in 1 .. S
               /\ toTx'[i].msg \notin lost
               /\ \A q \in 1 .. n - 1 : toRx'[q].type = "FF" => Msg(toRx'[q]) # toTx'[i].msg
    <3>1. CASE toTx'[i] = fc
      BY <1>1, <1>3, <1>6, <3>1
    <3>2. CASE \E j \in 1 .. Len(toTx) : toTx'[i] = toTx[j]
      BY <1>1, <2>1, <3>2 DEF IInv, FlowInv, n, S
    <3> QED
      BY <1>9, <2>1, <3>1, <3>2
  <2> QED
    BY <1>1, <2>1 DEF FlowInv, S
<1>15. ReceiverInv'
  <2>1. OnGrid(fd, Len(pdu), old + c)
    BY <1>3, GridStep DEF c
  <2>2. ASSUME NEW k \in Nat, Msg(h) = r, Start(h) \in Nat, Start(h) + c >= k,
               ~ Offending(buf, bad)
        PROVE  /\ \A p \in 1 .. n - 1 : Msg(toRx'[p]) = r => Start(toRx'[p]) >= k
               /\ r = S /\ tx.pc \in {"fc", "cf"} => tx.offset >= k
    <3>1. ASSUME NEW p \in 1 .. n - 1, Msg(toRx'[p]) = r PROVE Start(toRx'[p]) >= k
      <4>1. toRx'[p] = toRx[p + 1] /\ p + 1 \in 2 .. n /\ p + 1 \in 1 .. n
        BY <1>1
      <4>2. Start(toRx[p + 1]) >= Start(h) + c
        BY <1>2, <2>2, <3>1, <4>1
      <4>3. Start(toRx[p + 1]) \in Nat
        BY <1>3, <3>1, <4>1 DEF IInv, QueueInv, FrameOk, n
      <4>4. Start(toRx[p + 1]) >= k
        BY <1>2, <2>2, <4>2, <4>3
      <4> QED
        BY <4>1, <4>4
    <3>2. ASSUME r = S, tx.pc \in {"fc", "cf"} PROVE tx.offset >= k
      <4>1. tx.offset \in Nat
        BY DEF IInv, TypeInv, TxLocals
      <4> QED
        BY <1>2, <2>2, <3>2, <4>1
    <3> QED
      BY <3>1, <3>2
  <2>3. ASSUME ~ Offending(buf, bad)
        PROVE  \/ buf = SubSeq(pdu, 1, Len(buf)) /\ Ahead(Len(rx.buf))'
               \/ Ahead(Len(rx.buf) + CFSize(fd))'
    <3>1. Msg(h) = r /\ Start(h) \in Nat
      BY <1>1, <1>2, <1>4, <2>3 DEF FrameOk
    <3>2. CASE Start(h) = old /\ buf = SubSeq(pdu, 1, Len(buf))
      <4>1. old + c \in Nat /\ Start(h) + c >= old + c
        BY <1>2, <1>3, <3>2
      <4>2. /\ \A p \in 1 .. n - 1 : Msg(toRx'[p]) = r => Start(toRx'[p]) >= old + c
            /\ r = S /\ tx.pc \in {"fc", "cf"} => tx.offset >= old + c
        BY <2>2, <2>3, <3>1, <4>1
      <4>3. Ahead(Len(rx.buf))'
        BY <1>1, <1>2, <1>7, <1>8, <4>2 DEF Ahead, S
      <4> QED
        BY <3>2, <4>3
    <3>3. CASE Start(h) >= old + c
      <4>1. old + c + c \in Nat /\ Start(h) + c >= old + c + c
        BY <1>2, <1>3, <3>1, <3>3
      <4>2. /\ \A p \in 1 .. n - 1 : Msg(toRx'[p]) = r => Start(toRx'[p]) >= old + c + c
            /\ r = S /\ tx.pc \in {"fc", "cf"} => tx.offset >= old + c + c
        BY <2>2, <2>3, <3>1, <4>1
      <4>3. CFSize(fd)' = c
        BY DEF c, CFSize
      <4>4. Ahead(Len(rx.buf) + CFSize(fd))'
        BY <1>1, <1>2, <1>7, <1>8, <4>2, <4>3 DEF Ahead, S
      <4> QED
        BY <4>4
    <3> QED
      BY <1>2, <2>3, <3>2, <3>3
  <2>4. Len(buf) > 0 /\ Len(buf) < Len(pdu)
    BY <1>2, <1>3, <1>7 DEF buf
  <2>5. /\ Segmented(fd, Len(pdu)) /\ rx.total_len <= BufSize[fd]
    BY DEF IInv, ReceiverInv, r, pdu
  <2>6. MsgOf(rx'.buf) = r
    BY <1>2, <1>8
  <2>7. \A p \in 1 .. n - 1 : Msg(toRx'[p]) >= r /\ (Msg(toRx'[p]) = r => toRx'[p].type = "CF")
    BY <1>1, <1>3
  <2> QED
    BY <1>1, <1>3, <1>7, <1>8, <2>1, <2>3, <2>4, <2>5, <2>6, <2>7 DEF ReceiverInv, S, pdu
<1>16. GotInv'
  <2>1. \A i \in 1 .. Len(got) : ~ Offending(got[i], bad) => r > MsgOf(got[i])
    BY DEF IInv, GotInv, r
  <2>2. \A i \in 1 .. Len(got) : ~ Offending(got[i], bad) =>
          \A p \in 1 .. n - 1 : Msg(toRx'[p]) > MsgOf(got[i])
    BY <1>1 DEF IInv, GotInv, n
  <2> QED
    BY <1>1, <1>2, <1>8, <2>1, <2>2 DEF IInv, GotInv
<1> QED
  BY <1>10, <1>11, <1>12, <1>13, <1>14, <1>15, <1>16 DEF IInv

----------------------------------------------------------------------------
(* The specification *)

\* Nothing is under way at the start.
LEMMA InitInv == Init => IInv
<1> SUFFICES ASSUME Init PROVE IInv
  OBVIOUS
<1>1. tx = IdleTx /\ rx = IdleRx /\ tx.pc = "idle" /\ rx.pc = "first"
  BY IdleTypes DEF Init
<1>2. /\ toRx = <<>> /\ toTx = <<>> /\ sent = <<>> /\ got = <<>>
      /\ Len(toRx) = 0 /\ Len(toTx) = 0 /\ Len(sent) = 0 /\ Len(got) = 0
      /\ failed = {} /\ stale = {} /\ lost = {}
  BY DEF Init
<1>3. TypeInv
  BY <1>1, <1>2, IdleTypes, TransportAssumption DEF Init, TypeInv
<1>4. SentInv /\ QueueInv /\ FlowInv /\ GotInv
  BY <1>2 DEF SentInv, QueueInv, FlowInv, GotInv
<1>5. SenderInv /\ StartedInv /\ ReceiverInv
  BY <1>1, <1>2 DEF SenderInv, StartedInv, ReceiverInv
<1> QED
  BY <1>3, <1>4, <1>5 DEF IInv

\* What uds_tp_recv returns on an error.
LEMMA ReturnsNothing ==
  ASSUME TypeInv, RecvReturns(<<>>)
  PROVE  rx' = IdleRx /\ got' = got
BY DEF RecvReturns, TypeInv

\* The steps of uds_tp_send.
LEMMA SendInv ==
  ASSUME IInv, Send
  PROVE  IInv'
<1>1. CASE SendFirst
  <2>1. CASE Len(data) <= SFLimit /\ toRx' = Append(toRx, EncodeSF(data)) /\ SendReturnsOk
    BY <1>1, <2>1, SingleSent DEF SendFirst, SendReturnsOk
  <2>2. CASE SendReturnsError /\ UNCHANGED toRx
    <3>1. /\ tx.pc # "idle" /\ tx' = IdleTx /\ failed' = failed \cup {Len(sent)}
          /\ UNCHANGED <<sent, stale, toRx, toTx, rxSide, faults, medium>>
      BY <1>1, <2>2 DEF SendFirst, SendReturnsError
    <3>2. faults' \in 0 .. MaxFaults
      BY <3>1 DEF IInv, TypeInv
    <3> QED
      BY <3>1, <3>2, SenderGivesUp
  <2>3. CASE /\ Len(data) > SFLimit /\ (fd \/ Len(data) <= FFMaxLen)
             /\ toRx' = Append(toRx, EncodeFF(data))
             /\ tx' = [tx EXCEPT !.pc = "fc", !.offset = ff_embed, !.sn = 1]
             /\ UNCHANGED <<sent, failed, stale>>
    BY <1>1, <2>3, FirstSent DEF SendFirst
  <2> QED
    BY <1>1, <2>1, <2>2, <2>3 DEF SendFirst
<1>2. CASE RecvFlow
  <2> DEFINE frame == Head(toTx)
  <2>1. CASE SendReturnsError
    <3>1. /\ tx.pc # "idle" /\ tx' = IdleTx /\ failed' = failed \cup {Len(sent)}
          /\ toTx # <<>> /\ toTx' = Tail(toTx)
          /\ UNCHANGED <<sent, stale, toRx, rxSide, faults, medium>>
      BY <1>2, <2>1 DEF RecvFlow, SendReturnsError
    <3>2. faults' \in 0 .. MaxFaults
      BY <3>1 DEF IInv, TypeInv
    <3> QED
      BY <3>1, <3>2, SenderGivesUp
  <2>2. CASE tx.waits + 1 <= MaxWait /\ KeepWaiting
    <3>1. /\ tx' = [tx EXCEPT !.waits = @ + 1]
          /\ UNCHANGED <<sent, failed, stale, toRx, rxSide, faults, medium>>
          /\ toTx # <<>> /\ toTx' = Tail(toTx)
      BY <1>2, <2>2 DEF RecvFlow, KeepWaiting
    <3>2. tx' \in TxLocals /\ tx'.pc = tx.pc /\ tx'.offset = tx.offset
      <4>1. tx \in TxLocals /\ MaxWait \in Nat
        BY TransportAssumption DEF IInv, TypeInv
      <4>2. tx.waits + 1 \in 0 .. MaxWait
        BY <2>2, <4>1 DEF TxLocals
      <4> QED
        BY <3>1, <4>1, <4>2 DEF TxLocals
    <3>3. NoNewFlow /\ toTx' \in Seq(FlowFrames)
      BY <3>1, FlowTaken DEF IInv
    <3>4. faults' \in 0 .. MaxFaults
      BY <3>1 DEF IInv, TypeInv
    <3> QED
      BY <3>1, <3>2, <3>3, <3>4, FlowQueueStep
  <2>3. CASE frame.type = "FC" /\ frame.fs = "CTS" /\ StartBlock(frame)
    BY <1>2, <2>3, BlockStarted DEF RecvFlow
  <2> QED
    BY <1>2, <2>1, <2>2, <2>3 DEF RecvFlow, WaitForFlow
<1>3. CASE SendCF
  BY <1>3, ConsecutiveSent
<1>4. CASE SendTimeout
  <2>1. /\ tx.pc # "idle" /\ tx' = IdleTx /\ failed' = failed \cup {Len(sent)}
        /\ UNCHANGED <<sent, stale, toRx, toTx, rxSide, faults, medium>>
    BY <1>4 DEF SendTimeout, SendTimesOut, SendReturnsError
  <2>2. faults' \in 0 .. MaxFaults
    BY <2>1 DEF IInv, TypeInv
  <2> QED
    BY <2>1, <2>2, SenderGivesUp
<1> QED
  BY <1>1, <1>2, <1>3, <1>4 DEF Send

\* The steps of uds_tp_recv.
LEMMA RecvInv ==
  ASSUME IInv, Recv
  PROVE  IInv'
<1>1. TypeInv /\ SentInv /\ faults \in 0 .. MaxFaults
  BY DEF IInv, TypeInv
<1>2. CASE RecvFirst
  <2> DEFINE frame == Head(toRx)
  <2>1. toRx # <<>> /\ toRx' = Tail(toRx) /\ UNCHANGED <<txSide, faults, medium>>
    BY <1>2 DEF RecvFirst
  <2>2. CASE RecvReturns(<<>>) /\ UNCHANGED toTx
    BY <1>1, <2>1, <2>2, ReturnsNothing, HeadDropped
  <2>3. CASE frame.type = "SF" /\ RecvReturns(DecodeSF(frame)) /\ UNCHANGED toTx
    <3> DEFINE h == toRx[1]
               m == Msg(h)
               pdu == sent[m]
    <3>1. /\ h = frame /\ FrameOk(fd, sent, h) /\ m \in 1 .. Len(sent)
          /\ 1 \in 1 .. Len(toRx)
          /\ \A q \in 2 .. Len(toRx) : Before(h, toRx[q]) /\ Msg(toRx[q]) >= m
                                       /\ Msg(toRx[q]) \in 1 .. Len(sent)
      BY <2>1, HeadFacts
    <3>2. DecodeSF(h) \in {<<>>, <<pdu>>}
      BY <1>1, <2>3, <3>1, ReadSingle
    <3>3. CASE DecodeSF(h) = <<>>
      BY <1>1, <2>1, <2>3, <3>1, <3>3, ReturnsNothing, HeadDropped
    <3>4. CASE DecodeSF(h) = <<pdu>>
      <4>1. pdu \in Seq(Octet) /\ MsgOf(pdu) = m
        <5>1. IsPdu(m, pdu) /\ m \in Nat /\ 1 \in 1 .. Len(pdu)
          BY <1>1, <3>1 DEF TypeInv, SentInv, IsPdu
        <5> QED
          BY <5>1, PduBytes DEF IsPdu, MsgOf
      <4>2. rx' = IdleRx /\ got' = Append(got, pdu)
        <5>1. got \in Seq(Seq(Octet))
          BY <1>1 DEF TypeInv
        <5>2. rx' = IdleRx /\ got' = got \o <<pdu>>
          BY <2>3, <3>1, <3>4 DEF RecvReturns
        <5> HIDE DEF pdu
        <5> QED
          BY <4>1, <5>1, <5>2
      <4>3. m \notin failed \cup lost
        BY <2>3, <3>1 DEF IInv, QueueInv, IsLast
      <4>4. \A q \in 2 .. Len(toRx) : Msg(toRx[q]) > m
        BY <2>3, <3>1 DEF Before
      <4>5. \A i \in 1 .. Len(got) : ~ Offending(got[i], stale \cap lost) => MsgOf(got[i]) < m
        BY <3>1 DEF IInv, GotInv
      <4>6. m = Len(sent) => tx.pc = "idle"
        <5>1. tx.pc \in {"idle", "first", "fc", "cf"} /\ Len(sent) \in Nat
          BY <1>1 DEF TypeInv, TxLocals
        <5> QED
          BY <2>3, <3>1, <5>1 DEF IInv, SenderInv
      <4> HIDE DEF pdu, m
      <4> QED
        BY <2>1, <2>3, <3>1, <4>1, <4>2, <4>3, <4>4, <4>5, <4>6, Received DEF pdu
    <3> QED
      BY <3>2, <3>3, <3>4
  <2>4. CASE /\ frame.type = "FF" /\ DecodeFF(frame) \in 1 .. BufSize[fd]
             /\ rx' = [pc |-> "cf", total_len |-> DecodeFF(frame), buf |-> frame.bytes,
                       expected_sn |-> 1, bs_count |-> 0]
             /\ SendFC(frame.bytes)
             /\ UNCHANGED got
    BY <2>1, <2>4, FirstAccepted
  <2> QED
    BY <1>2, <2>2, <2>3, <2>4 DEF RecvFirst
<1>3. CASE RecvCF
  <2> DEFINE frame == Head(toRx)
             count == rx.bs_count + 1
  <2>1. rx.pc = "cf" /\ toRx # <<>> /\ toRx' = Tail(toRx) /\ UNCHANGED <<txSide, faults, medium>>
    BY <1>3 DEF RecvCF
  <2>2. CASE RejectFrame
    BY <1>1, <2>1, <2>2, ReturnsNothing, HeadDropped DEF RejectFrame
  <2>3. CASE /\ Accepts(frame)
             /\ IF NeedsFC(Len(Copied), count) THEN SendFC(Copied) ELSE UNCHANGED toTx
             /\ Len(Copied) >= rx.total_len /\ RecvReturns(<<Copied>>)
    <3>1. frame.type = "CF"
      BY <2>3 DEF Accepts
    <3>2. /\ Copied \in Seq(Octet) /\ Len(Copied) \in Nat /\ rx.total_len \in Nat
      <4>1. frame = toRx[1] /\ CFLimit = CFSize(fd)
        BY <2>1, HeadFacts DEF CFLimit, CFSize
      <4>2. Copied \in Seq(Octet)
        BY <2>1, <3>1, <4>1, FrameCopied DEF Copied
      <4> QED
        BY <1>1, <4>2 DEF TypeInv, RxLocals
    <3>3. ~ NeedsFC(Len(Copied), count)
      BY <2>3, <3>2 DEF NeedsFC
    <3>4. rx' = IdleRx /\ got' = Append(got, Copied)
      BY <1>1, <2>3, <3>2 DEF RecvReturns, TypeInv
    <3> QED
      BY <2>1, <2>3, <3>1, <3>3, <3>4, PduComplete
  <2>4. CASE /\ Accepts(frame)
             /\ IF NeedsFC(Len(Copied), count) THEN SendFC(Copied) ELSE UNCHANGED toTx
             /\ Len(Copied) < rx.total_len
             /\ rx' = [rx EXCEPT
                         !.buf = Copied, !.expected_sn = (@ + 1) % SNMod,
                         !.bs_count = IF NeedsFC(Len(Copied), count) THEN 0 ELSE count]
             /\ UNCHANGED got
    <3> DEFINE k == IF NeedsFC(Len(Copied), count) THEN 0 ELSE count
    <3>1. frame.type = "CF"
      BY <2>4 DEF Accepts
    <3>2. k \in Nat
      BY <1>1 DEF TypeInv, RxLocals
    <3>3. Continued(k)
      BY <2>4 DEF Continued
    <3>4. SendFC(Copied) \/ UNCHANGED toTx
      BY <2>4
    <3> HIDE DEF k
    <3> QED
      BY <2>1, <2>4, <3>1, <3>2, <3>3, <3>4, ConsecutiveAccepted
  <2> QED
    BY <1>3, <2>2, <2>3, <2>4 DEF RecvCF, Copied
<1>4. CASE RecvTimeout
  BY <1>1, <1>4, ReturnsNothing, ReceiverGivesUp DEF RecvTimeout, RecvTimesOut
<1> QED
  BY <1>2, <1>3, <1>4 DEF Recv

\* A fault is counted.
LEMMA FaultCounted ==
  ASSUME IInv, Fault
  PROVE  faults' \in 0 .. MaxFaults /\ UNCHANGED <<bus, fd>>
BY TransportAssumption DEF IInv, TypeInv, Fault

\* The whole of IInv is inductive.
LEMMA NextInv ==
  ASSUME IInv, [Next]_vars
  PROVE  IInv'
<1>1. TypeInv /\ tx \in TxLocals /\ faults \in 0 .. MaxFaults
  BY DEF IInv, TypeInv
<1>2. CASE \E len \in Lengths[bus][fd] : Call(len)
  BY <1>2, CallInv
<1>3. CASE Send
  BY <1>3, SendInv
<1>4. CASE Recv
  BY <1>4, RecvInv
<1>5. CASE UNCHANGED vars
  <2>1. /\ tx' \in TxLocals /\ tx'.pc = tx.pc /\ tx'.offset = tx.offset
        /\ UNCHANGED <<sent, failed, stale, rxSide, toRx, medium>> /\ faults' \in 0 .. MaxFaults
        /\ UNCHANGED toTx
    BY <1>1, <1>5 DEF vars, txSide
  <2> QED
    BY <1>1, <2>1, FlowTaken, FlowQueueStep
<1>6. CASE SenderReceives
  <2>1. /\ tx' \in TxLocals /\ tx'.pc = tx.pc /\ tx'.offset = tx.offset
        /\ UNCHANGED <<sent, failed, stale, rxSide, toRx, medium>> /\ faults' \in 0 .. MaxFaults
        /\ toTx # <<>> /\ toTx' = Tail(toTx)
    BY <1>1, <1>6 DEF SenderReceives, txSide
  <2> QED
    BY <1>1, <2>1, FlowTaken, FlowQueueStep
<1>7. CASE LoseData
  BY <1>7, FrameLost
<1>8. CASE LoseFlow
  <2>1. /\ tx' \in TxLocals /\ tx'.pc = tx.pc /\ tx'.offset = tx.offset
        /\ UNCHANGED <<sent, failed, stale, rxSide, toRx, medium>> /\ faults' \in 0 .. MaxFaults
        /\ toTx # <<>> /\ toTx' = Tail(toTx)
    BY <1>1, <1>8, FaultCounted DEF LoseFlow, txSide, medium
  <2> QED
    BY <1>1, <2>1, FlowTaken, FlowQueueStep
<1>9. CASE SendFails
  BY <1>9, FaultCounted, SenderGivesUp DEF SendFails, SendReturnsError, medium
<1>10. CASE RecvFails
  BY <1>1, <1>10, FaultCounted, ReturnsNothing, ReceiverGivesUp DEF RecvFails, medium
<1>11. CASE FlowFails
  BY <1>1, <1>11, FaultCounted, ReturnsNothing, HeadDropped DEF FlowFails, medium
<1>12. CASE ForeignFrame
  <2>1. /\ tx' \in TxLocals /\ tx'.pc = tx.pc /\ tx'.offset = tx.offset
        /\ UNCHANGED <<sent, failed, stale, rxSide, toRx, medium>> /\ faults' \in 0 .. MaxFaults
    BY <1>1, <1>12, FaultCounted DEF ForeignFrame, txSide, medium
  <2>2. PICK frame \in ForeignFrames : toTx' = Append(toTx, frame)
    BY <1>12 DEF ForeignFrame
  <2>3. frame \in FlowFrames /\ (frame.type = "FC" => frame.fs # "CTS")
    BY <2>2 DEF ForeignFrames, FlowFrames, uds_tp_encode_fc, uds_tp_encode_sf
  <2>4. NoNewFlow /\ toTx' \in Seq(FlowFrames)
    BY <1>1, <2>2, <2>3, AppendFacts DEF NoNewFlow, TypeInv
  <2> QED
    BY <2>1, <2>4, FlowQueueStep
<1> QED
  BY <1>2, <1>3, <1>4, <1>5, <1>6, <1>7, <1>8, <1>9, <1>10, <1>11, <1>12
     DEF Next, uds_tp_send, uds_tp_recv, uds_tp_send_fd, uds_tp_recv_fd, RecvIdle

\* The inductive invariant holds.
LEMMA Inductive == Spec => []IInv
BY InitInv, NextInv, PTL DEF Spec

\* The types of the transport's variables: the sequence numbers stay below
\* SNMod, WAIT frames are bounded, the receiver never writes past the length it
\* was announced, which never exceeds its buffer.
THEOREM TransportTypeCorrect == Spec => []TypeOK
<1>1. IInv => TypeOK
  <2> SUFFICES ASSUME IInv PROVE TypeOK
    OBVIOUS
  <2>1. fd \in BOOLEAN /\ BufSize[fd] \in Nat
    BY TransportAssumption DEF IInv, TypeInv
  <2>2. tx \in TxLocals /\ rx \in RxLocals
    BY DEF IInv, TypeInv
  <2>3. rx.total_len \in 0 .. BufSize[fd] /\ Len(rx.buf) <= rx.total_len
    <3>1. CASE rx.pc = "first"
      BY <2>1, <3>1 DEF IInv, ReceiverInv, IdleRx
    <3>2. CASE rx.pc = "cf"
      BY <2>1, <2>2, <3>2 DEF IInv, ReceiverInv, RxLocals
    <3> QED
      BY <2>2, <3>1, <3>2 DEF RxLocals
  <2> QED
    BY <2>2, <2>3 DEF IInv, TypeInv, TypeOK, TxLocals, RxLocals
<1> QED
  BY <1>1, Inductive, PTL

----------------------------------------------------------------------------
(* The PDUs without bytes of an offending call *)

\* One step of RegularUpTo: g is its value up to j.
Selects(g, j, pdus, calls) ==
  g = [k \in 0 .. j |-> IF k = 0 THEN <<>>
                        ELSE IF Offending(pdus[k], calls) THEN g[k - 1]
                        ELSE Append(g[k - 1], pdus[k])]

\* The recursion defines RegularUpTo.
LEMMA RegularDefined ==
  ASSUME NEW pdus, NEW calls, Len(pdus) \in Nat
  PROVE  Selects(RegularUpTo(pdus, calls), Len(pdus), pdus, calls)
<1> DEFINE S == {j \in Nat : \E g : Selects(g, j, pdus, calls)}
<1>1. 0 \in S
  <2> DEFINE g == [k \in 0 .. 0 |-> <<>>]
  <2>1. Selects(g, 0, pdus, calls)
    BY DEF Selects
  <2> QED
    BY <2>1
<1>2. ASSUME NEW j \in Nat, j \in S PROVE j + 1 \in S
  <2>1. PICK g : Selects(g, j, pdus, calls)
    BY <1>2
  <2> DEFINE h == [k \in 0 .. j + 1 |->
                     IF k <= j THEN g[k]
                     ELSE IF Offending(pdus[k], calls) THEN g[k - 1]
                     ELSE Append(g[k - 1], pdus[k])]
             v == [k \in 0 .. j + 1 |->
                     IF k = 0 THEN <<>>
                     ELSE IF Offending(pdus[k], calls) THEN h[k - 1]
                     ELSE Append(h[k - 1], pdus[k])]
  <2>2. ASSUME NEW k \in 0 .. j + 1 PROVE h[k] = v[k]
    <3>1. CASE k = 0
      BY <2>1, <3>1 DEF Selects
    <3>2. CASE k # 0
      <4>1. k - 1 \in 0 .. j /\ k - 1 \in 0 .. j + 1 /\ k - 1 <= j
        BY <3>2
      <4>2. h[k - 1] = g[k - 1]
        BY <4>1
      <4>3. CASE k <= j
        <5>1. k \in 0 .. j /\ h[k] = g[k]
          BY <4>3
        <5>2. g[k] = IF Offending(pdus[k], calls) THEN g[k - 1] ELSE Append(g[k - 1], pdus[k])
          BY <2>1, <3>2, <5>1 DEF Selects
        <5> QED
          BY <3>2, <4>2, <5>1, <5>2
      <4>4. CASE ~ (k <= j)
        BY <3>2, <4>2, <4>4
      <4> QED
        BY <4>3, <4>4
    <3> QED
      BY <3>1, <3>2
  <2>3. h = v
    BY <2>2
  <2>4. Selects(h, j + 1, pdus, calls)
    BY <2>3 DEF Selects
  <2> QED
    BY <2>4
<1> HIDE DEF S
<1>3. Len(pdus) \in S
  BY <1>1, <1>2, InductiveSet
<1>4. PICK g : Selects(g, Len(pdus), pdus, calls)
  BY <1>3 DEF S
<1> QED
  BY <1>4 DEF Selects, RegularUpTo

\* Its values one by one.
LEMMA RegularStep ==
  ASSUME NEW pdus, NEW calls, Len(pdus) \in Nat
  PROVE  LET g == RegularUpTo(pdus, calls) IN
         /\ g[0] = <<>>
         /\ \A k \in 1 .. Len(pdus) :
              g[k] = IF Offending(pdus[k], calls) THEN g[k - 1] ELSE Append(g[k - 1], pdus[k])
<1> DEFINE g == RegularUpTo(pdus, calls)
<1>1. Selects(g, Len(pdus), pdus, calls)
  BY RegularDefined
<1> HIDE DEF g
<1>2. g[0] = <<>>
  <2>1. 0 \in 0 .. Len(pdus)
    OBVIOUS
  <2> QED
    BY <1>1, <2>1 DEF Selects
<1>3. ASSUME NEW k \in 1 .. Len(pdus)
      PROVE  g[k] = IF Offending(pdus[k], calls) THEN g[k - 1] ELSE Append(g[k - 1], pdus[k])
  <2>1. k \in 0 .. Len(pdus) /\ k # 0
    OBVIOUS
  <2> QED
    BY <1>1, <2>1 DEF Selects
<1> QED
  BY <1>2, <1>3 DEF g

\* What is selected is a sequence of PDUs that were there and hold no byte of
\* the calls.
LEMMA RegularElements ==
  ASSUME NEW X, NEW pdus \in Seq(X), NEW calls
  PROVE  /\ Regular(pdus, calls) \in Seq(X)
         /\ \A i \in 1 .. Len(Regular(pdus, calls)) :
              \E j \in 1 .. Len(pdus) : /\ ~ Offending(pdus[j], calls)
                                        /\ Regular(pdus, calls)[i] = pdus[j]
<1> DEFINE n == Len(pdus)
           g == RegularUpTo(pdus, calls)
           Fine(k) == /\ g[k] \in Seq(X)
                      /\ \A i \in 1 .. Len(g[k]) :
                           \E j \in 1 .. n : ~ Offending(pdus[j], calls) /\ g[k][i] = pdus[j]
           S == {k \in Nat : k <= n => Fine(k)}
<1>1. /\ n \in Nat /\ g[0] = <<>>
      /\ \A k \in 1 .. n :
           g[k] = IF Offending(pdus[k], calls) THEN g[k - 1] ELSE Append(g[k - 1], pdus[k])
  BY RegularStep
<1> HIDE DEF g, n
<1>2. 0 \in S
  <2>1. g[0] \in Seq(X) /\ Len(g[0]) = 0
    BY <1>1
  <2> QED
    BY <2>1
<1>3. ASSUME NEW k \in Nat, k \in S PROVE k + 1 \in S
  <2> SUFFICES ASSUME k + 1 <= n PROVE Fine(k + 1)
    OBVIOUS
  <2>1. k + 1 \in 1 .. n /\ (k + 1) - 1 = k /\ k <= n
    BY <1>1
  <2>2. Fine(k)
    BY <1>3, <2>1
  <2>3. pdus[k + 1] \in X
    BY <2>1 DEF n
  <2>4. CASE Offending(pdus[k + 1], calls)
    <3>1. g[k + 1] = g[k]
      BY <1>1, <2>1, <2>4
    <3> QED
      BY <2>2, <3>1
  <2>5. CASE ~ Offending(pdus[k + 1], calls)
    <3>1. g[k + 1] = Append(g[k], pdus[k + 1])
      BY <1>1, <2>1, <2>5
    <3>2. /\ g[k + 1] \in Seq(X) /\ Len(g[k + 1]) = Len(g[k]) + 1
          /\ g[k + 1][Len(g[k]) + 1] = pdus[k + 1]
          /\ \A i \in 1 .. Len(g[k]) : g[k + 1][i] = g[k][i]
          /\ \A i \in 1 .. Len(g[k]) + 1 : i \in 1 .. Len(g[k]) \/ i = Len(g[k]) + 1
      BY <2>2, <2>3, <3>1, AppendFacts
    <3> QED
      BY <2>1, <2>2, <2>5, <3>2
  <2> QED
    BY <2>4, <2>5
<1> HIDE DEF S
<1>4. n \in S
  BY <1>1, <1>2, <1>3, InductiveSet
<1> QED
  BY <1>1, <1>4 DEF S, Regular, g, n

\* What is selected of the first PDUs depends on these alone, and on which of
\* them hold bytes of the calls.
LEMMA RegularAgrees ==
  ASSUME NEW pdus, NEW more, NEW calls, NEW others,
         Len(pdus) \in Nat, Len(more) \in Nat, Len(pdus) <= Len(more),
         \A k \in 1 .. Len(pdus) :
           more[k] = pdus[k] /\ (Offending(pdus[k], calls) <=> Offending(pdus[k], others))
  PROVE  RegularUpTo(more, others)[Len(pdus)] = Regular(pdus, calls)
<1> DEFINE n == Len(pdus)
           g == RegularUpTo(pdus, calls)
           h == RegularUpTo(more, others)
           S == {k \in Nat : k <= n => h[k] = g[k]}
<1>1. /\ g[0] = <<>>
      /\ \A k \in 1 .. n :
           g[k] = IF Offending(pdus[k], calls) THEN g[k - 1] ELSE Append(g[k - 1], pdus[k])
  BY RegularStep
<1>2. /\ h[0] = <<>>
      /\ \A k \in 1 .. Len(more) :
           h[k] = IF Offending(more[k], others) THEN h[k - 1] ELSE Append(h[k - 1], more[k])
  BY RegularStep
<1> HIDE DEF g, h
<1>3. 0 \in S
  BY <1>1, <1>2
<1>4. ASSUME NEW k \in Nat, k \in S PROVE k + 1 \in S
  <2> SUFFICES ASSUME k + 1 <= n PROVE h[k + 1] = g[k + 1]
    OBVIOUS
  <2>1. k + 1 \in 1 .. n /\ k + 1 \in 1 .. Len(more) /\ (k + 1) - 1 = k /\ k <= n
    OBVIOUS
  <2>2. h[k] = g[k]
    BY <1>4, <2>1
  <2>3. /\ more[k + 1] = pdus[k + 1]
        /\ Offending(pdus[k + 1], calls) <=> Offending(pdus[k + 1], others)
    BY <2>1
  <2>4. g[k + 1] = IF Offending(pdus[k + 1], calls) THEN g[k] ELSE Append(g[k], pdus[k + 1])
    BY <1>1, <2>1
  <2>5. h[k + 1] = IF Offending(more[k + 1], others) THEN h[k] ELSE Append(h[k], more[k + 1])
    BY <1>2, <2>1
  <2> QED
    BY <2>2, <2>3, <2>4, <2>5
<1> HIDE DEF S
<1>5. n \in S
  BY <1>3, <1>4, InductiveSet
<1> QED
  BY <1>5 DEF S, Regular, g, h

----------------------------------------------------------------------------
(* The transport implements the PDU channel *)

\* Calls stay on record as stale, and a first frame is lost only from the head of
\* the queue.
RecordsKept ==
  /\ stale \subseteq stale'
  /\ \/ lost' = lost
     \/ /\ toRx # <<>>
        /\ lost' = IF Head(toRx).type = "FF" THEN lost \cup {Msg(Head(toRx))} ELSE lost

\* Every step keeps these records.
LEMMA StepKeepsRecords ==
  ASSUME [Next]_vars
  PROVE  RecordsKept
<1>1. stale \subseteq stale'
  BY DEF Next, Call, uds_tp_send, uds_tp_recv, uds_tp_send_fd, uds_tp_recv_fd, Send, Recv,
         SendFirst, SendReturnsOk, SendReturnsError, RecvFlow, WaitForFlow, KeepWaiting,
         StartBlock, SendCF, SendTimeout, SendTimesOut, RecvFirst, RecvCF, RecvTimeout,
         RecvTimesOut, RecvIdle, SenderReceives, LoseData, LoseFlow, SendFails, RecvFails,
         FlowFails, ForeignFrame, txSide, medium, vars
<1>2. \/ lost' = lost
      \/ /\ toRx # <<>>
         /\ lost' = IF Head(toRx).type = "FF" THEN lost \cup {Msg(Head(toRx))} ELSE lost
  BY DEF Next, Call, uds_tp_send, uds_tp_recv, uds_tp_send_fd, uds_tp_recv_fd, Send, Recv,
         SendFirst, RecvFlow, SendCF, SendTimeout, SendTimesOut, RecvFirst, RecvCF, RecvTimeout,
         RecvTimesOut, RecvIdle, SenderReceives, LoseData, LoseFlow, SendFails, RecvFails,
         FlowFails, ForeignFrame, medium, vars, Msg
<1> QED
  BY <1>1, <1>2 DEF RecordsKept

\* Whether a PDU that was received holds bytes of an offending call is settled:
\* the first frame of a PDU received whole cannot be lost any more.
LEMMA OffendingSettled ==
  ASSUME IInv, RecordsKept, NEW i \in 1 .. Len(got)
  PROVE  Offending(got[i], stale \cap lost) <=> Offending(got[i], stale' \cap lost')
<1>1. stale \subseteq stale' /\ lost \subseteq lost'
  BY DEF RecordsKept
<1>2. Offending(got[i], stale \cap lost) => Offending(got[i], stale' \cap lost')
  BY <1>1, OffendingStays
<1>3. ASSUME ~ Offending(got[i], stale \cap lost)
      PROVE  ~ Offending(got[i], stale' \cap lost')
  <2> DEFINE m == MsgOf(got[i])
  <2>1. /\ m \in 1 .. Len(sent) /\ got[i] = sent[m] /\ m \notin lost
        /\ \A p \in 1 .. Len(toRx) : Msg(toRx[p]) > m
    BY <1>3 DEF IInv, GotInv
  <2> HIDE DEF m
  <2>2. m \notin lost'
    <3>1. toRx # <<>> => Head(toRx) = toRx[1] /\ 1 \in 1 .. Len(toRx)
      BY TailFacts DEF IInv, TypeInv
    <3>2. m \in Nat
      BY <2>1 DEF IInv, TypeInv
    <3> QED
      BY <2>1, <3>1, <3>2 DEF RecordsKept
  <2>3. IsPdu(m, got[i]) /\ m \in Nat
    BY <2>1 DEF IInv, TypeInv, SentInv, IsPdu
  <2>4. \A k \in 1 .. Len(got[i]) : got[i][k][1] = m
    BY <2>3, PduBytes
  <2> QED
    BY <2>2, <2>4 DEF Offending
<1> QED
  BY <1>2, <1>3

\* What a step does to the histories: it adds a PDU to send, a failure of the
\* PDU being sent or a PDU received, or nothing.
HistoryStep ==
  \/ /\ \E len \in Lengths[bus][fd] : sent' = Append(sent, Pdu(Len(sent) + 1, len))
     /\ Len(sent) < MaxSends
     /\ UNCHANGED <<failed, got>>
  \/ /\ tx.pc # "idle"
     /\ failed' = failed \cup {Len(sent)}
     /\ UNCHANGED <<sent, got>>
  \/ /\ \E pdu \in Seq(Octet) : got' = Append(got, pdu)
     /\ UNCHANGED <<sent, failed>>
  \/ UNCHANGED <<sent, failed, got>>

\* Every step does one of these.
LEMMA StepKinds ==
  ASSUME IInv, [Next]_vars
  PROVE  HistoryStep
<1> USE DEF HistoryStep
<1>1. TypeInv /\ TypeInv'
  BY NextInv DEF IInv
<1>2. CASE \E len \in Lengths[bus][fd] : Call(len)
  BY <1>2 DEF Call, rxSide
<1>3. CASE Send
  BY <1>3 DEF Send, SendFirst, SendReturnsOk, SendReturnsError, RecvFlow, WaitForFlow,
              KeepWaiting, StartBlock, SendCF, SendTimeout, SendTimesOut, rxSide
<1>4. CASE Recv
  <2>1. /\ UNCHANGED <<sent, failed>>
        /\ \/ UNCHANGED got
           \/ RecvReturns(<<>>)
           \/ \E pdu : RecvReturns(<<pdu>>)
    <3>1. CASE RecvFirst
      <4> DEFINE h == Head(toRx)
      <4>1. h.type = "SF" => DecodeSF(h) \in {<<>>, <<sent[Msg(h)]>>}
        <5>1. FrameOk(fd, sent, h)
          BY <3>1, HeadFacts DEF RecvFirst
        <5> QED
          BY <1>1, <5>1, ReadSingle DEF IInv
      <4> QED
        BY <3>1, <4>1 DEF RecvFirst, txSide
    <3>2. CASE RecvCF
      BY <3>2 DEF RecvCF, RejectFrame, txSide
    <3>3. CASE RecvTimeout
      BY <3>3 DEF RecvTimeout, RecvTimesOut, txSide
    <3> QED
      BY <1>4, <3>1, <3>2, <3>3 DEF Recv
  <2>2. CASE RecvReturns(<<>>)
    BY <1>1, <2>1, <2>2, ReturnsNothing
  <2>3. CASE \E pdu : RecvReturns(<<pdu>>)
    <3>1. PICK pdu : got' = got \o <<pdu>>
      BY <2>3 DEF RecvReturns
    <3>2. got \in Seq(Seq(Octet)) /\ got' \in Seq(Seq(Octet))
      BY <1>1 DEF TypeInv
    <3>3. Len(got') = Len(got) + 1 /\ got'[Len(got) + 1] = pdu
      BY <3>1, <3>2
    <3>4. pdu \in Seq(Octet)
      BY <3>2, <3>3
    <3>5. got' = Append(got, pdu)
      BY <3>1, <3>2, <3>4
    <3> QED
      BY <2>1, <3>4, <3>5
  <2> QED
    BY <2>1, <2>2, <2>3
<1>5. CASE SendFails
  BY <1>5 DEF SendFails, SendReturnsError, rxSide
<1>6. CASE RecvFails \/ FlowFails
  BY <1>1, <1>6, ReturnsNothing DEF RecvFails, FlowFails, txSide
<1>7. CASE LoseData \/ LoseFlow \/ ForeignFrame \/ SenderReceives \/ UNCHANGED vars
  BY <1>7 DEF LoseData, LoseFlow, ForeignFrame, SenderReceives, vars, txSide, rxSide
<1> QED
  BY <1>2, <1>3, <1>4, <1>5, <1>6, <1>7
     DEF Next, uds_tp_send, uds_tp_recv, uds_tp_send_fd, uds_tp_recv_fd, RecvIdle

\* The last PDU delivered is one of those received without an offending byte.
LEMMA LastDelivered ==
  ASSUME IInv
  PROVE  /\ delivered \in Seq(Seq(Octet))
         /\ LastOf(delivered) \in 0 .. Len(sent)
         /\ tx.pc # "idle" => LastOf(delivered) < Len(sent)
         /\ LastOf(delivered) # 0 =>
              \E i \in 1 .. Len(got) : /\ ~ Offending(got[i], stale \cap lost)
                                       /\ LastOf(delivered) = MsgOf(got[i])
<1>1. got \in Seq(Seq(Octet)) /\ Len(sent) \in Nat
  BY DEF IInv, TypeInv
<1>2. /\ delivered \in Seq(Seq(Octet))
      /\ \A i \in 1 .. Len(delivered) :
           \E j \in 1 .. Len(got) : ~ Offending(got[j], stale \cap lost) /\ delivered[i] = got[j]
  <2> DEFINE bad == stale \cap lost
  <2>1. delivered = Regular(got, bad)
    BY DEF delivered
  <2> HIDE DEF bad
  <2>2. /\ Regular(got, bad) \in Seq(Seq(Octet))
        /\ \A i \in 1 .. Len(Regular(got, bad)) :
             \E j \in 1 .. Len(got) : ~ Offending(got[j], bad) /\ Regular(got, bad)[i] = got[j]
    BY <1>1, RegularElements
  <2> QED
    BY <2>1, <2>2 DEF bad
<1>3. CASE delivered = <<>>
  BY <1>1, <1>2, <1>3 DEF LastOf, IInv, SenderInv
<1>4. CASE delivered # <<>>
  <2>1. Len(delivered) \in 1 .. Len(delivered)
    BY <1>2, <1>4
  <2>2. PICK j \in 1 .. Len(got) :
          ~ Offending(got[j], stale \cap lost) /\ delivered[Len(delivered)] = got[j]
    BY <1>2, <2>1
  <2>3. LastOf(delivered) = MsgOf(got[j])
    BY <1>4, <2>2 DEF LastOf
  <2>4. MsgOf(got[j]) \in 1 .. Len(sent) /\ (MsgOf(got[j]) = Len(sent) => tx.pc = "idle")
    BY <2>2 DEF IInv, GotInv
  <2> QED
    BY <1>1, <1>2, <2>2, <2>3, <2>4
<1> QED
  BY <1>3, <1>4

\* A step that keeps the invariant and the records is a step of the channel, or
\* none.
LEMMA ChannelStep ==
  ASSUME IInv, IInv', RecordsKept, HistoryStep
  PROVE  [Channel!Next]_(Channel!vars)
<1>1. IInv'
  OBVIOUS
<1>2. /\ got \in Seq(Seq(Octet)) /\ Len(got) \in Nat /\ Len(sent) \in Nat
      /\ bus \in Buses /\ fd \in Modes
  BY DEF IInv, TypeInv
<1>3. /\ LastOf(delivered) \in 0 .. Len(sent)
      /\ tx.pc # "idle" => LastOf(delivered) < Len(sent)
      /\ LastOf(delivered) # 0 =>
           \E i \in 1 .. Len(got) : /\ ~ Offending(got[i], stale \cap lost)
                                    /\ LastOf(delivered) = MsgOf(got[i])
  BY LastDelivered
<1>4. \A i \in 1 .. Len(got) :
        Offending(got[i], stale \cap lost) <=> Offending(got[i], stale' \cap lost')
  BY OffendingSettled
<1>5. ASSUME got' = got PROVE delivered' = delivered
  <2> DEFINE bad == stale \cap lost
             later == stale' \cap lost'
             pdus == got
  <2>1. \A k \in 1 .. Len(got) : Offending(got[k], bad) <=> Offending(got[k], later)
    BY <1>4
  <2>2. Len(got) <= Len(pdus) /\ Len(pdus) \in Nat /\ \A k \in 1 .. Len(got) : pdus[k] = got[k]
    BY <1>2
  <2> HIDE DEF bad, later, pdus
  <2>3. RegularUpTo(pdus, later)[Len(got)] = Regular(got, bad)
    BY <1>2, <2>1, <2>2, RegularAgrees
  <2> QED
    BY <1>5, <2>3 DEF delivered, Regular, bad, later, pdus
<1>6. CASE /\ \E len \in Lengths[bus][fd] : sent' = Append(sent, Pdu(Len(sent) + 1, len))
           /\ Len(sent) < MaxSends
           /\ UNCHANGED <<failed, got>>
  <2>1. PICK len \in Lengths[bus][fd] : sent' = Append(sent, Pdu(Len(sent) + 1, len))
    BY <1>6
  <2>2. Pdu(Len(sent) + 1, len) \in AllPdus
    <3>1. Len(sent) + 1 \in 1 .. MaxSends
      BY <1>2, <1>6, TransportAssumption
    <3>2. len \in UNION {Lengths[b][mode] : b \in Buses, mode \in Modes}
      BY <1>2, <2>1
    <3> QED
      BY <3>1, <3>2 DEF AllPdus
  <2>3. Channel!Submit(Pdu(Len(sent) + 1, len))
    BY <1>5, <1>6, <2>1 DEF Channel!Submit
  <2> QED
    BY <2>2, <2>3 DEF Channel!Next
<1>7. CASE /\ tx.pc # "idle"
           /\ failed' = failed \cup {Len(sent)}
           /\ UNCHANGED <<sent, got>>
  <2>1. Len(sent) > LastOf(delivered)
    BY <1>2, <1>3, <1>7
  <2>2. Channel!Fail
    BY <1>5, <1>7, <2>1 DEF Channel!Fail
  <2> QED
    BY <2>2 DEF Channel!Next
<1>8. CASE /\ \E pdu \in Seq(Octet) : got' = Append(got, pdu)
           /\ UNCHANGED <<sent, failed>>
  <2>1. PICK pdu \in Seq(Octet) : got' = Append(got, pdu)
    BY <1>8
  <2> DEFINE n == Len(got)
             bad == stale' \cap lost'
             m == MsgOf(pdu)
  <2>2. /\ Len(got') = n + 1 /\ got'[n + 1] = pdu
        /\ \A k \in 1 .. n : got'[k] = got[k]
    BY <1>2, <2>1, AppendFacts
  <2>3. RegularUpTo(got', bad)[n] = delivered
    <3> DEFINE old == stale \cap lost
               pdus == got'
    <3>1. \A k \in 1 .. n :
            pdus[k] = got[k] /\ (Offending(got[k], old) <=> Offending(got[k], bad))
      BY <1>4, <2>2
    <3>2. Len(pdus) \in Nat /\ n <= Len(pdus)
      BY <1>2, <2>2
    <3> HIDE DEF old, bad, pdus
    <3>3. RegularUpTo(pdus, bad)[n] = Regular(got, old)
      BY <1>2, <3>1, <3>2, RegularAgrees
    <3> QED
      BY <3>3 DEF delivered, old, pdus
  <2>4. delivered' = IF Offending(pdu, bad) THEN delivered ELSE Append(delivered, pdu)
    <3>1. n + 1 \in 1 .. Len(got') /\ Len(got') \in Nat /\ (n + 1) - 1 = n
      BY <1>2, <2>2
    <3>2. RegularUpTo(got', bad)[n + 1] =
            IF Offending(pdu, bad) THEN delivered ELSE Append(delivered, pdu)
      BY <2>2, <2>3, <3>1, RegularStep
    <3> QED
      BY <2>2, <3>2 DEF delivered, Regular
  <2>5. CASE Offending(pdu, bad)
    BY <1>8, <2>4, <2>5 DEF Channel!vars
  <2>6. CASE ~ Offending(pdu, bad)
    <3>1. n + 1 \in 1 .. Len(got')
      BY <1>2, <2>2
    <3>2. m \in 1 .. Len(sent) /\ pdu = sent[m] /\ m \notin failed
      BY <1>1, <1>8, <2>2, <2>6, <3>1 DEF IInv, GotInv
    <3>3. LastOf(delivered) < m
      <4>1. CASE LastOf(delivered) = 0
        BY <3>2, <4>1
      <4>2. CASE LastOf(delivered) # 0
        <5>1. PICK i \in 1 .. n : /\ ~ Offending(got[i], stale \cap lost)
                                  /\ LastOf(delivered) = MsgOf(got[i])
          BY <1>3, <4>2
        <5>2. i \in 1 .. Len(got') /\ i < n + 1 /\ got'[i] = got[i] /\ ~ Offending(got'[i], bad)
          BY <1>2, <1>4, <2>2, <5>1
        <5>3. MsgOf(got'[i]) < MsgOf(got'[n + 1])
          BY <1>1, <2>2, <2>6, <3>1, <5>2 DEF IInv, GotInv
        <5> QED
          BY <2>2, <5>1, <5>2, <5>3
      <4> QED
        BY <4>1, <4>2
    <3>4. LastOf(delivered') = m
      <4>1. delivered \in Seq(Seq(Octet))
        BY LastDelivered
      <4>2. /\ delivered' # <<>> /\ delivered'[Len(delivered')] = pdu
        BY <2>4, <2>6, <4>1
      <4> QED
        BY <4>2 DEF LastOf
    <3>5. Channel!Deliver(m)
      <4>1. m \in LastOf(delivered) + 1 .. Len(sent)
        BY <1>2, <1>3, <3>2, <3>3
      <4>2. LastOf(delivered)' = m
        BY <3>4 DEF LastOf
      <4> QED
        BY <1>8, <2>4, <2>6, <3>2, <4>1, <4>2 DEF Channel!Deliver
    <3> QED
      BY <3>2, <3>5 DEF Channel!Next
  <2> QED
    BY <2>5, <2>6
<1>9. CASE UNCHANGED <<sent, failed, got>>
  BY <1>5, <1>9 DEF Channel!vars, LastOf
<1> QED
  BY <1>6, <1>7, <1>8, <1>9 DEF HistoryStep

\* uds_tp_send and uds_tp_recv together are a PDU channel, whatever frames are
\* lost, writes fail, timers run out or foreign frames arrive: each PDU that
\* uds_tp_recv returns was passed to uds_tp_send, is whole, comes in order and
\* at most once, and is not one whose call failed, except the PDUs with bytes
\* of a call that took stale flow control and lost its first frame.
THEOREM TransportIsChannel == Spec => ImplementsChannel
<1>1. Init => Channel!Init
  <2> SUFFICES ASSUME Init PROVE Channel!Init
    OBVIOUS
  <2>1. got = <<>> /\ Len(got) = 0 /\ sent = <<>> /\ failed = {}
    BY DEF Init
  <2>2. delivered = <<>>
    BY <2>1, RegularStep DEF delivered, Regular
  <2> QED
    BY <2>1, <2>2 DEF Channel!Init, LastOf
<1>2. IInv /\ [Next]_vars => [Channel!Next]_(Channel!vars)
  BY NextInv, StepKinds, StepKeepsRecords, ChannelStep
<1> QED
  BY <1>1, <1>2, Inductive, PTL DEF Spec, ImplementsChannel, Channel!Spec

----------------------------------------------------------------------------
(***************************************************************************)
(* Theorems about IsoTp on a clean bus: the two sides agree on when flow   *)
(* control is sent and awaited, so none is left over, no call fails that   *)
(* need not, and every PDU that fits arrives.                              *)
(*                                                                         *)
(* CleanInv says how far each side is: what the receiver reads next is     *)
(* what it expects, the frames in its queue follow each other without a    *)
(* gap, the sender goes on where they end, and the two block counters      *)
(* differ by the frames under way.                                         *)
(***************************************************************************)

\* The PDU being received is the one being sent.
Together == rx.pc = "cf" /\ MsgOf(rx.buf) = Len(sent) /\ tx.pc \in {"fc", "cf"}

\* The frame g comes right after the frame f.
Follows(f, g) == Start(g) = Start(f) + CFSize(fd) /\ g.sn = (f.sn + 1) % SNMod

\* The sender goes on where the frames under way end.
SenderNext ==
  /\ toRx = <<>> => tx.offset = Len(rx.buf) /\ tx.sn = rx.expected_sn
  /\ toRx # <<>> => LET f == toRx[Len(toRx)] IN
                    tx.offset = Start(f) + CFSize(fd) /\ tx.sn = (f.sn + 1) % SNMod

NothingStale == stale = {} /\ lost = {}

\* The frames under way are what the receiver expects.
ChainInv ==
  /\ rx.pc = "first" => \A p \in 1 .. Len(toRx) : toRx[p].type # "CF"
  /\ rx.pc = "cf" /\ toRx # <<>> =>
       /\ toRx[1].type = "CF"
       /\ Start(toRx[1]) = Len(rx.buf)
       /\ toRx[1].sn = rx.expected_sn
  /\ \A p \in 1 .. Len(toRx) - 1 :
       toRx[p].type = "CF" /\ toRx[p + 1].type = "CF" => Follows(toRx[p], toRx[p + 1])
  /\ \A p \in 1 .. Len(toRx) : toRx[p].type = "FF" =>
       p = Len(toRx) /\ Msg(toRx[p]) = Len(sent) /\ tx.pc = "fc"

\* The sender sends a block, which is not used up.
BlockInv ==
  tx.pc = "cf" =>
    /\ toTx = <<>>
    /\ Together
    /\ SenderNext
    /\ tx.bs = BlockSize
    /\ tx.bs_sent = rx.bs_count + Len(toRx)
    /\ BlockSize > 0 => tx.bs_sent < BlockSize

\* The sender waits for flow control: its first frame is under way, or was
\* dropped, or flow control is, or the rest of a block is.
WaitInv ==
  tx.pc = "fc" =>
    \/ /\ toTx = <<>>
       /\ toRx # <<>>
       /\ toRx[Len(toRx)].type = "FF" /\ Msg(toRx[Len(toRx)]) = Len(sent)
       /\ tx.offset = FFSize(fd, Len(data)) /\ tx.sn = 1
    \/ /\ toTx = <<>> /\ toRx = <<>> /\ rx.pc = "first"
       /\ Len(data) > BufSize[fd]
    \/ /\ Together
       /\ SenderNext
       /\ \/ /\ toTx = <<uds_tp_encode_fc("CTS", BlockSize, Len(sent))>>
             /\ toRx = <<>>
             /\ rx.bs_count = 0
          \/ /\ toTx = <<>>
             /\ toRx # <<>>
             /\ BlockSize > 0
             /\ rx.bs_count + Len(toRx) = BlockSize

\* Flow control comes only to a sender that waits for it.
QuietInv == tx.pc \in {"idle", "first"} => toTx = <<>>

\* When the sender is done with the PDU being received, the last frame of it
\* is under way and the block lasts until then.
TailInv ==
  rx.pc = "cf" /\ ~ Together =>
    \E k \in 1 .. Len(toRx) :
      /\ toRx[k].type = "CF" /\ Msg(toRx[k]) = MsgOf(rx.buf)
      /\ Start(toRx[k]) + CFSize(fd) >= rx.total_len
      /\ BlockSize > 0 => rx.bs_count + k <= BlockSize

\* The PDU can be sent and received.
Fits(mode, pdu) == Len(pdu) <= BufSize[mode] /\ (mode \/ Len(pdu) <= FFMaxLen)

\* No PDU that fits is given up, and none is lost.
NothingLost ==
  \A m \in 1 .. Len(sent) : Fits(fd, sent[m]) =>
    /\ m \notin failed
    /\ \/ \E i \in 1 .. Len(got) : got[i] = sent[m]
       \/ \E p \in 1 .. Len(toRx) : Msg(toRx[p]) = m
       \/ rx.pc = "cf" /\ MsgOf(rx.buf) = m
       \/ m = Len(sent) /\ tx.pc # "idle"

Clean == /\ NothingStale /\ ChainInv /\ BlockInv /\ WaitInv /\ QuietInv /\ TailInv
         /\ NothingLost

CleanInv == bus = "clean" => Clean

----------------------------------------------------------------------------
\* Consecutive frames are under way for the reception only, in front of other
\* frames, and nothing but them while both sides are at the same PDU.
LEMMA CleanQueue ==
  ASSUME IInv, Clean
  PROVE  /\ \A p \in 1 .. Len(toRx) : toRx[p].type = "CF" =>
              /\ rx.pc = "cf" /\ Msg(toRx[p]) = MsgOf(rx.buf)
              /\ \A q \in 1 .. p - 1 : toRx[q].type = "CF"
         /\ Together => \A p \in 1 .. Len(toRx) : toRx[p].type = "CF" /\ Msg(toRx[p]) = Len(sent)
         /\ rx.pc = "cf" /\ ~ Together => toRx # <<>>
<1>1. stale = {} /\ lost = {}
  BY DEF Clean, NothingStale
<1>2. rx.pc \in {"first", "cf"}
  BY DEF IInv, TypeInv, RxLocals
<1>3. ASSUME NEW p \in 1 .. Len(toRx), toRx[p].type = "CF"
      PROVE  /\ rx.pc = "cf" /\ Msg(toRx[p]) = MsgOf(rx.buf)
             /\ \A q \in 1 .. p - 1 : toRx[q].type = "CF"
  <2>1. rx.pc = "cf"
    BY <1>2, <1>3 DEF Clean, ChainInv
  <2> QED
    BY <1>1, <1>3, <2>1 DEF IInv, StartedInv
<1>4. ASSUME Together, NEW p \in 1 .. Len(toRx)
      PROVE  toRx[p].type = "CF" /\ Msg(toRx[p]) = Len(sent)
  <2>1. \A q \in 1 .. Len(toRx) : Msg(toRx[q]) = Len(sent) => toRx[q].type = "CF"
    BY <1>4 DEF IInv, ReceiverInv, Together
  <2> QED
    BY <1>1, <1>4, <2>1 DEF IInv, StartedInv, Together
<1>5. rx.pc = "cf" /\ ~ Together => toRx # <<>>
  <2>1. toRx = <<>> => ~ \E k \in 1 .. Len(toRx) : TRUE
    OBVIOUS
  <2> QED
    BY <2>1 DEF Clean, TailInv
<1> QED
  BY <1>3, <1>4, <1>5

\* A call starts.
LEMMA CleanCall ==
  ASSUME IInv, Clean, NEW len \in Lengths[bus][fd], Call(len)
  PROVE  Clean'
<1> USE DEF medium, rxSide
<1> DEFINE S == Len(sent)
           n == Len(toRx)
<1>1. /\ tx.pc = "idle" /\ tx'.pc = "first"
      /\ UNCHANGED <<failed, stale, rx, got, toRx, toTx, lost, bus, fd>>
  BY DEF Call, IdleTx
<1>2. /\ S \in Nat /\ Len(sent') = S + 1
      /\ \A m \in 1 .. S : sent'[m] = sent[m]
      /\ \A m \in 1 .. S + 1 : m \in 1 .. S \/ m = S + 1
      /\ failed \subseteq 1 .. S
  BY DEF Call, IInv, TypeInv
<1> HIDE DEF S
<1>3. NothingStale' /\ QuietInv' /\ BlockInv' /\ WaitInv'
  BY <1>1 DEF Clean, NothingStale, QuietInv, BlockInv, WaitInv
<1>4. ChainInv'
  BY <1>1 DEF Clean, ChainInv, Follows
<1>5. TailInv'
  <2>1. ~ Together /\ ~ Together'
    BY <1>1 DEF Together
  <2> QED
    BY <1>1, <2>1 DEF Clean, TailInv
<1>6. NothingLost'
  <2>1. ASSUME NEW m \in 1 .. S, Fits(fd, sent[m])
        PROVE  /\ m \notin failed
               /\ \/ \E i \in 1 .. Len(got) : got[i] = sent[m]
                  \/ \E p \in 1 .. Len(toRx) : Msg(toRx[p]) = m
                  \/ rx.pc = "cf" /\ MsgOf(rx.buf) = m
    BY <1>1, <2>1 DEF Clean, NothingLost, S
  <2>2. S + 1 \notin failed
    BY <1>2
  <2> QED
    BY <1>1, <1>2, <2>1, <2>2 DEF NothingLost, S
<1> QED
  BY <1>3, <1>4, <1>5, <1>6 DEF Clean

\* A frame is appended to the queue by a sender that is not in a block.
LEMMA ChainAppended ==
  ASSUME IInv, Clean, tx.pc = "first", NEW f \in DataFrames, f.type # "CF",
         toRx' = Append(toRx, f), UNCHANGED <<rx, fd, sent>>,
         f.type = "FF" => Msg(f) = Len(sent) /\ tx'.pc = "fc"
  PROVE  ChainInv'
<1> DEFINE n == Len(toRx)
<1>1. /\ n \in Nat /\ Len(toRx') = n + 1 /\ toRx'[n + 1] = f
      /\ \A p \in 1 .. n : toRx'[p] = toRx[p]
      /\ \A p \in 1 .. n + 1 : p \in 1 .. n \/ p = n + 1
      /\ toRx \in Seq(DataFrames)
  BY AppendFacts DEF IInv, TypeInv
<1>2. /\ \A p \in 1 .. n : toRx[p].type # "FF"
      /\ ~ Together
  BY DEF Clean, ChainInv, Together
<1>3. rx.pc = "cf" => 1 \in 1 .. n /\ toRx # <<>>
  BY <1>1, <1>2, CleanQueue
<1> HIDE DEF n
<1>4. rx.pc = "first" => \A p \in 1 .. n + 1 : toRx'[p].type # "CF"
  BY <1>1 DEF Clean, ChainInv, n
<1>5. rx.pc = "cf" => /\ toRx'[1].type = "CF" /\ Start(toRx'[1]) = Len(rx.buf)
                      /\ toRx'[1].sn = rx.expected_sn
  BY <1>1, <1>3 DEF Clean, ChainInv
<1>6. ASSUME NEW p \in 1 .. n, toRx'[p].type = "CF", toRx'[p + 1].type = "CF"
      PROVE  Follows(toRx'[p], toRx'[p + 1])
  <2>1. p # n
    BY <1>1, <1>6
  <2>2. p \in 1 .. n - 1 /\ p + 1 \in 1 .. n
    BY <1>1, <2>1
  <2> QED
    BY <1>1, <1>6, <2>2 DEF Clean, ChainInv, n
<1>7. ASSUME NEW p \in 1 .. n + 1, toRx'[p].type = "FF"
      PROVE  p = n + 1 /\ Msg(toRx'[p]) = Len(sent) /\ tx'.pc = "fc"
  BY <1>1, <1>2, <1>7
<1>8. (n + 1) - 1 = n
  BY <1>1
<1> QED
  BY <1>1, <1>4, <1>5, <1>6, <1>7, <1>8 DEF ChainInv, Follows

\* What is under way stays so when a frame is appended.
LEMMA TailAppended ==
  ASSUME IInv, Clean, ~ Together, ~ Together', NEW f \in DataFrames,
         toRx' = Append(toRx, f), UNCHANGED <<rx, fd>>
  PROVE  TailInv'
<1>1. /\ Len(toRx) \in Nat /\ Len(toRx') = Len(toRx) + 1
      /\ \A p \in 1 .. Len(toRx) : toRx'[p] = toRx[p] /\ p \in 1 .. Len(toRx')
  BY AppendFacts DEF IInv, TypeInv
<1> QED
  BY <1>1 DEF Clean, TailInv

\* The first frame of a call goes out, or the call refuses the PDU.
LEMMA CleanSendFirst ==
  ASSUME IInv, Clean, SendFirst
  PROVE  Clean'
<1> USE DEF medium, rxSide
<1> DEFINE S == Len(sent)
           n == Len(toRx)
<1>1. /\ tx.pc = "first" /\ UNCHANGED <<sent, stale, rx, got, toTx, lost, bus, fd>>
  BY DEF SendFirst, SendReturnsOk, SendReturnsError
<1>2. /\ S \in Nat \ {0} /\ S \in 1 .. S /\ IsPdu(S, data) /\ fd \in BOOLEAN
      /\ data = sent[S] /\ Len(data) \in Nat \ {0} /\ S \notin failed
  BY <1>1, Sending DEF data
<1>3. /\ ~ Together /\ toTx = <<>>
      /\ rx.pc = "cf" => MsgOf(rx.buf) < S
  BY <1>1 DEF Clean, Together, QuietInv, IInv, SenderInv
<1>4. \A m \in 1 .. S : Fits(fd, sent[m]) =>
        /\ m \notin failed
        /\ \/ \E i \in 1 .. Len(got) : got[i] = sent[m]
           \/ \E p \in 1 .. n : Msg(toRx[p]) = m
           \/ rx.pc = "cf" /\ MsgOf(rx.buf) = m
           \/ m = S
  BY DEF Clean, NothingLost
<1>5. NothingStale'
  BY <1>1 DEF Clean, NothingStale
<1>6. CASE /\ Len(data) <= SFLimit
           /\ toRx' = Append(toRx, EncodeSF(data))
           /\ SendReturnsOk
  <2> DEFINE f == EncodeSF(data)
  <2>1. tx'.pc = "idle" /\ failed' = failed
    BY <1>6 DEF SendReturnsOk, IdleTx
  <2>2. f \in DataFrames /\ f.type = "SF" /\ Msg(f) = S
    <3>1. f = SingleFrame(fd, sent[S]) /\ Len(sent[S]) <= SFSize(fd)
      BY <1>6 DEF EncodeSF, SingleFrame, data, SFLimit, SFSize
    <3> QED
      BY <1>2, <3>1, SingleFrameFacts
  <2> HIDE DEF f
  <2>3. /\ n \in Nat /\ Len(toRx') = n + 1 /\ toRx'[n + 1] = f
        /\ \A p \in 1 .. n : toRx'[p] = toRx[p] /\ p \in 1 .. n + 1
    BY <1>6, <2>2, AppendFacts DEF f, IInv, TypeInv
  <2>4. ~ Together'
    BY <2>1 DEF Together
  <2>5. ChainInv' /\ TailInv'
    BY <1>1, <1>3, <1>6, <2>2, <2>4, ChainAppended, TailAppended DEF f
  <2>6. BlockInv' /\ WaitInv' /\ QuietInv'
    BY <1>1, <1>3, <2>1 DEF BlockInv, WaitInv, QuietInv
  <2>7. NothingLost'
    <3>1. n + 1 \in 1 .. n + 1
      BY <2>3
    <3> QED
      BY <1>1, <1>4, <2>1, <2>2, <2>3, <3>1 DEF NothingLost
  <2> QED
    BY <1>5, <2>5, <2>6, <2>7 DEF Clean
<1>7. CASE ~ fd /\ Len(data) > FFMaxLen /\ SendReturnsError /\ UNCHANGED toRx
  <2>1. tx'.pc = "idle" /\ failed' = failed \cup {S} /\ toRx' = toRx
    BY <1>7 DEF SendReturnsError, IdleTx
  <2>2. ~ Together'
    BY <2>1 DEF Together
  <2>3. ChainInv'
    BY <1>1, <2>1 DEF Clean, ChainInv, Follows
  <2>4. TailInv'
    BY <1>1, <1>3, <2>1, <2>2 DEF Clean, TailInv
  <2>5. BlockInv' /\ WaitInv' /\ QuietInv'
    BY <1>1, <1>3, <2>1 DEF BlockInv, WaitInv, QuietInv
  <2>6. ~ Fits(fd, sent[S])
    BY <1>2, <1>7, TransportAssumption DEF Fits
  <2>7. NothingLost'
    BY <1>1, <1>4, <2>1, <2>6 DEF NothingLost
  <2> QED
    BY <1>5, <2>3, <2>4, <2>5, <2>7 DEF Clean
<1>8. CASE /\ Len(data) > SFLimit /\ (fd \/ Len(data) <= FFMaxLen)
           /\ toRx' = Append(toRx, EncodeFF(data))
           /\ tx' = [tx EXCEPT !.pc = "fc", !.offset = ff_embed, !.sn = 1]
           /\ UNCHANGED <<sent, failed, stale>>
  <2> DEFINE f == EncodeFF(data)
  <2>1. tx'.pc = "fc" /\ tx'.offset = FFSize(fd, Len(data)) /\ tx'.sn = 1 /\ failed' = failed
    <3>1. ff_embed = FFSize(fd, Len(data))
      BY DEF ff_embed, FFSize
    <3>2. tx \in TxLocals
      BY DEF IInv, TypeInv
    <3> QED
      BY <1>8, <3>1, <3>2 DEF TxLocals
  <2>2. f \in DataFrames /\ f.type = "FF" /\ Msg(f) = S
    <3>1. f = FirstFrame(fd, sent[S])
      BY DEF EncodeFF, FirstFrame, data
    <3>2. Segmented(fd, Len(sent[S]))
      BY <1>2, <1>8 DEF Segmented, SFLimit, SFSize
    <3> QED
      BY <1>2, <3>1, <3>2, FirstFrameFacts
  <2> HIDE DEF f
  <2>3. /\ n \in Nat /\ Len(toRx') = n + 1 /\ toRx'[n + 1] = f /\ toRx' # <<>>
        /\ \A p \in 1 .. n : toRx'[p] = toRx[p] /\ p \in 1 .. n + 1
    <3>1. /\ n \in Nat /\ Len(toRx') = n + 1 /\ toRx'[n + 1] = f
          /\ \A p \in 1 .. n : toRx'[p] = toRx[p] /\ p \in 1 .. n + 1
      BY <1>8, <2>2, AppendFacts DEF f, IInv, TypeInv
    <3>2. toRx' # <<>>
      BY <3>1
    <3> QED
      BY <3>1, <3>2
  <2>4. ~ Together'
    BY <1>1, <1>2, <1>3 DEF Together
  <2>5. ChainInv' /\ TailInv'
    BY <1>1, <1>3, <1>8, <2>1, <2>2, <2>4, ChainAppended, TailAppended DEF f
  <2>6. BlockInv' /\ WaitInv' /\ QuietInv'
    BY <1>1, <1>2, <1>3, <2>1, <2>2, <2>3 DEF BlockInv, WaitInv, QuietInv, data
  <2>7. NothingLost'
    BY <1>1, <1>4, <2>1, <2>3 DEF NothingLost
  <2> QED
    BY <1>5, <2>5, <2>6, <2>7 DEF Clean
<1> QED
  BY <1>6, <1>7, <1>8 DEF SendFirst

\* The sender waits and flow control is there: the receiver has sent it for
\* this PDU and waits for the next block.
LEMMA FlowIsOwn ==
  ASSUME IInv, Clean, tx.pc = "fc", toTx # <<>>
  PROVE  /\ Together /\ SenderNext /\ toRx = <<>> /\ rx.bs_count = 0
         /\ toTx = <<uds_tp_encode_fc("CTS", BlockSize, Len(sent))>>
BY DEF Clean, WaitInv

\* The sender takes flow control.
LEMMA CleanRecvFlow ==
  ASSUME IInv, Clean, RecvFlow
  PROVE  Clean'
<1> USE DEF medium, rxSide
<1> DEFINE S == Len(sent)
           fc == uds_tp_encode_fc("CTS", BlockSize, S)
<1>1. /\ tx.pc = "fc" /\ toTx # <<>> /\ WaitForFlow(Head(toTx)) /\ toTx' = Tail(toTx)
      /\ UNCHANGED <<rx, got, toRx, lost, bus, fd>>
  BY DEF RecvFlow
<1>2. Together /\ SenderNext /\ toRx = <<>> /\ rx.bs_count = 0 /\ toTx = <<fc>>
  BY <1>1, FlowIsOwn
<1>3. fc.type = "FC" /\ fc.fs = "CTS" /\ fc.msg = S /\ fc.bs = BlockSize
  BY DEF uds_tp_encode_fc
<1> HIDE DEF fc
<1>4. Head(toTx) = fc /\ toTx' = <<>>
  BY <1>1, <1>2
<1>5. StartBlock(fc)
  BY <1>1, <1>3, <1>4 DEF WaitForFlow
<1>6. /\ tx'.pc = "cf" /\ tx'.bs = BlockSize /\ tx'.bs_sent = 0
      /\ tx'.offset = tx.offset /\ tx'.sn = tx.sn
      /\ UNCHANGED <<sent, failed, stale>>
  <2>1. tx \in TxLocals
    BY DEF IInv, TypeInv
  <2> QED
    BY <1>3, <1>5, <2>1 DEF StartBlock, TxLocals, S
<1>7. Together' /\ SenderNext'
  BY <1>1, <1>2, <1>6 DEF Together, SenderNext
<1>8. NothingStale' /\ WaitInv' /\ QuietInv'
  BY <1>1, <1>6 DEF Clean, NothingStale, WaitInv, QuietInv
<1>9. BlockInv'
  <2>1. Len(toRx') = 0 /\ BlockSize \in Nat
    BY <1>1, <1>2, TransportAssumption
  <2> QED
    BY <1>1, <1>2, <1>4, <1>6, <1>7, <2>1 DEF BlockInv
<1>10. ChainInv'
  <2>1. Len(toRx') = 0
    BY <1>1, <1>2
  <2> QED
    BY <1>1, <1>2, <2>1 DEF ChainInv
<1>11. TailInv'
  BY <1>7 DEF TailInv
<1>12. NothingLost'
  BY <1>1, <1>6 DEF Clean, NothingLost
<1> QED
  BY <1>8, <1>9, <1>10, <1>11, <1>12 DEF Clean

\* The sender gives up only on a PDU that the receiver has dropped because it
\* does not fit into its buffer.
LEMMA CleanSendTimeout ==
  ASSUME IInv, Clean, bus = "clean", SendTimeout
  PROVE  Clean'
<1> USE DEF medium, rxSide
<1> DEFINE S == Len(sent)
<1>1. /\ tx.pc = "fc" /\ tx'.pc = "idle" /\ toRx = <<>> /\ rx.pc = "first" /\ toTx = <<>>
      /\ failed' = failed \cup {S}
      /\ UNCHANGED <<sent, stale, rx, got, toRx, toTx, lost, bus, fd>>
  BY DEF SendTimeout, NoFlowComing, SendTimesOut, SendReturnsError, IdleTx
<1>2. Len(data) > BufSize[fd]
  BY <1>1 DEF Clean, WaitInv, Together
<1>3. ~ Fits(fd, sent[S])
  <2>1. fd \in BOOLEAN /\ Len(data) \in Nat
    BY <1>1, Sending
  <2> QED
    BY <1>2, <2>1, TransportAssumption DEF Fits, data
<1>4. NothingStale' /\ BlockInv' /\ WaitInv' /\ QuietInv' /\ TailInv'
  BY <1>1 DEF Clean, NothingStale, BlockInv, WaitInv, QuietInv, TailInv
<1>5. ChainInv'
  BY <1>1 DEF ChainInv
<1>6. NothingLost'
  BY <1>1, <1>3 DEF Clean, NothingLost
<1> QED
  BY <1>4, <1>5, <1>6 DEF Clean

\* Where a call is after a consecutive frame.
LEMMA AfterFrame ==
  ASSUME IInv, SendCF
  PROVE  LET f == toRx'[Len(toRx) + 1] IN
         /\ tx.pc = "cf" /\ f \in DataFrames /\ toRx' = Append(toRx, f)
         /\ f.type = "CF" /\ Msg(f) = Len(sent) /\ Start(f) = tx.offset /\ f.sn = tx.sn
         /\ \/ tx'.pc = "idle" /\ tx.offset + CFSize(fd) >= Len(data)
            \/ /\ tx'.pc = IF tx.bs > 0 /\ tx.bs_sent + 1 >= tx.bs THEN "fc" ELSE "cf"
               /\ tx'.offset = tx.offset + CFSize(fd) /\ tx'.sn = (tx.sn + 1) % SNMod
               /\ tx'.bs = tx.bs /\ tx'.bs_sent = tx.bs_sent + 1
         /\ UNCHANGED <<sent, failed, stale, rx, got, toTx, lost, bus, fd>>
<1> USE DEF medium, rxSide
<1> DEFINE S == Len(sent)
           c == CFSize(fd)
           g == ConsecutiveFrame(fd, data, tx.offset, tx.sn)
           off == tx.offset + Smaller(Len(data) - tx.offset, c)
           bs_sent == tx.bs_sent + 1
<1>1. /\ fd \in BOOLEAN /\ S \in Nat \ {0} /\ S \in 1 .. S /\ IsPdu(S, data)
      /\ tx \in TxLocals /\ tx.pc = "cf"
      /\ data = sent[S] /\ Len(data) \in Nat \ {0}
  BY Sending DEF SendCF, data
<1>2. /\ Segmented(fd, Len(data)) /\ OnGrid(fd, Len(data), tx.offset)
      /\ tx.offset < Len(data) /\ tx.offset \in Nat /\ tx.sn \in 0 .. SNMod - 1
  BY <1>1 DEF IInv, SenderInv, TxLocals
<1>3. c \in Nat \ {0}
  BY <1>1, Sizes
<1>4. /\ g \in DataFrames /\ g.type = "CF" /\ Msg(g) = S /\ Start(g) = tx.offset
      /\ g.sn = tx.sn
  BY <1>1, <1>2, ConsecutiveFrameFacts
<1>5. CFLimit = c
  BY DEF CFLimit, CFSize
<1>6. toRx' = Append(toRx, g)
  BY <1>5 DEF SendCF, EncodeCF, ConsecutiveFrame, Piece
<1>7. \/ AfterCF(off, bs_sent) = "idle" /\ SendReturnsOk
      \/ /\ AfterCF(off, bs_sent) # "idle"
         /\ tx' = [tx EXCEPT !.pc = AfterCF(off, bs_sent), !.offset = off,
                             !.sn = (@ + 1) % SNMod, !.bs_sent = bs_sent]
         /\ UNCHANGED <<sent, failed, stale>>
  BY <1>5 DEF SendCF
<1>8. UNCHANGED <<sent, failed, stale, rx, got, toTx, lost, bus, fd>>
  BY <1>7 DEF SendCF, SendReturnsOk
<1>9. /\ off >= Len(data) => tx.offset + c >= Len(data)
      /\ off < Len(data) => off = tx.offset + c
      /\ off \in Nat
  BY <1>1, <1>2, <1>3 DEF Smaller
<1> HIDE DEF g, off, c, bs_sent
<1>10. toRx'[Len(toRx) + 1] = g
  BY <1>4, <1>6, AppendFacts DEF IInv, TypeInv
<1>11. CASE AfterCF(off, bs_sent) = "idle" /\ SendReturnsOk
  <2>1. tx'.pc = "idle" /\ off >= Len(data)
    BY <1>11 DEF AfterCF, SendReturnsOk, IdleTx
  <2> QED
    BY <1>1, <1>4, <1>6, <1>8, <1>9, <1>10, <2>1 DEF c
<1>12. CASE /\ AfterCF(off, bs_sent) # "idle"
            /\ tx' = [tx EXCEPT !.pc = AfterCF(off, bs_sent), !.offset = off,
                                !.sn = (@ + 1) % SNMod, !.bs_sent = bs_sent]
  <2>1. off < Len(data) /\ off = tx.offset + c
    BY <1>1, <1>9, <1>12 DEF AfterCF
  <2>2. AfterCF(off, bs_sent) = IF tx.bs > 0 /\ bs_sent >= tx.bs THEN "fc" ELSE "cf"
    BY <1>1, <1>9, <2>1 DEF AfterCF
  <2>3. /\ tx'.pc = IF tx.bs > 0 /\ bs_sent >= tx.bs THEN "fc" ELSE "cf"
        /\ tx'.offset = tx.offset + c /\ tx'.sn = (tx.sn + 1) % SNMod
        /\ tx'.bs = tx.bs /\ tx'.bs_sent = bs_sent
    BY <1>1, <1>12, <2>1, <2>2 DEF TxLocals
  <2> QED
    BY <1>1, <1>4, <1>6, <1>8, <1>10, <2>3 DEF c, bs_sent
<1> QED
  BY <1>7, <1>11, <1>12

\* A consecutive frame goes out: the last of its PDU, the last of a block that
\* the receiver will answer, or one within the block.
LEMMA CleanSendCF ==
  ASSUME IInv, Clean, SendCF
  PROVE  Clean'
<1> DEFINE S == Len(sent)
           n == Len(toRx)
           f == toRx'[n + 1]
           c == CFSize(fd)
<1>1. /\ tx.pc = "cf" /\ f \in DataFrames /\ toRx' = Append(toRx, f)
      /\ f.type = "CF" /\ Msg(f) = S /\ Start(f) = tx.offset /\ f.sn = tx.sn
      /\ \/ tx'.pc = "idle" /\ tx.offset + c >= Len(data)
         \/ /\ tx'.pc = IF tx.bs > 0 /\ tx.bs_sent + 1 >= tx.bs THEN "fc" ELSE "cf"
            /\ tx'.offset = tx.offset + c /\ tx'.sn = (tx.sn + 1) % SNMod
            /\ tx'.bs = tx.bs /\ tx'.bs_sent = tx.bs_sent + 1
      /\ UNCHANGED <<sent, failed, stale, rx, got, toTx, lost, bus, fd>>
  BY AfterFrame
<1>2. /\ toTx = <<>> /\ Together /\ SenderNext /\ tx.bs = BlockSize
      /\ tx.bs_sent = rx.bs_count + n
      /\ BlockSize > 0 => tx.bs_sent < BlockSize
  BY <1>1 DEF Clean, BlockInv
<1>3. /\ n \in Nat /\ Len(toRx') = n + 1 /\ n + 1 \in 1 .. n + 1
      /\ \A p \in 1 .. n : toRx'[p] = toRx[p] /\ p \in 1 .. n + 1
      /\ \A p \in 1 .. n + 1 : p \in 1 .. n \/ p = n + 1
  <2>1. toRx \in Seq(DataFrames)
    BY DEF IInv, TypeInv
  <2> HIDE DEF f
  <2>2. /\ n \in Nat /\ Len(toRx') = n + 1
        /\ \A p \in 1 .. n : toRx'[p] = toRx[p]
    BY <1>1, <2>1, AppendFacts
  <2> QED
    BY <2>2
<1>4. toRx' # <<>> /\ (n = 0 => toRx = <<>>) /\ (n # 0 => toRx # <<>>)
  BY <1>3 DEF IInv, TypeInv
<1>5. /\ rx.pc = "cf" /\ MsgOf(rx.buf) = S
      /\ \A p \in 1 .. n : toRx[p].type = "CF"
  BY <1>2, CleanQueue DEF Together
<1>6. BlockSize \in Nat /\ rx.bs_count \in Nat /\ tx.bs_sent \in Nat
  BY TransportAssumption DEF IInv, TypeInv, RxLocals, TxLocals
<1> HIDE DEF f, n, c, S
<1>7. NothingStale' /\ QuietInv'
  BY <1>1, <1>2 DEF Clean, NothingStale, QuietInv
<1>8. ChainInv'
  <2>1. /\ toRx'[1].type = "CF" /\ Start(toRx'[1]) = Len(rx.buf)
        /\ toRx'[1].sn = rx.expected_sn
    <3>1. CASE n = 0
      BY <1>1, <1>2, <1>4, <3>1 DEF SenderNext, f
    <3>2. CASE n # 0
      <4>1. 1 \in 1 .. n
        BY <1>3, <3>2
      <4> QED
        BY <1>3, <1>4, <1>5, <3>2, <4>1 DEF Clean, ChainInv
    <3> QED
      BY <3>1, <3>2
  <2>2. ASSUME NEW p \in 1 .. n
        PROVE  Follows(toRx'[p], toRx'[p + 1])
    <3>1. CASE p = n
      <4>1. n # 0
        BY <1>3, <3>1
      <4>2. tx.offset = Start(toRx[n]) + CFSize(fd) /\ tx.sn = (toRx[n].sn + 1) % SNMod
        BY <1>2, <1>4, <4>1 DEF SenderNext, n
      <4> QED
        BY <1>1, <1>3, <3>1, <4>2 DEF Follows, f
    <3>2. CASE p # n
      <4>1. p \in 1 .. n - 1 /\ p + 1 \in 1 .. n
        BY <1>3, <3>2
      <4> QED
        BY <1>3, <1>5, <4>1 DEF Clean, ChainInv, n
    <3> QED
      BY <3>1, <3>2
  <2>3. \A p \in 1 .. n + 1 : toRx'[p].type = "CF"
    BY <1>1, <1>3, <1>5 DEF f
  <2>4. (n + 1) - 1 = n
    BY <1>3
  <2> QED
    BY <1>1, <1>3, <1>5, <2>1, <2>2, <2>3, <2>4 DEF ChainInv, Follows
<1>9. tx'.pc # "idle" => Together' /\ SenderNext'
  BY <1>1, <1>3, <1>4, <1>5 DEF Together, SenderNext, f, c, S
<1>10. BlockInv'
  <2>1. tx'.pc = "cf" => /\ BlockSize > 0 => tx'.bs_sent < BlockSize
                         /\ tx'.bs_sent = rx.bs_count + (n + 1)
    BY <1>1, <1>2, <1>3, <1>6
  <2> QED
    BY <1>1, <1>2, <1>3, <1>9, <2>1 DEF BlockInv
<1>11. WaitInv'
  <2>1. tx'.pc = "fc" => BlockSize > 0 /\ rx.bs_count + (n + 1) = BlockSize
    BY <1>1, <1>2, <1>3, <1>6
  <2> QED
    BY <1>1, <1>2, <1>3, <1>4, <1>9, <2>1 DEF WaitInv
<1>12. TailInv'
  <2>1. CASE tx'.pc # "idle"
    BY <1>9, <2>1 DEF TailInv
  <2>2. CASE tx'.pc = "idle"
    <3>1. Start(f) + CFSize(fd) >= rx.total_len
      <4>1. rx.total_len = Len(data)
        BY <1>5 DEF IInv, ReceiverInv, data, S
      <4> QED
        BY <1>1, <2>2, <4>1 DEF c
    <3>2. BlockSize > 0 => rx.bs_count + (n + 1) <= BlockSize
      BY <1>2, <1>3, <1>6
    <3> QED
      BY <1>1, <1>3, <1>5, <3>1, <3>2 DEF TailInv, f
  <2> QED
    BY <2>1, <2>2
<1>13. NothingLost'
  <2>1. \A m \in 1 .. S : m = S => Msg(toRx'[n + 1]) = m
    BY <1>1 DEF f
  <2> QED
    BY <1>1, <1>3, <2>1 DEF Clean, NothingLost, S, n
<1> QED
  BY <1>7, <1>8, <1>10, <1>11, <1>12, <1>13 DEF Clean

\* A single frame whose PDU fits into the buffer is read.
LEMMA FittingSingleRead ==
  ASSUME TypeInv, SentInv, NEW frame, FrameOk(fd, sent, frame), frame.type = "SF",
         Len(sent[Msg(frame)]) <= BufSize[fd]
  PROVE  DecodeSF(frame) = <<sent[Msg(frame)]>>
<1> DEFINE pdu == sent[Msg(frame)]
<1>1. /\ fd \in BOOLEAN
      /\ frame = SingleFrame(fd, pdu)
      /\ Len(pdu) <= SFSize(fd)
      /\ Msg(frame) \in 1 .. Len(sent)
  BY TransportAssumption DEF FrameOk, TypeInv
<1>2. pdu \in Seq(Octet) /\ Len(pdu) \in Nat \ {0} /\ Len(pdu) <= BufSize[fd]
  BY <1>1 DEF TypeInv, SentInv
<1> HIDE DEF pdu
<1>3. SubSeq(pdu, 1, Len(pdu)) = pdu
  BY <1>2
<1>4. CASE fd
  <2>1. /\ frame.bytes = pdu
        /\ frame.dl = IF Len(pdu) <= SFMax THEN Len(pdu) ELSE 0
        /\ frame.ext = IF Len(pdu) <= SFMax THEN 0 ELSE Len(pdu)
    BY <1>1, <1>4 DEF SingleFrame, uds_tp_encode_sf_fd
  <2>2. /\ Len(pdu) <= SFMax => frame.dl # 0 /\ frame.dl = Len(pdu) /\ Len(pdu) \in 1 .. SFMax
        /\ Len(pdu) > SFMax => /\ frame.dl = 0 /\ frame.ext = Len(pdu)
                               /\ Len(pdu) \in SFMax + 1 .. FdSFMax
    <3>1. Len(pdu) <= FdSFMax
      BY <1>1, <1>4 DEF SFSize
    <3>2. SFMax \in Nat /\ FdSFMax \in Nat
      BY TransportAssumption
    <3>3. /\ Len(pdu) <= SFMax => Len(pdu) \in 1 .. SFMax /\ Len(pdu) # 0
          /\ Len(pdu) > SFMax => ~ Len(pdu) <= SFMax /\ Len(pdu) \in SFMax + 1 .. FdSFMax
      BY <1>2, <3>1, <3>2
    <3> QED
      BY <2>1, <3>3
  <2>3. DecodeSF(frame) = <<SubSeq(frame.bytes, 1, Len(pdu))>>
    <3>1. SFMax \in Nat
      BY TransportAssumption
    <3>2. CASE Len(pdu) <= SFMax
      BY <1>2, <1>4, <2>2, <3>2 DEF DecodeSF, uds_tp_decode_sf_fd
    <3>3. CASE Len(pdu) > SFMax
      BY <1>2, <1>4, <2>2, <3>3 DEF DecodeSF, uds_tp_decode_sf_fd
    <3> QED
      BY <1>2, <3>1, <3>2, <3>3
  <2> QED
    BY <1>3, <2>1, <2>3 DEF pdu
<1>5. CASE ~ fd
  <2>1. frame.bytes = pdu /\ frame.dl = Len(pdu) /\ Len(pdu) \in 1 .. SFMax
    BY <1>1, <1>2, <1>5, TransportAssumption DEF SingleFrame, uds_tp_encode_sf, SFSize
  <2>2. DecodeSF(frame) = <<SubSeq(frame.bytes, 1, Len(pdu))>>
    BY <1>2, <1>5, <2>1 DEF DecodeSF, uds_tp_decode_sf
  <2> QED
    BY <1>3, <2>1, <2>2 DEF pdu
<1> QED
  BY <1>4, <1>5

\* The receiver reads a frame: only the PDU of this frame can get lost.
LEMMA OthersKept ==
  ASSUME IInv, Clean, toRx # <<>>, toRx' = Tail(toRx), UNCHANGED <<sent, failed, tx, fd>>,
         \A i \in 1 .. Len(got) : \E j \in 1 .. Len(got') : got'[j] = got[i],
         rx.pc = "cf" => MsgOf(rx.buf) = Msg(toRx[1]),
         Fits(fd, sent[Msg(toRx[1])]) =>
           \/ \E j \in 1 .. Len(got') : got'[j] = sent[Msg(toRx[1])]
           \/ rx'.pc = "cf" /\ MsgOf(rx'.buf) = Msg(toRx[1])
           \/ Msg(toRx[1]) = Len(sent) /\ tx.pc # "idle"
  PROVE  NothingLost'
<1> DEFINE n == Len(toRx)
           S == Len(sent)
<1>1. /\ n \in Nat \ {0} /\ Len(toRx') = n - 1
      /\ \A q \in 2 .. n : toRx[q] = toRx'[q - 1] /\ q - 1 \in 1 .. n - 1
      /\ \A q \in 1 .. n : q = 1 \/ q \in 2 .. n
  BY HeadFacts
<1>2. \A m \in 1 .. S : Fits(fd, sent[m]) =>
        /\ m \notin failed
        /\ \/ \E i \in 1 .. Len(got) : got[i] = sent[m]
           \/ \E p \in 1 .. n : Msg(toRx[p]) = m
           \/ rx.pc = "cf" /\ MsgOf(rx.buf) = m
           \/ m = S /\ tx.pc # "idle"
  BY DEF Clean, NothingLost
<1> HIDE DEF n, S
<1>3. ASSUME NEW m \in 1 .. S, Fits(fd, sent[m])
      PROVE  \/ \E i \in 1 .. Len(got') : got'[i] = sent[m]
             \/ \E p \in 1 .. n - 1 : Msg(toRx'[p]) = m
             \/ rx'.pc = "cf" /\ MsgOf(rx'.buf) = m
             \/ m = S /\ tx.pc # "idle"
  <2>1. CASE \E i \in 1 .. Len(got) : got[i] = sent[m]
    BY <2>1
  <2>2. CASE \E p \in 1 .. n : Msg(toRx[p]) = m
    <3>1. PICK p \in 1 .. n : Msg(toRx[p]) = m
      BY <2>2
    <3>2. CASE p = 1
      BY <1>3, <3>1, <3>2 DEF S
    <3>3. CASE p \in 2 .. n
      BY <1>1, <3>1, <3>3
    <3> QED
      BY <1>1, <3>2, <3>3
  <2>3. CASE rx.pc = "cf" /\ MsgOf(rx.buf) = m
    BY <1>3, <2>3 DEF S
  <2> QED
    BY <1>2, <1>3, <2>1, <2>2, <2>3
<1> QED
  BY <1>1, <1>2, <1>3 DEF NothingLost, S

\* The receiver has read the last frame of a PDU: what the sender waits for, if
\* it does, is behind it in the queue.
LEMMA LastFrameRead ==
  ASSUME IInv, Clean, ~ Together, toRx # <<>>, toRx' = Tail(toRx), rx'.pc = "first",
         toRx[1].type # "FF", \A p \in 2 .. Len(toRx) : toRx[p].type # "CF",
         UNCHANGED <<tx, sent, stale, lost, toTx, fd>>
  PROVE  NothingStale' /\ ChainInv' /\ BlockInv' /\ WaitInv' /\ QuietInv' /\ TailInv'
<1> DEFINE S == Len(sent)
           n == Len(toRx)
<1>1. /\ n \in Nat \ {0} /\ 1 \in 1 .. n /\ Len(toRx') = n - 1
      /\ \A p \in 1 .. n - 1 : toRx'[p] = toRx[p + 1] /\ p + 1 \in 1 .. n /\ p + 1 \in 2 .. n
  BY HeadFacts
<1>2. tx.pc # "cf"
  BY DEF Clean, BlockInv
<1>3. \A p \in 1 .. n : toRx[p].type = "FF" => p = n /\ Msg(toRx[p]) = S /\ tx.pc = "fc"
  BY DEF Clean, ChainInv
<1> HIDE DEF n, S
<1>4. ChainInv'
  <2>1. \A p \in 1 .. n - 1 : toRx'[p].type # "CF"
    BY <1>1 DEF n
  <2>2. \A p \in 1 .. n - 1 : toRx'[p].type = "FF" =>
          p = n - 1 /\ Msg(toRx'[p]) = S /\ tx.pc = "fc"
    BY <1>1, <1>3
  <2>3. \A p \in 1 .. (n - 1) - 1 : p \in 1 .. n - 1
    BY <1>1
  <2> QED
    BY <1>1, <2>1, <2>2, <2>3 DEF ChainInv, S
<1>5. WaitInv'
  <2>1. SUFFICES ASSUME tx.pc = "fc" PROVE WaitInv'
    BY DEF WaitInv
  <2>2. /\ toTx = <<>> /\ toRx[n].type = "FF" /\ Msg(toRx[n]) = S
        /\ tx.offset = FFSize(fd, Len(data)) /\ tx.sn = 1
    BY <2>1 DEF Clean, WaitInv, n, S
  <2>3. n # 1
    BY <2>2
  <2>4. n - 1 \in 1 .. n - 1 /\ (n - 1) + 1 = n
    BY <1>1, <2>3
  <2>5. toRx'[n - 1] = toRx[n]
    BY <1>1, <2>4
  <2>6. toRx' # <<>>
    <3>1. Len(toRx') # 0
      BY <1>1, <2>3
    <3> QED
      BY <3>1, Zenon, EmptySeq
  <2> QED
    BY <1>1, <2>2, <2>5, <2>6 DEF WaitInv, data, S
<1> QED
  BY <1>2, <1>4, <1>5 DEF Clean, NothingStale, BlockInv, QuietInv, TailInv

\* Between receptions the receiver reads a single or a first frame.
LEMMA CleanRecvFirst ==
  ASSUME IInv, Clean, RecvFirst
  PROVE  Clean'
<1> USE DEF medium, txSide
<1> DEFINE S == Len(sent)
           n == Len(toRx)
           h == toRx[1]
           pdu == sent[Msg(h)]
<1>1. /\ rx.pc = "first" /\ toRx # <<>> /\ toRx' = Tail(toRx)
      /\ UNCHANGED <<tx, sent, failed, stale, lost, bus, fd>>
  BY DEF RecvFirst
<1>2. /\ n \in Nat \ {0} /\ 1 \in 1 .. n /\ h = Head(toRx)
      /\ toRx' \in Seq(DataFrames) /\ Len(toRx') = n - 1
      /\ \A p \in 1 .. n - 1 : toRx'[p] = toRx[p + 1] /\ p + 1 \in 1 .. n
      /\ FrameOk(fd, sent, h) /\ Msg(h) \in 1 .. S
  BY <1>1, HeadFacts
<1>3. /\ \A p \in 1 .. n : toRx[p].type # "CF"
      /\ \A p \in 1 .. n : toRx[p].type = "FF" =>
           p = n /\ Msg(toRx[p]) = S /\ tx.pc = "fc"
  BY <1>1 DEF Clean, ChainInv
<1>4. ~ Together /\ tx.pc # "cf"
  BY <1>1 DEF Clean, BlockInv, Together
<1>5. NothingStale'
  BY <1>1 DEF Clean, NothingStale
<1>6. IsPdu(Msg(h), pdu) /\ Len(pdu) \in Nat \ {0} /\ fd \in BOOLEAN /\ BufSize[fd] \in Nat
  BY <1>2, TransportAssumption DEF IInv, TypeInv, SentInv, IsPdu
<1>7. got \in Seq(Seq(Octet))
  BY DEF IInv, TypeInv
<1> HIDE DEF h, n, S, pdu
<1>8. CASE h.type = "SF" /\ RecvReturns(DecodeSF(h)) /\ UNCHANGED toTx
  <2>1. /\ NothingStale' /\ ChainInv' /\ BlockInv' /\ WaitInv' /\ QuietInv' /\ TailInv'
    <3>1. rx'.pc = "first"
      BY <1>8, IdleTypes DEF RecvReturns
    <3>2. \A p \in 2 .. n : toRx[p].type # "CF"
      BY <1>2, <1>3
    <3> QED
      BY <1>1, <1>4, <1>8, <3>1, <3>2, LastFrameRead DEF h, n
  <2>2. NothingLost'
    <3>1. DecodeSF(h) \in {<<>>, <<pdu>>}
      BY <1>2, <1>8, ReadSingle DEF IInv, pdu
    <3>2. Fits(fd, pdu) => DecodeSF(h) = <<pdu>>
      BY <1>2, <1>8, FittingSingleRead DEF IInv, pdu, Fits
    <3>3. got' = got \o DecodeSF(h)
      BY <1>8 DEF RecvReturns
    <3>4. pdu \in Seq(Octet)
      BY <1>6 DEF IsPdu
    <3>5. \A i \in 1 .. Len(got) : \E j \in 1 .. Len(got') : got'[j] = got[i]
      BY <1>7, <3>1, <3>3, <3>4
    <3>6. Fits(fd, pdu) => \E j \in 1 .. Len(got') : got'[j] = pdu
      <4>1. ASSUME Fits(fd, pdu) PROVE \E j \in 1 .. Len(got') : got'[j] = pdu
        <5>0. got' = got \o <<pdu>>
          BY <3>2, <3>3, <4>1
        <5>1. got' = Append(got, pdu)
          BY <1>7, <3>4, <5>0
        <5>2. Len(got) + 1 \in 1 .. Len(got') /\ got'[Len(got) + 1] = pdu
          BY <1>7, <3>4, <5>1
        <5> QED
          BY <5>2
      <4> QED
        BY <4>1
    <3> QED
      BY <1>1, <3>5, <3>6, OthersKept DEF pdu, h
  <2> QED
    BY <2>1, <2>2 DEF Clean
<1>9. ASSUME h.type = "FF"
      PROVE  /\ n = 1 /\ Msg(h) = S /\ tx.pc = "fc" /\ pdu = data
             /\ DecodeFF(h) = Len(pdu) /\ toRx' = <<>>
             /\ Len(h.bytes) = FFSize(fd, Len(pdu)) /\ MsgOf(h.bytes) = S
             /\ toTx = <<>> /\ tx.offset = FFSize(fd, Len(data)) /\ tx.sn = 1
  <2>1. n = 1 /\ Msg(h) = S /\ tx.pc = "fc"
    BY <1>2, <1>3, <1>9 DEF h
  <2>2. toRx' = <<>>
    BY <1>2, <2>1
  <2>3. pdu = data /\ MsgOf(h.bytes) = S
    BY <2>1 DEF pdu, data, S, Msg
  <2>4. DecodeFF(h) = Len(pdu) /\ Len(h.bytes) = FFSize(fd, Len(pdu))
    BY <1>2, <1>9, ReadFirst DEF IInv, pdu
  <2>5. toTx = <<>> /\ tx.offset = FFSize(fd, Len(data)) /\ tx.sn = 1
    BY <1>1, <1>4, <2>1 DEF Clean, WaitInv
  <2> QED
    BY <2>1, <2>2, <2>3, <2>4, <2>5
<1>10. CASE /\ h.type = "FF" /\ DecodeFF(h) \notin 1 .. BufSize[fd]
            /\ RecvReturns(<<>>) /\ UNCHANGED toTx
  <2>1. rx'.pc = "first" /\ got' = got
    BY <1>7, <1>10, IdleTypes, ReturnsNothing DEF RecvReturns
  <2>2. Len(data) > BufSize[fd]
    BY <1>6, <1>9, <1>10
  <2>3. ChainInv'
    BY <1>9, <1>10, <2>1 DEF ChainInv
  <2>4. WaitInv' /\ BlockInv' /\ QuietInv' /\ TailInv'
    BY <1>1, <1>9, <1>10, <2>1, <2>2 DEF WaitInv, BlockInv, QuietInv, TailInv, data
  <2>5. NothingLost'
    BY <1>1, <1>9, <1>10, <2>1, OthersKept DEF h, S
  <2> QED
    BY <1>5, <2>3, <2>4, <2>5 DEF Clean
<1>11. CASE /\ h.type = "FF" /\ DecodeFF(h) \in 1 .. BufSize[fd]
            /\ rx' = [pc |-> "cf", total_len |-> DecodeFF(h), buf |-> h.bytes,
                      expected_sn |-> 1, bs_count |-> 0]
            /\ SendFC(h.bytes)
            /\ UNCHANGED got
  <2> DEFINE fc == uds_tp_encode_fc("CTS", BlockSize, S)
  <2>1. /\ rx'.pc = "cf" /\ rx'.buf = h.bytes /\ rx'.expected_sn = 1 /\ rx'.bs_count = 0
    BY <1>11
  <2>2. toTx' = <<fc>>
    <3>1. toTx' = Append(<<>>, fc)
      BY <1>9, <1>11 DEF SendFC
    <3> HIDE DEF fc
    <3> QED
      BY <3>1
  <2> HIDE DEF fc
  <2>3. Together' /\ SenderNext'
    BY <1>1, <1>9, <1>11, <2>1 DEF Together, SenderNext, S
  <2>4. ChainInv'
    BY <1>9, <1>11, <2>1 DEF ChainInv
  <2>5. WaitInv' /\ BlockInv' /\ QuietInv' /\ TailInv'
    BY <1>1, <1>9, <1>11, <2>1, <2>2, <2>3 DEF WaitInv, BlockInv, QuietInv, TailInv, fc, S
  <2>6. NothingLost'
    BY <1>1, <1>9, <1>11, <2>1, OthersKept DEF h, S
  <2> QED
    BY <1>5, <2>4, <2>5, <2>6 DEF Clean
<1>12. h.type \in {"SF", "FF"}
  BY <1>2, <1>3 DEF FrameOk, h
<1> QED
  BY <1>2, <1>8, <1>10, <1>11, <1>12 DEF RecvFirst

\* The frame at the head of the queue is the one the receiver expects; its
\* bytes are copied to where they belong.
LEMMA ExpectedFrame ==
  ASSUME IInv, Clean, rx.pc = "cf", toRx # <<>>
  PROVE  LET h == toRx[1]
             r == MsgOf(rx.buf)
             c == CFSize(fd)
         IN
         /\ h = Head(toRx) /\ Accepts(h) /\ h.type = "CF" /\ h.sn = rx.expected_sn
         /\ Start(h) = Len(rx.buf) /\ Msg(h) = r
         /\ c \in Nat \ {0} /\ Len(rx.buf) \in Nat
         /\ r \in 1 .. Len(sent) /\ sent[r] \in Seq(Octet) /\ rx.total_len = Len(sent[r])
         /\ Copied \in Seq(Octet) /\ MsgOf(Copied) = r
         /\ Len(Copied) >= rx.total_len => Copied = sent[r] /\ Len(rx.buf) + c >= rx.total_len
         /\ Len(Copied) < rx.total_len => Len(Copied) = Len(rx.buf) + c
         /\ \A q \in 2 .. Len(toRx) : toRx[q].type = "CF" => Start(toRx[q]) >= Len(rx.buf) + c
         /\ Together => tx.offset >= Len(rx.buf) + c
<1> DEFINE h == toRx[1]
           n == Len(toRx)
           r == MsgOf(rx.buf)
           pdu == sent[r]
           c == CFSize(fd)
           old == Len(rx.buf)
           chunk == Smaller(rx.total_len - old, c)
<1>1. /\ n \in Nat \ {0} /\ 1 \in 1 .. n /\ h = Head(toRx)
  BY TailFacts DEF IInv, TypeInv
<1>2. h.type = "CF" /\ Start(h) = old /\ h.sn = rx.expected_sn
  BY DEF Clean, ChainInv
<1>3. /\ r \in 1 .. Len(sent) /\ rx.total_len = Len(pdu) /\ old < rx.total_len
      /\ pdu \in Seq(Octet) /\ old \in Nat /\ Len(pdu) \in Nat
  BY DEF IInv, ReceiverInv, TypeInv, RxLocals
<1>4. Copied = rx.buf \o DecodeCF(h, chunk)
  BY <1>1 DEF Copied, CFLimit, CFSize
<1>5. ~ Offending(Copied, stale \cap lost)
  BY DEF Offending, Clean, NothingStale
<1>6. /\ chunk \in 1 .. c /\ c \in Nat \ {0}
      /\ Copied \in Seq(Octet) /\ Len(Copied) = old + chunk
      /\ MsgOf(Copied) = r
      /\ Msg(h) = r
      /\ (Start(h) = old /\ Copied = SubSeq(pdu, 1, Len(Copied))) \/ Start(h) >= old + c
      /\ \A q \in 2 .. n : Msg(toRx[q]) = r => Start(toRx[q]) >= Start(h) + c
      /\ r = Len(sent) /\ tx.pc \in {"fc", "cf"} => tx.offset >= Start(h) + c
  BY <1>2, <1>4, <1>5, FrameCopied
<1> HIDE DEF h, r, c, old, pdu
<1>7. Copied = SubSeq(pdu, 1, Len(Copied))
  BY <1>2, <1>3, <1>6
<1>8. /\ Len(Copied) >= rx.total_len => Len(Copied) = Len(pdu) /\ old + c >= rx.total_len
      /\ Len(Copied) < rx.total_len => Len(Copied) = old + c
  BY <1>3, <1>6 DEF Smaller
<1>9. Len(Copied) >= rx.total_len => Copied = pdu
  <2>1. SubSeq(pdu, 1, Len(pdu)) = pdu
    BY <1>3
  <2> QED
    BY <1>7, <1>8, <2>1
<1>10. ASSUME NEW q \in 2 .. n, toRx[q].type = "CF"
       PROVE  Start(toRx[q]) >= old + c
  <2>1. q \in 1 .. n
    BY <1>1
  <2>2. Msg(toRx[q]) = r
    BY <1>10, <2>1, CleanQueue DEF r
  <2> QED
    BY <1>2, <1>6, <2>2
<1>11. Together => tx.offset >= old + c
  BY <1>2, <1>6 DEF Together, r
<1> HIDE DEF n, chunk
<1> QED
  BY <1>1, <1>2, <1>3, <1>6, <1>8, <1>9, <1>10, <1>11 DEF h, r, c, old, n, pdu, Accepts

\* The frame completes the PDU.
LEMMA CleanComplete ==
  ASSUME IInv, Clean, rx.pc = "cf", toRx # <<>>, toRx' = Tail(toRx),
         Len(Copied) >= rx.total_len, rx' = IdleRx, got' = Append(got, Copied),
         UNCHANGED <<tx, sent, failed, stale, toTx, lost, fd>>
  PROVE  Clean'
<1> DEFINE h == toRx[1]
           n == Len(toRx)
           S == Len(sent)
           r == MsgOf(rx.buf)
           c == CFSize(fd)
<1>1. /\ h.type = "CF" /\ Msg(h) = r /\ Copied = sent[r] /\ r \in 1 .. S
      /\ c \in Nat \ {0} /\ Len(rx.buf) \in Nat
      /\ rx.total_len = Len(sent[r]) /\ sent[r] \in Seq(Octet)
      /\ Len(rx.buf) + c >= Len(sent[r])
      /\ \A q \in 2 .. n : toRx[q].type = "CF" => Start(toRx[q]) >= Len(rx.buf) + c
      /\ Together => tx.offset >= Len(rx.buf) + c
  BY ExpectedFrame
<1>2. ~ Together
  <2>1. ASSUME Together PROVE FALSE
    <3>1. tx.offset < Len(sent[r]) /\ tx.offset \in Nat
      BY <2>1 DEF IInv, SenderInv, data, Together, TypeInv, TxLocals
    <3> HIDE DEF c, r
    <3> QED
      BY <1>1, <2>1, <3>1
  <2> QED
    BY <2>1
<1>3. ASSUME NEW q \in 2 .. n
      PROVE  toRx[q].type # "CF"
  <2>1. SUFFICES ASSUME toRx[q].type = "CF" PROVE FALSE
    OBVIOUS
  <2>2. q \in 1 .. n
    BY HeadFacts
  <2>3. Msg(toRx[q]) = r
    BY <2>1, <2>2, CleanQueue
  <2>4. Start(toRx[q]) < Len(sent[r]) /\ Start(toRx[q]) \in Nat
    <3>1. FrameOk(fd, sent, toRx[q])
      BY <2>2 DEF IInv, QueueInv
    <3> QED
      BY <2>1, <2>3, <3>1 DEF FrameOk
  <2> HIDE DEF c, r
  <2>5. Start(toRx[q]) >= Len(rx.buf) + c
    BY <1>1, <2>1
  <2>6. /\ Len(rx.buf) + c >= Len(sent[r]) /\ Len(rx.buf) + c \in Nat
        /\ Len(sent[r]) \in Nat
    BY <1>1
  <2> QED
    BY <2>4, <2>5, <2>6
<1>4. rx'.pc = "first"
  BY IdleTypes
<1>5. NothingStale' /\ ChainInv' /\ BlockInv' /\ WaitInv' /\ QuietInv' /\ TailInv'
  BY <1>1, <1>2, <1>3, <1>4, LastFrameRead
<1>6. NothingLost'
  <2>1. got \in Seq(Seq(Octet))
    BY DEF IInv, TypeInv
  <2> HIDE DEF r
  <2>2. /\ Len(got) + 1 \in 1 .. Len(got') /\ got'[Len(got) + 1] = sent[r]
        /\ \A i \in 1 .. Len(got) : i \in 1 .. Len(got') /\ got'[i] = got[i]
    <3> DEFINE pdu == sent[r]
    <3> HIDE DEF pdu
    <3>1. pdu \in Seq(Octet) /\ got' = Append(got, pdu)
      BY <1>1 DEF pdu
    <3>2. /\ Len(got) + 1 \in 1 .. Len(got') /\ got'[Len(got) + 1] = pdu
          /\ \A i \in 1 .. Len(got) : i \in 1 .. Len(got') /\ got'[i] = got[i]
      BY <2>1, <3>1
    <3> QED
      BY <3>2 DEF pdu
  <2> QED
    BY <1>1, <2>2, OthersKept DEF r
<1> QED
  BY <1>5, <1>6 DEF Clean

\* The reception goes on, with flow control when the block is used up.
LEMMA CleanContinued ==
  ASSUME IInv, Clean, rx.pc = "cf", toRx # <<>>, toRx' = Tail(toRx),
         Len(Copied) < rx.total_len,
         IF NeedsFC(Len(Copied), rx.bs_count + 1) THEN SendFC(Copied) ELSE UNCHANGED toTx,
         Continued(IF NeedsFC(Len(Copied), rx.bs_count + 1) THEN 0 ELSE rx.bs_count + 1),
         UNCHANGED <<got, tx, sent, failed, stale, lost, fd>>
  PROVE  Clean'
<1> DEFINE h == toRx[1]
           n == Len(toRx)
           S == Len(sent)
           r == MsgOf(rx.buf)
           c == CFSize(fd)
           last == BlockSize > 0 /\ rx.bs_count + 1 >= BlockSize
           fc == uds_tp_encode_fc("CTS", BlockSize, r)
<1>1. /\ h.type = "CF" /\ h.sn = rx.expected_sn /\ Start(h) = Len(rx.buf) /\ Msg(h) = r
      /\ c \in Nat \ {0} /\ Len(rx.buf) \in Nat
      /\ MsgOf(Copied) = r /\ Len(Copied) = Len(rx.buf) + c
  BY ExpectedFrame
<1>2. /\ n \in Nat \ {0} /\ 1 \in 1 .. n /\ Len(toRx') = n - 1
      /\ \A p \in 1 .. n - 1 : toRx'[p] = toRx[p + 1] /\ p + 1 \in 1 .. n /\ p + 1 \in 2 .. n
      /\ n = 1 => toRx' = <<>>
  BY HeadFacts
<1>3. n # 1 => toRx' # <<>> /\ 1 \in 1 .. n - 1 /\ n - 1 \in 1 .. n - 1 /\ (n - 1) + 1 = n
  <2>1. n # 1 => Len(toRx') # 0
    BY <1>2
  <2>2. n # 1 => toRx' # <<>>
    BY <2>1, EmptySeq, Zenon
  <2> QED
    BY <1>2, <2>2
<1>4. NeedsFC(Len(Copied), rx.bs_count + 1) <=> last
  BY DEF NeedsFC
<1>5. /\ rx'.pc = "cf" /\ rx'.buf = Copied /\ rx'.total_len = rx.total_len
      /\ rx'.expected_sn = (rx.expected_sn + 1) % SNMod
      /\ rx'.bs_count = IF last THEN 0 ELSE rx.bs_count + 1
  <2>1. rx \in RxLocals
    BY DEF IInv, TypeInv
  <2> HIDE DEF last
  <2> QED
    BY <1>4, <2>1 DEF Continued, RxLocals
<1>6. /\ last => toTx' = Append(toTx, fc)
      /\ ~ last => toTx' = toTx
  BY <1>1, <1>4 DEF SendFC
<1>7. BlockSize \in Nat /\ rx.bs_count \in Nat /\ tx.bs_sent \in Nat
  BY TransportAssumption DEF IInv, TypeInv, RxLocals, TxLocals
<1>8. Together' <=> Together
  BY <1>1, <1>5 DEF Together
<1>9. \A p \in 1 .. n : toRx[p].type = "FF" => p = n /\ Msg(toRx[p]) = S /\ tx.pc = "fc"
  BY DEF Clean, ChainInv
<1>10. ASSUME ~ Together
       PROVE  \E k \in 2 .. n :
                /\ toRx[k].type = "CF" /\ Msg(toRx[k]) = r
                /\ Start(toRx[k]) + c >= rx.total_len
                /\ BlockSize > 0 => rx.bs_count + k <= BlockSize
  <2>1. PICK k \in 1 .. n :
          /\ toRx[k].type = "CF" /\ Msg(toRx[k]) = r
          /\ Start(toRx[k]) + c >= rx.total_len
          /\ BlockSize > 0 => rx.bs_count + k <= BlockSize
    BY <1>10 DEF Clean, TailInv
  <2>2. k # 1
    <3>1. rx.total_len \in Nat
      BY DEF IInv, TypeInv, RxLocals
    <3> HIDE DEF c
    <3> QED
      BY <1>1, <2>1, <3>1
  <2>3. k \in 2 .. n
    BY <2>2
  <2> QED
    BY <2>1, <2>3
<1>11. n # 1 => toRx[2].type = "CF"
  <2>1. CASE Together
    <3>1. n # 1 => 2 \in 1 .. n
      BY <1>2
    <3> QED
      BY <2>1, <3>1, CleanQueue
  <2>2. CASE ~ Together
    <3>1. PICK k \in 2 .. n : toRx[k].type = "CF"
      BY <1>10, <2>2
    <3>2. k \in 1 .. n /\ (k = 2 \/ 2 \in 1 .. k - 1)
      BY <1>2
    <3> QED
      BY <3>1, <3>2, CleanQueue
  <2> QED
    BY <2>1, <2>2
<1>12. NothingStale'
  BY DEF Clean, NothingStale
<1>13. NothingLost'
  <2>1. rx'.pc = "cf" /\ MsgOf(rx'.buf) = Msg(toRx[1])
    BY <1>1, <1>5
  <2> QED
    BY <1>1, <2>1, OthersKept
<1> HIDE DEF h, n, S, c, fc, last, r
<1>14. ChainInv'
  <2>1. ASSUME toRx' # <<>>
        PROVE  /\ toRx'[1].type = "CF" /\ Start(toRx'[1]) = Len(Copied)
               /\ toRx'[1].sn = (rx.expected_sn + 1) % SNMod
    <3>1. n # 1 /\ toRx'[1] = toRx[2]
      BY <1>2, <1>3, <2>1
    <3>2. 1 \in 1 .. n - 1
      BY <1>3, <3>1
    <3>3. Follows(toRx[1], toRx[2])
      BY <1>1, <1>11, <3>1, <3>2 DEF Clean, ChainInv, n, h
    <3> QED
      BY <1>1, <1>11, <3>1, <3>3 DEF Follows, h, c
  <2>2. ASSUME NEW p \in 1 .. (n - 1) - 1, toRx'[p].type = "CF", toRx'[p + 1].type = "CF"
        PROVE  Follows(toRx'[p], toRx'[p + 1])
    <3>1. p \in 1 .. n - 1 /\ p + 1 \in 1 .. n - 1
      BY <1>2
    <3> QED
      BY <1>2, <2>2, <3>1 DEF Clean, ChainInv, n
  <2>3. \A p \in 1 .. n - 1 : toRx'[p].type = "FF" =>
          p = n - 1 /\ Msg(toRx'[p]) = S /\ tx.pc = "fc"
    BY <1>2, <1>9
  <2> QED
    BY <1>2, <1>5, <2>1, <2>2, <2>3 DEF ChainInv, S, Follows
<1>15. CASE ~ Together
  <2>1. PICK k \in 2 .. n :
          /\ toRx[k].type = "CF" /\ Msg(toRx[k]) = r
          /\ Start(toRx[k]) + c >= rx.total_len
          /\ BlockSize > 0 => rx.bs_count + k <= BlockSize
    BY <1>10, <1>15
  <2>2. /\ n # 1 /\ ~ last /\ k - 1 \in 1 .. n - 1 /\ (k - 1) + 1 = k
        /\ BlockSize > 0 => (rx.bs_count + 1) + (k - 1) <= BlockSize
    BY <1>2, <1>7, <2>1 DEF last
  <2>3. toRx'[k - 1] = toRx[k]
    BY <1>2, <2>2
  <2>4. TailInv'
    BY <1>1, <1>2, <1>5, <2>1, <2>2, <2>3 DEF TailInv, r, c
  <2>5. tx.pc # "cf"
    BY <1>15 DEF Clean, BlockInv
  <2>6. WaitInv'
    <3>1. toRx'[n - 1] = toRx[n] /\ toRx' # <<>>
      BY <1>2, <1>3, <2>2
    <3>2. tx.pc = "fc" => /\ toTx = <<>> /\ toRx[n].type = "FF" /\ Msg(toRx[n]) = S
                          /\ tx.offset = FFSize(fd, Len(data)) /\ tx.sn = 1
      BY <1>15 DEF Clean, WaitInv, n, S
    <3> QED
      BY <1>2, <1>6, <2>2, <3>1, <3>2 DEF WaitInv, data, S
  <2>7. BlockInv' /\ QuietInv'
    BY <1>6, <2>2, <2>5 DEF Clean, BlockInv, QuietInv
  <2> QED
    BY <1>12, <1>13, <1>14, <2>4, <2>6, <2>7 DEF Clean
<1>16. CASE Together
  <2>1. /\ r = S /\ tx.pc \in {"fc", "cf"}
        /\ \A p \in 1 .. n : toRx[p].type = "CF"
    BY <1>16, CleanQueue DEF Together, r, S, n
  <2>2. SenderNext /\ toTx = <<>>
    <3>1. CASE tx.pc = "cf"
      BY <3>1 DEF Clean, BlockInv
    <3>2. CASE tx.pc = "fc"
      BY <1>2, <2>1, <3>2 DEF Clean, WaitInv, n
    <3> QED
      BY <2>1, <3>1, <3>2
  <2>3. SenderNext'
    <3>1. tx.offset = Start(toRx[n]) + CFSize(fd) /\ tx.sn = (toRx[n].sn + 1) % SNMod
      BY <2>2 DEF SenderNext, n
    <3>2. CASE n = 1
      BY <1>1, <1>2, <1>5, <3>1, <3>2 DEF SenderNext, h, c
    <3>3. CASE n # 1
      <4>1. toRx'[n - 1] = toRx[n] /\ toRx' # <<>>
        BY <1>2, <1>3, <3>3
      <4> QED
        BY <1>2, <3>1, <4>1 DEF SenderNext
    <3> QED
      BY <3>2, <3>3
  <2>4. TailInv' /\ QuietInv'
    BY <1>8, <1>16, <2>1 DEF TailInv, QuietInv
  <2>5. BlockInv'
    <3>1. SUFFICES ASSUME tx.pc = "cf" PROVE BlockInv'
      BY DEF BlockInv
    <3>2. /\ tx.bs = BlockSize /\ tx.bs_sent = rx.bs_count + n
          /\ BlockSize > 0 => tx.bs_sent < BlockSize
      BY <3>1 DEF Clean, BlockInv, n
    <3>3. ~ last /\ tx.bs_sent = (rx.bs_count + 1) + (n - 1)
      BY <1>2, <1>7, <3>2 DEF last
    <3> QED
      BY <1>2, <1>5, <1>6, <1>8, <1>16, <2>2, <2>3, <3>1, <3>2, <3>3 DEF BlockInv
  <2>6. WaitInv'
    <3>1. SUFFICES ASSUME tx.pc = "fc" PROVE WaitInv'
      BY DEF WaitInv
    <3>2. BlockSize > 0 /\ rx.bs_count + n = BlockSize
      BY <1>2, <2>1, <3>1 DEF Clean, WaitInv, n
    <3>3. CASE n = 1
      <4>1. last /\ toRx' = <<>> /\ rx'.bs_count = 0
        BY <1>2, <1>5, <1>7, <3>2, <3>3 DEF last
      <4>2. toTx' = <<fc>>
        BY <1>6, <2>2, <4>1
      <4>3. fc = uds_tp_encode_fc("CTS", BlockSize, Len(sent'))
        BY <2>1 DEF fc, S
      <4> QED
        BY <1>8, <1>16, <2>3, <4>1, <4>2, <4>3 DEF WaitInv
    <3>4. CASE n # 1
      <4>1. ~ last /\ (rx.bs_count + 1) + (n - 1) = BlockSize
        BY <1>2, <1>7, <3>2, <3>4 DEF last
      <4>2. toRx' # <<>> /\ toTx' = <<>>
        BY <1>3, <1>6, <2>2, <3>4, <4>1
      <4> QED
        BY <1>2, <1>5, <1>8, <1>16, <2>3, <3>2, <4>1, <4>2 DEF WaitInv
    <3> QED
      BY <3>3, <3>4
  <2> QED
    BY <1>12, <1>13, <1>14, <2>4, <2>5, <2>6 DEF Clean
<1> QED
  BY <1>15, <1>16

\* In a reception the receiver reads a frame, which it never rejects.
LEMMA CleanRecvCF ==
  ASSUME IInv, Clean, RecvCF
  PROVE  Clean'
<1> USE DEF medium, txSide
<1> DEFINE count == rx.bs_count + 1
<1>1. /\ rx.pc = "cf" /\ toRx # <<>> /\ toRx' = Tail(toRx)
      /\ UNCHANGED <<tx, sent, failed, stale, lost, bus, fd>>
  BY DEF RecvCF
<1>2. Accepts(Head(toRx)) /\ Copied \in Seq(Octet) /\ rx.total_len \in Nat
  <2>1. Head(toRx) = toRx[1] /\ Accepts(toRx[1]) /\ Copied \in Seq(Octet)
    BY <1>1, ExpectedFrame
  <2> QED
    BY <2>1 DEF IInv, TypeInv, RxLocals
<1>3. CASE /\ IF NeedsFC(Len(Copied), count) THEN SendFC(Copied) ELSE UNCHANGED toTx
           /\ Len(Copied) >= rx.total_len /\ RecvReturns(<<Copied>>)
  <2>1. ~ NeedsFC(Len(Copied), count)
    BY <1>2, <1>3 DEF NeedsFC
  <2>2. rx' = IdleRx /\ got' = Append(got, Copied)
    <3>1. got \in Seq(Seq(Octet))
      BY DEF IInv, TypeInv
    <3> QED
      BY <1>2, <1>3, <3>1 DEF RecvReturns
  <2> QED
    BY <1>1, <1>3, <2>1, <2>2, CleanComplete
<1>4. CASE /\ IF NeedsFC(Len(Copied), count) THEN SendFC(Copied) ELSE UNCHANGED toTx
           /\ Len(Copied) < rx.total_len
           /\ rx' = [rx EXCEPT
                       !.buf = Copied, !.expected_sn = (@ + 1) % SNMod,
                       !.bs_count = IF NeedsFC(Len(Copied), count) THEN 0 ELSE count]
           /\ UNCHANGED got
  <2>1. Continued(IF NeedsFC(Len(Copied), count) THEN 0 ELSE count)
    BY <1>4 DEF Continued
  <2> QED
    BY <1>1, <1>4, <2>1, CleanContinued
<1> QED
  BY <1>2, <1>3, <1>4 DEF RecvCF, Copied

\* CleanInv is inductive: on a clean bus no reception times out, and there are
\* no faults.
LEMMA CleanNext ==
  ASSUME IInv, CleanInv, [Next]_vars
  PROVE  CleanInv'
<1> SUFFICES ASSUME bus' = "clean" PROVE Clean'
  BY DEF CleanInv
<1> USE DEF medium, txSide, rxSide
<1>1. UNCHANGED bus
  BY DEF Next, vars, Call, uds_tp_send, uds_tp_send_fd, Send, SendFirst, RecvFlow, SendCF,
         SendTimeout, SendTimesOut, uds_tp_recv, uds_tp_recv_fd, Recv, RecvFirst, RecvCF,
         RecvTimeout, RecvTimesOut, RecvIdle, SenderReceives, LoseData, LoseFlow, SendFails,
         RecvFails, FlowFails, ForeignFrame, Fault
<1>2. bus = "clean" /\ Clean
  BY <1>1 DEF CleanInv
<1>3. CASE \E len \in Lengths[bus][fd] : Call(len)
  BY <1>2, <1>3, CleanCall
<1>4. CASE Send
  BY <1>2, <1>4, CleanSendFirst, CleanRecvFlow, CleanSendCF, CleanSendTimeout DEF Send
<1>5. CASE Recv
  <2>1. ~ RecvTimeout
    <3>1. SUFFICES ASSUME tx.pc = "idle", rx.pc = "cf", toRx = <<>> PROVE FALSE
      BY <1>2 DEF RecvTimeout, RecvTimesOut
    <3>2. ~ Together
      BY <3>1 DEF Together
    <3> QED
      BY <1>2, <3>1, <3>2, CleanQueue
  <2> QED
    BY <1>2, <1>5, <2>1, CleanRecvFirst, CleanRecvCF DEF Recv
<1>6. CASE UNCHANGED vars
  BY <1>2, <1>6 DEF vars, Clean, NothingStale, ChainInv, Follows, BlockInv, WaitInv, QuietInv,
     TailInv, NothingLost, Together, SenderNext, data
<1>7. ~ SenderReceives
  BY <1>2 DEF SenderReceives, Clean, QuietInv
<1>8. ~ (LoseData \/ LoseFlow \/ SendFails \/ RecvFails \/ FlowFails \/ ForeignFrame)
  BY <1>2 DEF LoseData, LoseFlow, SendFails, RecvFails, FlowFails, ForeignFrame, Fault
<1> QED
  BY <1>3, <1>4, <1>5, <1>6, <1>7, <1>8
     DEF Next, uds_tp_send, uds_tp_recv, uds_tp_send_fd, uds_tp_recv_fd, RecvIdle

\* CleanInv holds from the start.
LEMMA CleanInductive == Spec => []CleanInv
<1>1. Init => CleanInv
  BY DEF Init, IdleTx, IdleRx, CleanInv, Clean, NothingStale, ChainInv, BlockInv, WaitInv,
         QuietInv, TailInv, NothingLost
<1>2. IInv /\ CleanInv /\ [Next]_vars => CleanInv'
  BY CleanNext
<1> QED
  BY <1>1, <1>2, Inductive, PTL DEF Spec

\* On a clean bus no flow control is left over when uds_tp_send returns,
\* whatever the length of the PDU and the receiver's block size.
THEOREM FlowAllTaken == Spec => []NoFlowLeftOver
<1>1. CleanInv => NoFlowLeftOver
  BY DEF CleanInv, Clean, QuietInv, NoFlowLeftOver
<1> QED
  BY <1>1, CleanInductive, PTL

\* Nothing is under way: no call, no reception and no data frame.
AtRest == tx.pc = "idle" /\ rx.pc = "first" /\ toRx = <<>>

\* Everything that fits has arrived, and its call succeeded.
AllArrived ==
  \A m \in 1 .. Len(sent) :
    Fits(fd, sent[m]) => m \notin failed /\ \E i \in 1 .. Len(got) : got[i] = sent[m]

\* On a clean bus uds_tp_send never fails on a PDU that the frame format and
\* the receiver's buffer have room for, and uds_tp_recv returns each of them:
\* none of the errors for a wrong frame type, a wrong sequence number or a
\* timeout drops it.
THEOREM CleanBusDelivers == Spec => [](bus = "clean" /\ AtRest => AllArrived)
<1>1. CleanInv => (bus = "clean" /\ AtRest => AllArrived)
  <2>1. toRx = <<>> => ~ \E p \in 1 .. Len(toRx) : TRUE
    OBVIOUS
  <2> QED
    BY <2>1 DEF CleanInv, Clean, NothingLost, AtRest, AllArrived
<1> QED
  BY <1>1, CleanInductive, PTL
=============================================================================
