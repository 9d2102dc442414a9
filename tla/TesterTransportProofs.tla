----------------------- MODULE TesterTransportProofs -----------------------
(***************************************************************************)
(* Proofs about TesterTransport.  TypeInv is its inductive type invariant. *)
(* It says of each frame in the two queues what the two receivers rely on  *)
(* when they copy from it, so that it covers what is left over from        *)
(* exchanges that failed.  Then the two refinements, from IsoTp's          *)
(* invariant on the frames of each direction.                              *)
(***************************************************************************)
EXTENDS TesterTransport, SetInduction, SequenceTheorems, TLAPS

----------------------------------------------------------------------------
(* The frames of one kind in a queue *)

\* The elements of a set among the first k of the queue, for each k.
PickedUpTo(queue, S) ==
  LET upTo[k \in 0 .. Len(queue)] ==
        IF k = 0 THEN <<>>
        ELSE IF queue[k] \in S THEN Append(upTo[k - 1], queue[k])
        ELSE upTo[k - 1]
  IN  upTo
Picked(queue, S) == PickedUpTo(queue, S)[Len(queue)]

\* One step of PickedUpTo: g is its value up to j.
Picks(g, j, queue, S) ==
  g = [k \in 0 .. j |-> IF k = 0 THEN <<>>
                        ELSE IF queue[k] \in S THEN Append(g[k - 1], queue[k])
                        ELSE g[k - 1]]

\* The recursion defines PickedUpTo.
LEMMA PickedDefined ==
  ASSUME NEW queue, NEW S, Len(queue) \in Nat
  PROVE  Picks(PickedUpTo(queue, S), Len(queue), queue, S)
<1> DEFINE T == {j \in Nat : \E g : Picks(g, j, queue, S)}
<1>1. 0 \in T
  <2> DEFINE g == [k \in 0 .. 0 |-> <<>>]
  <2>1. Picks(g, 0, queue, S)
    BY DEF Picks
  <2> QED
    BY <2>1
<1>2. ASSUME NEW j \in Nat, j \in T PROVE j + 1 \in T
  <2>1. PICK g : Picks(g, j, queue, S)
    BY <1>2
  <2> DEFINE h == [k \in 0 .. j + 1 |->
                     IF k <= j THEN g[k]
                     ELSE IF queue[k] \in S THEN Append(g[k - 1], queue[k])
                     ELSE g[k - 1]]
             v == [k \in 0 .. j + 1 |->
                     IF k = 0 THEN <<>>
                     ELSE IF queue[k] \in S THEN Append(h[k - 1], queue[k])
                     ELSE h[k - 1]]
  <2>2. ASSUME NEW k \in 0 .. j + 1 PROVE h[k] = v[k]
    <3>1. CASE k = 0
      BY <2>1, <3>1 DEF Picks
    <3>2. CASE k # 0
      <4>1. k - 1 \in 0 .. j /\ k - 1 \in 0 .. j + 1 /\ k - 1 <= j
        BY <3>2
      <4>2. h[k - 1] = g[k - 1]
        BY <4>1
      <4>3. CASE k <= j
        <5>1. k \in 0 .. j /\ h[k] = g[k]
          BY <4>3
        <5>2. g[k] = IF queue[k] \in S THEN Append(g[k - 1], queue[k]) ELSE g[k - 1]
          BY <2>1, <3>2, <5>1 DEF Picks
        <5> QED
          BY <3>2, <4>2, <5>1, <5>2
      <4>4. CASE ~ (k <= j)
        BY <3>2, <4>2, <4>4
      <4> QED
        BY <4>3, <4>4
    <3> QED
      BY <3>1, <3>2
  <2>3. h = v
    BY <2>2
  <2>4. Picks(h, j + 1, queue, S)
    BY <2>3 DEF Picks
  <2> QED
    BY <2>4
<1> HIDE DEF T
<1>3. Len(queue) \in T
  BY <1>1, <1>2, InductiveSet
<1>4. PICK g : Picks(g, Len(queue), queue, S)
  BY <1>3 DEF T
<1> QED
  BY <1>4 DEF Picks, PickedUpTo

\* Its values one by one.
LEMMA PickedStep ==
  ASSUME NEW queue, NEW S, Len(queue) \in Nat
  PROVE  LET g == PickedUpTo(queue, S) IN
         /\ g[0] = <<>>
         /\ \A k \in 1 .. Len(queue) :
              g[k] = IF queue[k] \in S THEN Append(g[k - 1], queue[k]) ELSE g[k - 1]
<1> DEFINE g == PickedUpTo(queue, S)
<1>1. Picks(g, Len(queue), queue, S)
  BY PickedDefined
<1> HIDE DEF g
<1>2. g[0] = <<>>
  <2>1. 0 \in 0 .. Len(queue)
    OBVIOUS
  <2> QED
    BY <1>1, <2>1 DEF Picks
<1>3. ASSUME NEW k \in 1 .. Len(queue)
      PROVE  g[k] = IF queue[k] \in S THEN Append(g[k - 1], queue[k]) ELSE g[k - 1]
  <2>1. k \in 0 .. Len(queue) /\ k # 0
    OBVIOUS
  <2> QED
    BY <1>1, <2>1 DEF Picks
<1> QED
  BY <1>2, <1>3 DEF g

\* What is picked is a sequence of elements of the set, and nothing is picked
\* from an empty queue.
LEMMA PickedType ==
  ASSUME NEW queue, NEW S, Len(queue) \in Nat
  PROVE  /\ \A k \in 0 .. Len(queue) : PickedUpTo(queue, S)[k] \in Seq(S)
         /\ Picked(queue, S) \in Seq(S)
         /\ Len(queue) = 0 => Picked(queue, S) = <<>>
<1> DEFINE g == PickedUpTo(queue, S)
           T == {k \in Nat : k <= Len(queue) => g[k] \in Seq(S)}
<1>1. /\ g[0] = <<>>
      /\ \A k \in 1 .. Len(queue) :
           g[k] = IF queue[k] \in S THEN Append(g[k - 1], queue[k]) ELSE g[k - 1]
  BY PickedStep
<1> HIDE DEF g
<1>2. 0 \in T
  <2>1. g[0] \in Seq(S)
    BY <1>1, EmptySeq
  <2> QED
    BY <2>1
<1>3. ASSUME NEW k \in Nat, k \in T PROVE k + 1 \in T
  <2> SUFFICES ASSUME k + 1 <= Len(queue) PROVE g[k + 1] \in Seq(S)
    OBVIOUS
  <2>1. k + 1 \in 1 .. Len(queue) /\ (k + 1) - 1 = k /\ g[k] \in Seq(S)
    BY <1>3
  <2>2. g[k + 1] = IF queue[k + 1] \in S THEN Append(g[k], queue[k + 1]) ELSE g[k]
    BY <1>1, <2>1
  <2> QED
    BY <2>1, <2>2
<1> HIDE DEF T
<1>4. \A k \in Nat : k \in T
  BY <1>2, <1>3, InductiveSet
<1>5. \A k \in 0 .. Len(queue) : g[k] \in Seq(S)
  BY <1>4 DEF T
<1> QED
  BY <1>1, <1>5 DEF Picked, g

\* An element of the set that is put into the queue is picked after the others.
LEMMA PickedAppend ==
  ASSUME NEW F, NEW queue \in Seq(F), NEW x \in F, NEW S
  PROVE  Picked(Append(queue, x), S) =
           IF x \in S THEN Append(Picked(queue, S), x) ELSE Picked(queue, S)
<1> DEFINE n == Len(queue)
           more == Append(queue, x)
           g == PickedUpTo(queue, S)
           h == PickedUpTo(more, S)
           T == {k \in Nat : k <= n => h[k] = g[k]}
<1>1. /\ n \in Nat /\ Len(more) = n + 1 /\ more[n + 1] = x
      /\ \A k \in 1 .. n : more[k] = queue[k]
  OBVIOUS
<1>2. /\ g[0] = <<>>
      /\ \A k \in 1 .. n : g[k] = IF queue[k] \in S THEN Append(g[k - 1], queue[k]) ELSE g[k - 1]
  BY <1>1, PickedStep
<1> HIDE DEF more
<1>3. /\ h[0] = <<>>
      /\ \A k \in 1 .. n + 1 : h[k] = IF more[k] \in S THEN Append(h[k - 1], more[k]) ELSE h[k - 1]
  BY <1>1, PickedStep
<1> HIDE DEF g, h
<1>4. 0 \in T
  BY <1>2, <1>3
<1>5. ASSUME NEW k \in Nat, k \in T PROVE k + 1 \in T
  <2> SUFFICES ASSUME k + 1 <= n PROVE h[k + 1] = g[k + 1]
    OBVIOUS
  <2>1. k + 1 \in 1 .. n /\ k + 1 \in 1 .. n + 1 /\ (k + 1) - 1 = k /\ h[k] = g[k]
    BY <1>1, <1>5
  <2>2. more[k + 1] = queue[k + 1]
    BY <1>1, <2>1
  <2>3. g[k + 1] = IF queue[k + 1] \in S THEN Append(g[k], queue[k + 1]) ELSE g[k]
    BY <1>2, <2>1
  <2>4. h[k + 1] = IF more[k + 1] \in S THEN Append(h[k], more[k + 1]) ELSE h[k]
    BY <1>3, <2>1
  <2> QED
    BY <2>1, <2>2, <2>3, <2>4
<1> HIDE DEF T
<1>6. h[n] = g[n]
  <2>1. n \in T
    BY <1>1, <1>4, <1>5, InductiveSet
  <2> QED
    BY <2>1 DEF T
<1>7. n + 1 \in 1 .. n + 1 /\ (n + 1) - 1 = n
  BY <1>1
<1>8. h[n + 1] = IF x \in S THEN Append(g[n], x) ELSE g[n]
  BY <1>1, <1>3, <1>6, <1>7
<1> QED
  BY <1>1, <1>8 DEF Picked, g, h, more

\* An element of the set at the head of the queue is picked before the others.
LEMMA PickedTail ==
  ASSUME NEW F, NEW queue \in Seq(F), queue # <<>>, NEW S
  PROVE  LET picked == Picked(queue, S) IN
         /\ Head(queue) \in S =>
              /\ picked # <<>> /\ Head(picked) = Head(queue)
              /\ Picked(Tail(queue), S) = Tail(picked)
         /\ Head(queue) \notin S => Picked(Tail(queue), S) = picked
<1> DEFINE n == Len(queue)
           x == Head(queue)
           rest == Tail(queue)
           g == PickedUpTo(queue, S)
           h == PickedUpTo(rest, S)
           Shifted(r, t) ==
             IF x \in S THEN r # <<>> /\ Head(r) = x /\ Tail(r) = t ELSE r = t
           T == {k \in Nat : k <= n - 1 => Shifted(g[k + 1], h[k])}
<1>1. /\ n \in Nat \ {0} /\ Len(rest) = n - 1 /\ queue[1] = x
      /\ \A k \in 1 .. n - 1 : rest[k] = queue[k + 1]
  OBVIOUS
<1>2. /\ g[0] = <<>>
      /\ \A k \in 1 .. n : g[k] = IF queue[k] \in S THEN Append(g[k - 1], queue[k]) ELSE g[k - 1]
      /\ \A k \in 0 .. n : g[k] \in Seq(S)
  BY <1>1, PickedStep, PickedType
<1> HIDE DEF rest, x
<1>3. /\ h[0] = <<>>
      /\ \A k \in 1 .. n - 1 : h[k] = IF rest[k] \in S THEN Append(h[k - 1], rest[k]) ELSE h[k - 1]
  BY <1>1, PickedStep
<1> HIDE DEF g, h
<1>4. 0 \in T
  <2>1. 1 \in 1 .. n /\ 1 - 1 = 0 /\ 0 + 1 = 1
    BY <1>1
  <2>2. g[1] = IF x \in S THEN <<x>> ELSE <<>>
    <3>1. g[1] = IF queue[1] \in S THEN Append(g[1 - 1], queue[1]) ELSE g[1 - 1]
      BY <1>2, <2>1
    <3>2. Append(<<>>, x) = <<x>>
      OBVIOUS
    <3> QED
      BY <1>1, <1>2, <2>1, <3>1, <3>2
  <2>3. x \in S => <<x>> # <<>> /\ Head(<<x>>) = x /\ Tail(<<x>>) = <<>>
    OBVIOUS
  <2> QED
    BY <1>3, <2>1, <2>2, <2>3
<1>5. ASSUME NEW k \in Nat, k \in T PROVE k + 1 \in T
  <2> SUFFICES ASSUME k + 1 <= n - 1 PROVE Shifted(g[(k + 1) + 1], h[k + 1])
    OBVIOUS
  <2>1. /\ k + 1 \in 1 .. n - 1 /\ k + 2 \in 1 .. n /\ k + 1 \in 0 .. n
        /\ (k + 1) - 1 = k /\ (k + 2) - 1 = k + 1 /\ (k + 1) + 1 = k + 2
        /\ Shifted(g[k + 1], h[k])
    BY <1>1, <1>5
  <2> DEFINE y == queue[k + 2]
  <2>2. rest[k + 1] = y
    BY <1>1, <2>1
  <2>3. g[k + 2] = IF y \in S THEN Append(g[k + 1], y) ELSE g[k + 1]
    BY <1>2, <2>1
  <2>4. h[k + 1] = IF y \in S THEN Append(h[k], y) ELSE h[k]
    BY <1>3, <2>1, <2>2
  <2>5. g[k + 1] \in Seq(S)
    BY <1>2, <2>1
  <2> HIDE DEF y, Shifted
  <2>6. ASSUME y \in S PROVE Shifted(Append(g[k + 1], y), Append(h[k], y))
    <3> DEFINE s == g[k + 1]
    <3>1. /\ Append(s, y) # <<>>
          /\ Head(Append(s, y)) = IF s = <<>> THEN y ELSE Head(s)
          /\ Tail(Append(s, y)) = IF s = <<>> THEN <<>> ELSE Append(Tail(s), y)
      BY <2>5, <2>6, HeadTailAppend, AppendProperties
    <3> QED
      BY <2>1, <3>1 DEF Shifted
  <2> QED
    BY <2>1, <2>3, <2>4, <2>6
<1> HIDE DEF T
<1>6. Shifted(g[n], h[n - 1])
  <2>1. n - 1 \in T
    BY <1>1, <1>4, <1>5, InductiveSet
  <2>2. (n - 1) + 1 = n
    BY <1>1
  <2> QED
    BY <1>1, <2>1, <2>2 DEF T
<1> QED
  BY <1>1, <1>6 DEF Picked, g, h, x, rest

----------------------------------------------------------------------------
(* Types *)

Octet == Nat \X Nat
DataFrames == [type : {"SF", "FF"}, dl : Nat, ext : Nat, bytes : Seq(Octet)]
                \cup [type : {"CF"}, sn : 0 .. SNMod - 1, bytes : Seq(Octet)]
CtsFrames == [type : {"FC"}, fs : {"CTS"}, bs : Nat, msg : Nat]
Frames == DataFrames \cup CtsFrames

PyLocals == [pc : {"idle", "send", "fc", "cf", "recv", "multi"}, offset : Nat,
             sn : 0 .. SNMod - 1, block_size : Nat, block_count : Nat,
             buf : Seq(Octet), total : Nat, expected_sn : 0 .. SNMod - 1]
TxLocals == [pc : {"idle", "first", "fc", "cf"}, offset : Nat, sn : 0 .. SNMod - 1,
             waits : Nat, bs : Nat, bs_sent : Nat]
RxLocals == [pc : {"first", "cf"}, total_len : Nat, buf : Seq(Octet),
             expected_sn : 0 .. SNMod - 1, bs_count : Nat]

IsPdu(m, pdu) ==
  pdu \in Seq(Octet) /\ Len(pdu) \in Nat \ {0} /\ pdu = EcuIn!Pdu(m, Len(pdu))

\* What the receivers rely on when they copy from a frame.
Announced(mode, frame) == IF mode /\ frame.dl = 0 THEN frame.ext ELSE frame.dl
Sized(mode, frame) ==
  /\ frame \in Frames
  /\ frame.type = "SF" => Announced(mode, frame) = Len(frame.bytes)
  /\ frame.type = "FF" => Len(frame.bytes) > 0
  /\ frame.type = "CF" => Len(frame.bytes) = IF mode THEN FdCFData ELSE CFData

\* A first frame to the ECU may announce less than it brings, when its length
\* was cut, one to the tester does not.
EcuFrame(mode, calls, frame) ==
  Sized(mode, frame) /\ (frame.type = "FF" => EcuIn!MsgOf(frame.bytes) \in 1 .. calls)
TesterFrame(mode, frame) ==
  Sized(mode, frame) /\ (frame.type = "FF" => Len(frame.bytes) <= Announced(mode, frame))

\* What a tester's or an ECU's call holds.
LocalsInv ==
  /\ py \in PyLocals /\ Len(py.buf) <= py.total
  /\ py.pc # "idle" => Len(asked) > 0
  /\ rx \in RxLocals /\ tx \in TxLocals
  /\ rx.pc = "cf" => Len(rx.buf) > 0
  /\ tx.pc # "idle" => Len(sent) > 0
  /\ ~ Listening => rx = EcuIn!IdleRx

QueuesInv ==
  /\ toEcu \in Seq(Frames) /\ toTester \in Seq(Frames)
  /\ \A p \in 1 .. Len(toEcu) : EcuFrame(fd, Len(asked), toEcu[p])
  /\ \A p \in 1 .. Len(toTester) : TesterFrame(fd, toTester[p])

HistoryInv ==
  /\ asked \in Seq(Seq(Octet)) /\ sent \in Seq(Seq(Octet))
  /\ \A m \in 1 .. Len(asked) : IsPdu(m, asked[m])
  /\ \A m \in 1 .. Len(sent) : IsPdu(m, sent[m])
  /\ got \in Seq(Seq(Octet)) /\ answers \in Seq(Seq(Octet))
  /\ Len(sent) <= Len(got)
  /\ unsent \subseteq 1 .. Len(asked) /\ pyStale \cup lostReq \subseteq 1 .. Len(asked)
  /\ faults \in 0 .. MaxFaults /\ bus \in Buses /\ fd \in Modes

TypeInv == LocalsInv /\ QueuesInv /\ HistoryInv

\* What IsoTp assumes of its constants.
LEMMA Constants ==
  /\ SFMax \in Nat /\ CFData \in Nat \ {0} /\ SNMod \in Nat \ {0, 1}
  /\ FFData \in 1 .. SFMax
  /\ FdSFMax \in Nat /\ FdCFData \in Nat \ {0} /\ SFMax < FdSFMax
  /\ FdFFData \in 1 .. FdSFMax /\ FdFFExtData \in 1 .. FdSFMax
  /\ FFMaxLen \in Nat /\ FdSFMax < FFMaxLen
  /\ MaxWait \in Nat /\ BlockSize \in Nat /\ MaxSends \in Nat /\ MaxFaults \in Nat
  /\ BufSize \in [BOOLEAN -> Nat]
  /\ Modes \subseteq BOOLEAN
  /\ Buses \subseteq {"clean", "faulty"}
  /\ Lengths \in [Buses -> [Modes -> SUBSET (Nat \ {0})]]
BY SidesAssumption DEF EcuIn!TransportAssumption

\* A frame is taken from a queue.
LEMMA TailFacts ==
  ASSUME NEW S, NEW q \in Seq(S), q # <<>>
  PROVE  /\ Tail(q) \in Seq(S)
         /\ Len(q) \in Nat \ {0} /\ Len(Tail(q)) = Len(q) - 1
         /\ Head(q) = q[1] /\ 1 \in 1 .. Len(q) /\ q[1] \in S
         /\ \A p \in 1 .. Len(Tail(q)) : Tail(q)[p] = q[p + 1] /\ p + 1 \in 1 .. Len(q)
OBVIOUS

\* A frame is put into a queue.
LEMMA AppendFacts ==
  ASSUME NEW S, NEW q \in Seq(S), NEW x \in S
  PROVE  /\ Append(q, x) \in Seq(S)
         /\ Len(q) \in Nat /\ Len(Append(q, x)) = Len(q) + 1
         /\ Append(q, x)[Len(q) + 1] = x
         /\ \A p \in 1 .. Len(q) : Append(q, x)[p] = q[p]
         /\ \A p \in 1 .. Len(q) + 1 : p \in 1 .. Len(q) \/ p = Len(q) + 1
OBVIOUS

\* What may happen to a queue: a frame is taken, or one is put into it.
Taken(queue, next) == queue # <<>> /\ next = Tail(queue)

\* The frames to the ECU stay what they are when more requests are made.
LEMMA ToEcuStep ==
  ASSUME NEW mode, NEW queue \in Seq(Frames), NEW next, NEW calls \in Nat, NEW more \in Nat,
         calls <= more, \A p \in 1 .. Len(queue) : EcuFrame(mode, calls, queue[p]),
         \/ next = queue
         \/ Taken(queue, next)
         \/ \E frame : EcuFrame(mode, more, frame) /\ next = Append(queue, frame)
  PROVE  next \in Seq(Frames) /\ \A p \in 1 .. Len(next) : EcuFrame(mode, more, next[p])
<1>1. \A frame : EcuFrame(mode, calls, frame) => EcuFrame(mode, more, frame)
  BY DEF EcuFrame
<1>2. CASE next = queue
  BY <1>1, <1>2
<1>3. CASE Taken(queue, next)
  BY <1>1, <1>3, TailFacts DEF Taken
<1>4. ASSUME NEW frame, EcuFrame(mode, more, frame), next = Append(queue, frame)
      PROVE  next \in Seq(Frames) /\ \A p \in 1 .. Len(next) : EcuFrame(mode, more, next[p])
  <2>1. frame \in Frames
    BY <1>4 DEF EcuFrame, Sized
  <2> QED
    BY <1>1, <1>4, <2>1, AppendFacts
<1> QED
  BY <1>2, <1>3, <1>4

\* Likewise the frames to the tester.
LEMMA ToTesterStep ==
  ASSUME NEW mode, NEW queue \in Seq(Frames), NEW next,
         \A p \in 1 .. Len(queue) : TesterFrame(mode, queue[p]),
         \/ next = queue
         \/ Taken(queue, next)
         \/ \E frame : TesterFrame(mode, frame) /\ next = Append(queue, frame)
  PROVE  next \in Seq(Frames) /\ \A p \in 1 .. Len(next) : TesterFrame(mode, next[p])
<1>1. CASE next = queue
  BY <1>1
<1>2. CASE Taken(queue, next)
  BY <1>2, TailFacts DEF Taken
<1>3. ASSUME NEW frame, TesterFrame(mode, frame), next = Append(queue, frame)
      PROVE  next \in Seq(Frames) /\ \A p \in 1 .. Len(next) : TesterFrame(mode, next[p])
  <2>1. frame \in Frames
    BY <1>3 DEF TesterFrame, Sized
  <2> QED
    BY <1>3, <2>1, AppendFacts
<1> QED
  BY <1>1, <1>2, <1>3

\* A byte of a PDU is one of its call.
LEMMA PduFacts ==
  ASSUME NEW m \in Nat, NEW pdu, IsPdu(m, pdu)
  PROVE  /\ pdu \in Seq(Octet) /\ Len(pdu) \in Nat \ {0}
         /\ \A k \in 1 .. Len(pdu) : pdu[k] = <<m, k>> /\ pdu[k] \in Octet
         /\ EcuIn!MsgOf(pdu) = m
<1>1. pdu \in Seq(Octet) /\ Len(pdu) \in Nat \ {0} /\ pdu = [k \in 1 .. Len(pdu) |-> <<m, k>>]
  BY DEF IsPdu, EcuIn!Pdu
<1>2. \A k \in 1 .. Len(pdu) : pdu[k] = <<m, k>>
  BY <1>1
<1> QED
  BY <1>1, <1>2 DEF EcuIn!MsgOf

\* The first bytes of a PDU, and the bytes of a consecutive frame.
LEMMA Prefix ==
  ASSUME NEW m \in Nat, NEW pdu, IsPdu(m, pdu), NEW n \in 1 .. Len(pdu)
  PROVE  /\ SubSeq(pdu, 1, n) \in Seq(Octet) /\ Len(SubSeq(pdu, 1, n)) = n
         /\ EcuIn!MsgOf(SubSeq(pdu, 1, n)) = m
<1>1. pdu \in Seq(Octet) /\ pdu[1] = <<m, 1>>
  BY PduFacts
<1>2. SubSeq(pdu, 1, n) \in Seq(Octet) /\ Len(SubSeq(pdu, 1, n)) = n
  BY <1>1
<1>3. SubSeq(pdu, 1, n)[1] = pdu[1]
  BY <1>1
<1> QED
  BY <1>1, <1>2, <1>3 DEF EcuIn!MsgOf

\* A consecutive frame is full, whatever part of the PDU it brings.
LEMMA PaddedFacts ==
  ASSUME NEW pdu \in Seq(Octet), NEW from \in Nat, NEW to \in 0 .. Len(pdu), NEW size \in Nat
  PROVE  LET bytes == EcuIn!Padded(SubSeq(pdu, from + 1, to), size) IN
         bytes \in Seq(Octet) /\ Len(bytes) = size
<1> DEFINE chunk == SubSeq(pdu, from + 1, to)
           bytes == EcuIn!Padded(chunk, size)
<1>1. \A k \in 1 .. Len(chunk) : chunk[k] \in Octet
  OBVIOUS
<1>2. EcuIn!Pad \in Octet
  BY DEF EcuIn!Pad, Octet
<1> HIDE DEF chunk
<1>3. bytes = [k \in 1 .. size |-> IF k <= Len(chunk) THEN chunk[k] ELSE EcuIn!Pad]
  BY DEF EcuIn!Padded
<1>4. Len(chunk) \in Nat
  BY DEF chunk
<1>5. bytes \in [1 .. size -> Octet]
  BY <1>1, <1>2, <1>3, <1>4
<1> QED
  BY <1>5 DEF chunk

\* The frames of a request.
LEMMA RequestFrames ==
  ASSUME fd \in BOOLEAN, NEW calls \in Nat, NEW m \in 1 .. calls, NEW pdu, IsPdu(m, pdu)
  PROVE  /\ EcuFrame(fd, calls, _send_sf(pdu))
         /\ Len(pdu) > EcuIn!SFLimit => EcuFrame(fd, calls, FirstFrame(pdu))
         /\ \A from \in Nat, to \in 0 .. Len(pdu), sn \in 0 .. SNMod - 1 :
              EcuFrame(fd, calls, ConsecutiveFrame(SubSeq(pdu, from + 1, to), sn))
<1>1. pdu \in Seq(Octet) /\ Len(pdu) \in Nat \ {0} /\ m \in Nat
  BY PduFacts
<1>2. EcuFrame(fd, calls, _send_sf(pdu))
  <2>1. _send_sf(pdu) \in DataFrames /\ _send_sf(pdu).type = "SF"
    BY <1>1 DEF _send_sf, DataFrames
  <2>2. Announced(fd, _send_sf(pdu)) = Len(_send_sf(pdu).bytes)
    BY <1>1, Constants DEF _send_sf, Announced
  <2> QED
    BY <2>1, <2>2 DEF EcuFrame, Sized, Frames
<1>3. ASSUME Len(pdu) > EcuIn!SFLimit PROVE EcuFrame(fd, calls, FirstFrame(pdu))
  <2> DEFINE f == FirstFrame(pdu)
  <2>1. embed(pdu) \in 1 .. Len(pdu)
    BY <1>1, <1>3, Constants DEF embed, EcuIn!SFLimit
  <2>2. f.type = "FF" /\ f.bytes = SubSeq(pdu, 1, embed(pdu))
    BY DEF FirstFrame
  <2>3. f.bytes \in Seq(Octet) /\ Len(f.bytes) > 0 /\ EcuIn!MsgOf(f.bytes) = m
    BY <1>1, <2>1, <2>2, Prefix
  <2>4. f \in DataFrames
    <3>1. Len(pdu) % (FFMaxLen + 1) \in Nat
      BY <1>1, Constants
    <3> QED
      BY <1>1, <2>2, <2>3, <3>1 DEF FirstFrame, DataFrames
  <2> QED
    BY <2>2, <2>3, <2>4 DEF EcuFrame, Sized, Frames
<1>4. ASSUME NEW from \in Nat, NEW to \in 0 .. Len(pdu), NEW sn \in 0 .. SNMod - 1
      PROVE  EcuFrame(fd, calls, ConsecutiveFrame(SubSeq(pdu, from + 1, to), sn))
  <2> DEFINE f == ConsecutiveFrame(SubSeq(pdu, from + 1, to), sn)
             size == EcuIn!CFLimit
  <2>1. size \in Nat /\ size = IF fd THEN FdCFData ELSE CFData
    BY Constants DEF EcuIn!CFLimit
  <2>2. f.bytes \in Seq(Octet) /\ Len(f.bytes) = size
    BY <1>1, <2>1, PaddedFacts DEF ConsecutiveFrame
  <2>3. f \in DataFrames /\ f.type = "CF"
    BY <2>2 DEF ConsecutiveFrame, DataFrames
  <2> QED
    BY <2>1, <2>2, <2>3 DEF EcuFrame, Sized, Frames
<1> QED
  BY <1>2, <1>3, <1>4

\* The frames of a response.
LEMMA ResponseFrames ==
  ASSUME fd \in BOOLEAN, NEW m \in Nat, NEW pdu, IsPdu(m, pdu)
  PROVE  /\ TesterFrame(fd, EcuOut!EncodeSF(pdu))
         /\ Len(pdu) > EcuOut!SFLimit /\ (fd \/ Len(pdu) <= FFMaxLen) =>
              TesterFrame(fd, EcuOut!EncodeFF(pdu))
         /\ \A from \in Nat, to \in 0 .. Len(pdu), sn \in 0 .. SNMod - 1 :
              TesterFrame(fd, EcuOut!EncodeCF(SubSeq(pdu, from + 1, to), sn))
<1>1. pdu \in Seq(Octet) /\ Len(pdu) \in Nat \ {0}
  BY PduFacts
<1>2. TesterFrame(fd, EcuOut!EncodeSF(pdu))
  <2> DEFINE f == EcuOut!EncodeSF(pdu)
  <2>1. f \in DataFrames /\ f.type = "SF"
    BY <1>1, Constants
       DEF EcuOut!EncodeSF, EcuOut!uds_tp_encode_sf, EcuOut!uds_tp_encode_sf_fd, DataFrames
  <2>2. Announced(fd, f) = Len(f.bytes)
    BY <1>1, Constants
       DEF EcuOut!EncodeSF, EcuOut!uds_tp_encode_sf, EcuOut!uds_tp_encode_sf_fd, Announced
  <2> QED
    BY <2>1, <2>2 DEF TesterFrame, Sized, Frames
<1>3. ASSUME Len(pdu) > EcuOut!SFLimit, fd \/ Len(pdu) <= FFMaxLen
      PROVE  TesterFrame(fd, EcuOut!EncodeFF(pdu))
  <2> DEFINE f == EcuOut!EncodeFF(pdu)
             n == IF ~ fd THEN FFData ELSE IF Len(pdu) <= FFMaxLen THEN FdFFData ELSE FdFFExtData
  <2>1. n \in 1 .. Len(pdu)
    BY <1>1, <1>3, Constants DEF EcuOut!SFLimit
  <2>2. /\ f.type = "FF" /\ f.bytes = SubSeq(pdu, 1, n)
        /\ Announced(fd, f) = Len(pdu)
        /\ f.dl \in Nat /\ f.ext \in Nat
        /\ f = [type |-> "FF", dl |-> f.dl, ext |-> f.ext, bytes |-> SubSeq(pdu, 1, n)]
    BY <1>1 DEF EcuOut!EncodeFF, EcuOut!uds_tp_encode_ff, EcuOut!uds_tp_encode_ff_fd, Announced
  <2>3. SubSeq(pdu, 1, n) \in Seq(Octet) /\ Len(SubSeq(pdu, 1, n)) = n
    BY <2>1, Prefix
  <2> HIDE DEF n, f
  <2>4. f \in DataFrames
    BY <2>2, <2>3 DEF DataFrames
  <2> QED
    BY <2>1, <2>2, <2>3, <2>4 DEF TesterFrame, Sized, Frames, f
<1>4. ASSUME NEW from \in Nat, NEW to \in 0 .. Len(pdu), NEW sn \in 0 .. SNMod - 1
      PROVE  TesterFrame(fd, EcuOut!EncodeCF(SubSeq(pdu, from + 1, to), sn))
  <2> DEFINE f == EcuOut!EncodeCF(SubSeq(pdu, from + 1, to), sn)
             size == IF fd THEN FdCFData ELSE CFData
  <2>1. size \in Nat
    BY Constants
  <2>2. /\ f.bytes = EcuIn!Padded(SubSeq(pdu, from + 1, to), size)
        /\ f = [type |-> "CF", sn |-> sn, bytes |-> f.bytes]
    BY DEF EcuOut!EncodeCF, EcuOut!uds_tp_encode_cf, EcuOut!uds_tp_encode_cf_fd,
           EcuOut!Padded, EcuIn!Padded, EcuOut!Pad, EcuIn!Pad
  <2>3. f.bytes \in Seq(Octet) /\ Len(f.bytes) = size
    BY <1>1, <2>1, <2>2, PaddedFacts
  <2> HIDE DEF f
  <2>4. f \in DataFrames /\ f.type = "CF"
    BY <2>2, <2>3 DEF DataFrames
  <2> QED
    BY <2>3, <2>4 DEF TesterFrame, Sized, Frames, f
<1> QED
  BY <1>2, <1>3, <1>4

\* Flow control, in either direction.
LEMMA FlowFrames ==
  ASSUME NEW mode, NEW calls, NEW bs \in Nat, NEW bytes \in Seq(Octet), Len(bytes) > 0
  PROVE  LET f == EcuIn!uds_tp_encode_fc("CTS", bs, EcuIn!MsgOf(bytes)) IN
         f \in CtsFrames /\ EcuFrame(mode, calls, f) /\ TesterFrame(mode, f)
<1> DEFINE f == EcuIn!uds_tp_encode_fc("CTS", bs, EcuIn!MsgOf(bytes))
<1>1. EcuIn!MsgOf(bytes) \in Nat
  <2>1. bytes[1] \in Octet
    OBVIOUS
  <2> QED
    BY <2>1 DEF EcuIn!MsgOf, Octet
<1>2. f \in CtsFrames /\ f.type = "FC"
  BY <1>1 DEF EcuIn!uds_tp_encode_fc, CtsFrames
<1> QED
  BY <1>2 DEF EcuFrame, TesterFrame, Sized, Frames

----------------------------------------------------------------------------
(* The types hold *)

\* A call in progress works on a request of its own.
LEMMA CurrentRequest ==
  ASSUME TypeInv, py.pc # "idle"
  PROVE  /\ fd \in BOOLEAN
         /\ Len(asked) \in Nat \ {0} /\ Len(asked) \in 1 .. Len(asked)
         /\ IsPdu(Len(asked), request)
         /\ request \in Seq(Octet) /\ Len(request) \in Nat \ {0}
<1>1. Len(asked) \in Nat \ {0} /\ fd \in BOOLEAN
  BY Constants DEF TypeInv, LocalsInv, HistoryInv
<1> QED
  BY <1>1 DEF TypeInv, HistoryInv, request, IsPdu

\* Likewise the ECU's uds_tp_send, on a response.
LEMMA CurrentResponse ==
  ASSUME TypeInv, tx.pc # "idle"
  PROVE  /\ fd \in BOOLEAN
         /\ Len(sent) \in Nat \ {0} /\ Len(sent) \in 1 .. Len(sent)
         /\ IsPdu(Len(sent), EcuOut!data)
         /\ EcuOut!data \in Seq(Octet) /\ Len(EcuOut!data) \in Nat \ {0}
<1>1. Len(sent) \in Nat \ {0} /\ fd \in BOOLEAN
  BY Constants DEF TypeInv, LocalsInv, HistoryInv
<1> QED
  BY <1>1 DEF TypeInv, HistoryInv, EcuOut!data, IsPdu

\* The locals between two calls.
LEMMA IdleLocals ==
  /\ IdlePy \in PyLocals /\ IdlePy.pc = "idle" /\ IdlePy.buf = <<>> /\ IdlePy.total = 0
  /\ [IdlePy EXCEPT !.pc = "send"] \in PyLocals
  /\ [IdlePy EXCEPT !.pc = "recv"] \in PyLocals
  /\ EcuIn!IdleRx \in RxLocals /\ EcuIn!IdleRx.pc = "first"
  /\ EcuOut!IdleTx \in TxLocals /\ EcuOut!IdleTx.pc = "idle"
  /\ [EcuOut!IdleTx EXCEPT !.pc = "first"] \in TxLocals
  /\ 0 \in 0 .. SNMod - 1 /\ 1 \in 0 .. SNMod - 1
<1>1. 0 \in 0 .. SNMod - 1 /\ 1 \in 0 .. SNMod - 1 /\ <<>> \in Seq(Octet)
  BY Constants
<1> QED
  BY <1>1 DEF IdlePy, PyLocals, EcuIn!IdleRx, RxLocals, EcuOut!IdleTx, TxLocals

\* A step of the tester or a fault of its own.
LEMMA TesterStep ==
  ASSUME TypeInv,
         py' \in PyLocals, Len(py'.buf) <= py'.total, py'.pc # "idle" => Len(asked') > 0,
         asked' = asked \/ \E pdu : IsPdu(Len(asked) + 1, pdu) /\ asked' = Append(asked, pdu),
         unsent' \subseteq unsent \cup {Len(asked)}, pyStale' \subseteq pyStale \cup {Len(asked)},
         py.pc = "idle" => unsent' = unsent /\ pyStale' = pyStale,
         answers' \in Seq(Seq(Octet)),
         \/ toEcu' = toEcu
         \/ \E frame : EcuFrame(fd, Len(asked'), frame) /\ toEcu' = Append(toEcu, frame),
         toTester' = toTester \/ Taken(toTester, toTester'),
         UNCHANGED <<ecuVars, medium>>, faults' \in 0 .. MaxFaults
  PROVE  TypeInv'
<1>1. /\ LocalsInv /\ QueuesInv /\ HistoryInv /\ Len(asked) \in Nat
      /\ rx' = rx /\ tx' = tx /\ sent' = sent /\ got' = got
      /\ lostReq' = lostReq /\ bus' = bus /\ fd' = fd
  BY DEF TypeInv, HistoryInv, ecuVars, medium
<1>2. /\ asked' \in Seq(Seq(Octet)) /\ Len(asked') \in Nat /\ Len(asked) <= Len(asked')
      /\ \A m \in 1 .. Len(asked') : IsPdu(m, asked'[m])
  <2>1. CASE asked' = asked
    BY <1>1, <2>1 DEF HistoryInv
  <2>2. ASSUME NEW pdu, IsPdu(Len(asked) + 1, pdu), asked' = Append(asked, pdu)
        PROVE  /\ asked' \in Seq(Seq(Octet)) /\ Len(asked') \in Nat /\ Len(asked) <= Len(asked')
               /\ \A m \in 1 .. Len(asked') : IsPdu(m, asked'[m])
    <3>1. pdu \in Seq(Octet) /\ asked \in Seq(Seq(Octet))
      BY <1>1, <2>2 DEF IsPdu, HistoryInv
    <3>2. /\ asked' \in Seq(Seq(Octet)) /\ Len(asked') = Len(asked) + 1
          /\ asked'[Len(asked) + 1] = pdu
          /\ \A p \in 1 .. Len(asked) : asked'[p] = asked[p]
          /\ \A p \in 1 .. Len(asked) + 1 : p \in 1 .. Len(asked) \/ p = Len(asked) + 1
      BY <2>2, <3>1, AppendFacts
    <3> QED
      BY <1>1, <2>2, <3>2 DEF HistoryInv
  <2> QED
    BY <2>1, <2>2
<1>3. LocalsInv'
  BY <1>1 DEF LocalsInv, Listening
<1>4. QueuesInv'
  <2>1. /\ toEcu' \in Seq(Frames)
        /\ \A p \in 1 .. Len(toEcu') : EcuFrame(fd, Len(asked'), toEcu'[p])
    BY <1>1, <1>2, ToEcuStep DEF QueuesInv
  <2>2. /\ toTester' \in Seq(Frames)
        /\ \A p \in 1 .. Len(toTester') : TesterFrame(fd, toTester'[p])
    BY <1>1, ToTesterStep DEF QueuesInv
  <2> QED
    BY <1>1, <2>1, <2>2 DEF QueuesInv
<1>5. HistoryInv'
  <2>1. unsent' \subseteq 1 .. Len(asked') /\ pyStale' \cup lostReq \subseteq 1 .. Len(asked')
    <3>1. 1 .. Len(asked) \subseteq 1 .. Len(asked')
      BY <1>1, <1>2
    <3>2. /\ unsent \subseteq 1 .. Len(asked) /\ pyStale \subseteq 1 .. Len(asked)
          /\ lostReq \subseteq 1 .. Len(asked)
      BY <1>1 DEF HistoryInv
    <3>3. CASE py.pc = "idle"
      BY <3>1, <3>2, <3>3
    <3>4. CASE py.pc # "idle"
      <4>1. Len(asked) \in 1 .. Len(asked)
        BY <1>1, <3>4 DEF LocalsInv
      <4> QED
        BY <3>1, <3>2, <4>1
    <3> QED
      BY <3>3, <3>4
  <2> QED
    BY <1>1, <1>2, <2>1 DEF HistoryInv
<1> QED
  BY <1>3, <1>4, <1>5 DEF TypeInv

\* A step of the ECU, or a fault on its side.
LEMMA EcuStep ==
  ASSUME TypeInv,
         rx' \in RxLocals, rx'.pc = "cf" => Len(rx'.buf) > 0,
         tx' \in TxLocals, tx'.pc # "idle" => Len(sent') > 0,
         ~ Listening' => rx' = EcuIn!IdleRx,
         sent' = sent \/ \E pdu : IsPdu(Len(sent) + 1, pdu) /\ sent' = Append(sent, pdu),
         got' = got \/ \E pdu \in Seq(Octet) : got' = Append(got, pdu),
         Len(sent') <= Len(got'),
         toEcu' = toEcu \/ Taken(toEcu, toEcu'),
         \/ toTester' = toTester
         \/ Taken(toTester, toTester')
         \/ \E frame : TesterFrame(fd, frame) /\ toTester' = Append(toTester, frame),
         lostReq' \subseteq lostReq \cup 1 .. Len(asked),
         UNCHANGED <<testerVars, bus, fd>>, faults' \in 0 .. MaxFaults
  PROVE  TypeInv'
<1>1. /\ LocalsInv /\ QueuesInv /\ HistoryInv /\ Len(asked) \in Nat
      /\ py' = py /\ asked' = asked /\ unsent' = unsent /\ pyStale' = pyStale
      /\ answers' = answers /\ bus' = bus /\ fd' = fd
  BY DEF TypeInv, HistoryInv, testerVars
<1>2. sent' \in Seq(Seq(Octet)) /\ \A m \in 1 .. Len(sent') : IsPdu(m, sent'[m])
  <2>1. CASE sent' = sent
    BY <1>1, <2>1 DEF HistoryInv
  <2>2. ASSUME NEW pdu, IsPdu(Len(sent) + 1, pdu), sent' = Append(sent, pdu)
        PROVE  sent' \in Seq(Seq(Octet)) /\ \A m \in 1 .. Len(sent') : IsPdu(m, sent'[m])
    <3>1. pdu \in Seq(Octet) /\ sent \in Seq(Seq(Octet))
      BY <1>1, <2>2 DEF IsPdu, HistoryInv
    <3>2. /\ sent' \in Seq(Seq(Octet)) /\ Len(sent') = Len(sent) + 1
          /\ sent'[Len(sent) + 1] = pdu
          /\ \A p \in 1 .. Len(sent) : sent'[p] = sent[p]
          /\ \A p \in 1 .. Len(sent) + 1 : p \in 1 .. Len(sent) \/ p = Len(sent) + 1
      BY <2>2, <3>1, AppendFacts
    <3> QED
      BY <1>1, <2>2, <3>2 DEF HistoryInv
  <2> QED
    BY <2>1, <2>2
<1>3. LocalsInv'
  BY <1>1 DEF LocalsInv
<1>4. QueuesInv'
  <2>1. /\ toEcu' \in Seq(Frames)
        /\ \A p \in 1 .. Len(toEcu') : EcuFrame(fd, Len(asked), toEcu'[p])
    <3>1. /\ toEcu \in Seq(Frames) /\ Len(asked) <= Len(asked)
          /\ \A p \in 1 .. Len(toEcu) : EcuFrame(fd, Len(asked), toEcu[p])
      BY <1>1 DEF QueuesInv
    <3> QED
      BY <1>1, <3>1, ToEcuStep
  <2>2. /\ toTester' \in Seq(Frames)
        /\ \A p \in 1 .. Len(toTester') : TesterFrame(fd, toTester'[p])
    BY <1>1, ToTesterStep DEF QueuesInv
  <2> QED
    BY <1>1, <2>1, <2>2 DEF QueuesInv
<1>5. HistoryInv'
  <2>1. got' \in Seq(Seq(Octet))
    <3>1. got \in Seq(Seq(Octet))
      BY <1>1 DEF HistoryInv
    <3>2. \A pdu \in Seq(Octet) : Append(got, pdu) \in Seq(Seq(Octet))
      BY <3>1, AppendFacts
    <3> QED
      BY <3>1, <3>2
  <2>2. pyStale \cup lostReq' \subseteq 1 .. Len(asked)
    <3>1. pyStale \subseteq 1 .. Len(asked) /\ lostReq \subseteq 1 .. Len(asked)
      BY <1>1 DEF HistoryInv
    <3> QED
      BY <3>1
  <2> QED
    BY <1>1, <1>2, <2>1, <2>2 DEF HistoryInv
<1> QED
  BY <1>3, <1>4, <1>5 DEF TypeInv

\* A step of the tester that leaves the queues alone or takes the head of its
\* own, and ends the call without an answer.
LEMMA TesterRaises ==
  ASSUME TypeInv, py.pc # "idle", Raise, toEcu' = toEcu,
         toTester' = toTester \/ Taken(toTester, toTester'),
         UNCHANGED <<ecuVars, medium>>, faults' \in 0 .. MaxFaults
  PROVE  TypeInv'
<1>1. /\ py' = IdlePy /\ asked' = asked /\ pyStale' = pyStale /\ answers' = answers
      /\ unsent' \subseteq unsent \cup {Len(asked)}
  BY DEF Raise
<1>2. /\ py' \in PyLocals /\ Len(py'.buf) <= py'.total /\ py'.pc = "idle"
  BY <1>1, IdleLocals
<1>3. answers' \in Seq(Seq(Octet))
  BY <1>1 DEF TypeInv, HistoryInv
<1> QED
  BY <1>1, <1>2, <1>3, TesterStep

\* The number of the next consecutive frame.
LEMMA NextSnType ==
  ASSUME NEW sn \in Nat
  PROVE  NextSn(sn) \in 0 .. SNMod - 1
BY Constants DEF NextSn

\* What a receiver copies from a consecutive frame.
LEMMA CopyFacts ==
  ASSUME NEW bytes \in Seq(Octet), NEW buf \in Seq(Octet), NEW missing \in Int,
         NEW size \in Nat \ {0}, Len(bytes) = size
  PROVE  LET copied == SubSeq(bytes, 1, EcuIn!Smaller(size, missing)) IN
         /\ buf \o copied \in Seq(Octet)
         /\ Len(buf \o copied) >= Len(buf)
         /\ missing >= 0 => Len(buf \o copied) <= Len(buf) + missing
<1> DEFINE n == EcuIn!Smaller(size, missing)
           copied == SubSeq(bytes, 1, n)
<1>1. n \in Int /\ n <= size /\ n <= missing
  BY DEF EcuIn!Smaller
<1>2. copied \in Seq(Octet) /\ Len(copied) \in Nat /\ (missing >= 0 => Len(copied) <= missing)
  <2>1. \A i \in 1 .. n : bytes[i] \in Octet
    BY <1>1
  <2> HIDE DEF n
  <2>2. /\ copied \in Seq(Octet)
        /\ Len(copied) = IF 1 <= n THEN n - 1 + 1 ELSE 0
    BY <1>1, <2>1, SubSeqProperties
  <2> QED
    BY <1>1, <2>2
<1> HIDE DEF copied
<1> QED
  BY <1>2 DEF copied

\* What TypeInv says of the tester and of both queues.
LEMMA TypeFacts ==
  ASSUME TypeInv
  PROVE  /\ py \in PyLocals /\ Len(py.buf) <= py.total
         /\ rx \in RxLocals /\ tx \in TxLocals
         /\ toEcu \in Seq(Frames) /\ toTester \in Seq(Frames)
         /\ \A p \in 1 .. Len(toEcu) : EcuFrame(fd, Len(asked), toEcu[p])
         /\ \A p \in 1 .. Len(toTester) : TesterFrame(fd, toTester[p])
         /\ Len(asked) \in Nat /\ Len(sent) \in Nat /\ Len(got) \in Nat
         /\ answers \in Seq(Seq(Octet)) /\ got \in Seq(Seq(Octet))
         /\ faults \in 0 .. MaxFaults /\ fd \in BOOLEAN
<1>1. /\ py \in PyLocals /\ Len(py.buf) <= py.total
      /\ rx \in RxLocals /\ tx \in TxLocals
  BY DEF TypeInv, LocalsInv
<1>2. /\ toEcu \in Seq(Frames) /\ toTester \in Seq(Frames)
      /\ \A p \in 1 .. Len(toEcu) : EcuFrame(fd, Len(asked), toEcu[p])
      /\ \A p \in 1 .. Len(toTester) : TesterFrame(fd, toTester[p])
  BY DEF TypeInv, QueuesInv
<1>3. /\ Len(asked) \in Nat /\ Len(sent) \in Nat /\ Len(got) \in Nat
      /\ answers \in Seq(Seq(Octet)) /\ got \in Seq(Seq(Octet))
      /\ faults \in 0 .. MaxFaults /\ fd \in BOOLEAN
  BY Constants DEF TypeInv, HistoryInv
<1> QED
  BY <1>1, <1>2, <1>3

\* _request and the steps of send().
LEMMA SendTyped ==
  ASSUME TypeInv, \/ \E len \in Lengths[bus][fd] : _request(len)
                  \/ SendFirst \/ _check_fc_continue \/ SendCF
  PROVE  TypeInv'
<1>1. /\ py \in PyLocals /\ Len(py.buf) <= py.total /\ faults \in 0 .. MaxFaults
      /\ Len(asked) \in Nat /\ answers \in Seq(Seq(Octet)) /\ toTester \in Seq(Frames)
      /\ \A p \in 1 .. Len(toTester) : TesterFrame(fd, toTester[p])
  BY TypeFacts
<1>2. ASSUME NEW len \in Lengths[bus][fd], _request(len)
      PROVE  TypeInv'
  <2>1. IsPdu(Len(asked) + 1, EcuIn!Pdu(Len(asked) + 1, len))
    <3>1. len \in Nat \ {0}
      BY <1>2, Constants DEF TypeInv, HistoryInv
    <3>2. EcuIn!Pdu(Len(asked) + 1, len) \in [1 .. len -> Octet]
      BY <1>1, <3>1 DEF EcuIn!Pdu, Octet
    <3>3. EcuIn!Pdu(Len(asked) + 1, len) \in Seq(Octet) /\ Len(EcuIn!Pdu(Len(asked) + 1, len)) = len
      BY <3>1, <3>2
    <3> QED
      BY <3>1, <3>3 DEF IsPdu
  <2>2. /\ asked' = Append(asked, EcuIn!Pdu(Len(asked) + 1, len))
        /\ py' = [IdlePy EXCEPT !.pc = "send"]
        /\ unsent' = unsent /\ pyStale' = pyStale /\ answers' = answers
        /\ toEcu' = toEcu /\ toTester' = toTester
        /\ UNCHANGED <<ecuVars, medium>> /\ faults' = faults
    BY <1>2 DEF _request
  <2>3. Len(asked') > 0
    <3>1. asked \in Seq(Seq(Octet))
      BY DEF TypeInv, HistoryInv
    <3>2. EcuIn!Pdu(Len(asked) + 1, len) \in Seq(Octet)
      BY <2>1 DEF IsPdu
    <3> QED
      BY <2>2, <3>1, <3>2, AppendFacts
  <2>4. py' \in PyLocals /\ Len(py'.buf) <= py'.total
    BY <2>2, IdleLocals DEF IdlePy
  <2> QED
    BY <1>1, <2>1, <2>2, <2>3, <2>4, TesterStep
<1>3. CASE SendFirst
  <2>1. /\ UNCHANGED <<asked, unsent, pyStale, answers>>
        /\ UNCHANGED <<toTester, ecuVars, medium>> /\ faults' = faults /\ py.pc # "idle"
    BY <1>3 DEF SendFirst, Goto
  <2>2. /\ fd \in BOOLEAN /\ Len(asked) \in 1 .. Len(asked) /\ IsPdu(Len(asked), request)
        /\ Len(request) \in Nat /\ Len(asked') > 0
    BY <2>1, CurrentRequest
  <2>3. CASE /\ toEcu' = Append(toEcu, _send_sf(request))
             /\ py' = [IdlePy EXCEPT !.pc = "recv"]
    <3>1. EcuFrame(fd, Len(asked'), _send_sf(request))
      BY <1>1, <2>1, <2>2, RequestFrames
    <3>2. py' \in PyLocals /\ Len(py'.buf) <= py'.total
      BY <2>3, IdleLocals DEF IdlePy
    <3> QED
      BY <1>1, <2>1, <2>2, <2>3, <3>1, <3>2, TesterStep
  <2>4. CASE /\ Len(request) > EcuIn!SFLimit
             /\ toEcu' = Append(toEcu, FirstFrame(request))
             /\ py' = [py EXCEPT !.pc = "fc", !.offset = embed(request), !.sn = 1]
    <3>1. EcuFrame(fd, Len(asked'), FirstFrame(request))
      BY <1>1, <2>1, <2>2, <2>4, RequestFrames
    <3>2. embed(request) \in Nat
      BY Constants DEF embed
    <3>3. py' \in PyLocals /\ Len(py'.buf) <= py'.total
      BY <1>1, <2>4, <3>2, IdleLocals DEF PyLocals
    <3> QED
      BY <1>1, <2>1, <2>2, <2>4, <3>1, <3>3, TesterStep
  <2> QED
    BY <1>3, <2>3, <2>4 DEF SendFirst, Goto
<1>4. CASE _check_fc_continue
  <2> DEFINE fc == Head(toTester)
  <2>1. /\ py.pc # "idle" /\ Taken(toTester, toTester') /\ toEcu' = toEcu
        /\ UNCHANGED <<ecuVars, medium>> /\ faults' = faults
    BY <1>4 DEF _check_fc_continue, Taken
  <2>2. CASE Raise
    BY <1>1, <2>1, <2>2, TesterRaises
  <2>3. CASE /\ fc.type = "FC"
             /\ py' = [py EXCEPT !.pc = IF py.offset < Len(request) THEN "cf" ELSE "recv",
                                 !.block_size = fc.bs, !.block_count = 0]
             /\ pyStale' = IF fc.msg = Len(asked) THEN pyStale ELSE pyStale \cup {Len(asked)}
             /\ UNCHANGED <<asked, unsent, answers>>
    <3>1. fc \in Frames
      BY <1>1, <2>1, TailFacts DEF Taken
    <3>2. fc.bs \in Nat
      BY <2>3, <3>1 DEF Frames, DataFrames, CtsFrames
    <3>3. py' \in PyLocals /\ Len(py'.buf) <= py'.total
      BY <1>1, <2>3, <3>2 DEF PyLocals
    <3>4. Len(asked') > 0
      BY <2>1, <2>3, CurrentRequest
    <3> QED
      BY <1>1, <2>1, <2>3, <3>3, <3>4, TesterStep
  <2> QED
    BY <1>4, <2>2, <2>3 DEF _check_fc_continue
<1>5. CASE SendCF
  <2> DEFINE offset == EcuIn!Smaller(py.offset + EcuIn!CFLimit, Len(request))
             frame == ConsecutiveFrame(SubSeq(request, py.offset + 1, offset), py.sn)
             next == AfterCF(offset, py.block_count + 1)
  <2>1. /\ UNCHANGED <<asked, unsent, pyStale, answers>>
        /\ UNCHANGED <<toTester, ecuVars, medium>> /\ faults' = faults /\ py.pc # "idle"
        /\ toEcu' = Append(toEcu, frame)
        /\ py' = [py EXCEPT !.pc = next, !.offset = offset, !.sn = NextSn(@),
                            !.block_count = py.block_count + 1]
    BY <1>5 DEF SendCF, Goto
  <2>2. /\ fd \in BOOLEAN /\ Len(asked) \in 1 .. Len(asked) /\ IsPdu(Len(asked), request)
        /\ Len(request) \in Nat /\ Len(asked') > 0
    BY <2>1, CurrentRequest
  <2>3. /\ py.offset \in Nat /\ py.sn \in 0 .. SNMod - 1 /\ py.sn \in Nat /\ py.block_count \in Nat
    BY <1>1, Constants DEF PyLocals
  <2>4. offset \in 0 .. Len(request)
    BY <2>2, <2>3, Constants DEF EcuIn!Smaller, EcuIn!CFLimit
  <2>5. EcuFrame(fd, Len(asked'), frame)
    <3> HIDE DEF offset
    <3> QED
      BY <1>1, <2>1, <2>2, <2>3, <2>4, RequestFrames
  <2>6. next \in {"fc", "cf", "recv"} /\ NextSn(py.sn) \in 0 .. SNMod - 1
    BY <2>3, NextSnType DEF AfterCF
  <2> HIDE DEF offset, frame, next
  <2>7. py' \in PyLocals /\ Len(py'.buf) <= py'.total
    <3> DEFINE sn == NextSn(py.sn)
               count == py.block_count + 1
    <3>1. sn \in 0 .. SNMod - 1 /\ count \in Nat /\ offset \in Nat
      BY <2>2, <2>3, <2>4, <2>6
    <3>2. py' = [py EXCEPT !.pc = next, !.offset = offset, !.sn = sn, !.block_count = count]
      BY <2>1
    <3> HIDE DEF sn, count
    <3> QED
      BY <1>1, <2>6, <3>1, <3>2 DEF PyLocals
  <2> QED
    BY <1>1, <2>1, <2>2, <2>5, <2>7, TesterStep
<1> QED
  BY <1>2, <1>3, <1>4, <1>5

\* What the frame at the head of a queue brings.
LEMMA HeadTyped ==
  ASSUME NEW mode \in BOOLEAN, NEW frame, Sized(mode, frame)
  PROVE  /\ frame.type \in {"SF", "FF", "CF", "FC"}
         /\ frame.type # "FC" => frame \in DataFrames /\ frame.bytes \in Seq(Octet)
         /\ frame.type = "FC" => frame \in CtsFrames /\ frame \notin DataFrames
         /\ frame.type \in {"SF", "FF"} =>
              frame.dl \in Nat /\ frame.ext \in Nat /\ Announced(mode, frame) \in Nat
         /\ frame.type = "CF" => frame.sn \in 0 .. SNMod - 1
<1>1. frame \in DataFrames \/ frame \in CtsFrames
  BY DEF Sized, Frames
<1>2. CASE frame \in DataFrames
  BY <1>2 DEF DataFrames, CtsFrames, Announced
<1>3. CASE frame \in CtsFrames
  BY <1>3 DEF DataFrames, CtsFrames
<1> QED
  BY <1>1, <1>2, <1>3

\* The steps of recv(), and its timeout.
LEMMA RecvTyped ==
  ASSUME TypeInv, RecvFirst \/ _recv_multi \/ _recv_frame
  PROVE  TypeInv'
<1> DEFINE frame == Head(toTester)
<1>1. /\ py \in PyLocals /\ Len(py.buf) <= py.total /\ faults \in 0 .. MaxFaults
      /\ answers \in Seq(Seq(Octet)) /\ fd \in BOOLEAN
  BY TypeFacts
<1>2. CASE RecvFirst
  <2>1. /\ py.pc # "idle" /\ Taken(toTester, toTester')
        /\ UNCHANGED <<ecuVars, medium>> /\ faults' = faults
    BY <1>2 DEF RecvFirst, Taken
  <2>2. TesterFrame(fd, frame) /\ Sized(fd, frame)
    BY <2>1, TypeFacts, TailFacts DEF Taken, TesterFrame
  <2>3. Len(asked) > 0 /\ Len(asked) \in Nat
    BY <2>1, CurrentRequest
  <2>4. CASE frame.type = "SF" /\ Return(_decode_sf(frame)) /\ toEcu' = toEcu
    <3>1. _decode_sf(frame) = SubSeq(frame.bytes, 1, Len(frame.bytes))
      BY <2>2, <2>4 DEF _decode_sf, Sized, Announced
    <3>2. frame.bytes \in Seq(Octet)
      BY <1>1, <2>2, <2>4, HeadTyped
    <3>3. _decode_sf(frame) \in Seq(Octet)
      BY <3>1, <3>2
    <3>4. /\ py' = IdlePy /\ asked' = asked /\ unsent' = unsent /\ pyStale' = pyStale
          /\ answers' \in Seq(Seq(Octet))
      BY <1>1, <2>4, <3>3, AppendFacts DEF Return
    <3>5. py' \in PyLocals /\ Len(py'.buf) <= py'.total
      BY <3>4, IdleLocals
    <3> QED
      BY <1>1, <2>1, <2>3, <2>4, <3>4, <3>5, TesterStep
  <2>5. CASE /\ frame.type = "FF"
             /\ toEcu' = Append(toEcu, FlowControl(frame.bytes))
             /\ Goto([IdlePy EXCEPT !.pc = "multi", !.buf = frame.bytes,
                                    !.total = TotalOf(frame), !.expected_sn = 1])
    <3>1. /\ frame.bytes \in Seq(Octet) /\ Len(frame.bytes) > 0
          /\ TotalOf(frame) = Announced(fd, frame) /\ TotalOf(frame) \in Nat
          /\ Len(frame.bytes) <= TotalOf(frame)
      BY <1>1, <2>2, <2>5, HeadTyped DEF TesterFrame, Sized, TotalOf, Announced
    <3>2. EcuFrame(fd, Len(asked), FlowControl(frame.bytes))
      BY <1>1, <2>3, <3>1, FlowFrames DEF FlowControl
    <3>3. /\ py' = [IdlePy EXCEPT !.pc = "multi", !.buf = frame.bytes,
                                  !.total = TotalOf(frame), !.expected_sn = 1]
          /\ UNCHANGED <<asked, unsent, pyStale, answers>>
      BY <2>5 DEF Goto
    <3>4. py' \in PyLocals /\ Len(py'.buf) <= py'.total
      BY <3>1, <3>3, IdleLocals DEF PyLocals
    <3> QED
      BY <1>1, <2>1, <2>3, <2>5, <3>2, <3>3, <3>4, TesterStep
  <2>6. CASE Raise /\ toEcu' = toEcu
    BY <1>1, <2>1, <2>6, TesterRaises
  <2> QED
    BY <1>2, <2>4, <2>5, <2>6 DEF RecvFirst
<1>3. CASE _recv_multi
  <2> DEFINE chunk == EcuIn!Smaller(EcuIn!CFLimit, py.total - Len(py.buf))
             buf == py.buf \o SubSeq(frame.bytes, 1, chunk)
  <2>1. /\ py.pc # "idle" /\ Taken(toTester, toTester') /\ toEcu' = toEcu
        /\ UNCHANGED <<ecuVars, medium>> /\ faults' = faults
    BY <1>3 DEF _recv_multi, Taken
  <2>2. TesterFrame(fd, frame) /\ Sized(fd, frame)
    BY <2>1, TypeFacts, TailFacts DEF Taken, TesterFrame
  <2>3. Len(asked) > 0 /\ Len(asked) \in Nat
    BY <2>1, CurrentRequest
  <2>4. CASE Raise
    BY <1>1, <2>1, <2>4, TesterRaises
  <2>5. CASE frame.type = "CF"
    <3>1. /\ py.buf \in Seq(Octet) /\ py.total \in Nat /\ Len(py.buf) \in Nat
      BY <1>1 DEF PyLocals
    <3>2. buf \in Seq(Octet) /\ Len(buf) <= py.total
      <4>1. EcuIn!CFLimit \in Nat \ {0} /\ Len(frame.bytes) = EcuIn!CFLimit
        BY <1>1, <2>2, <2>5, Constants DEF Sized, EcuIn!CFLimit
      <4>2. py.total - Len(py.buf) \in Int /\ py.total - Len(py.buf) >= 0
        BY <1>1, <3>1
      <4>3. frame.bytes \in Seq(Octet)
        BY <1>1, <2>2, <2>5, HeadTyped
      <4>4. buf \in Seq(Octet) /\ Len(buf) <= Len(py.buf) + (py.total - Len(py.buf))
        BY <3>1, <4>1, <4>2, <4>3, CopyFacts
      <4> QED
        BY <3>1, <4>4
    <3> HIDE DEF buf
    <3>3. CASE Return(buf)
      <4>1. /\ py' = IdlePy /\ asked' = asked /\ unsent' = unsent /\ pyStale' = pyStale
            /\ answers' \in Seq(Seq(Octet))
        BY <1>1, <3>2, <3>3, AppendFacts DEF Return
      <4>2. py' \in PyLocals /\ Len(py'.buf) <= py'.total
        BY <4>1, IdleLocals
      <4> QED
        BY <1>1, <2>1, <2>3, <4>1, <4>2, TesterStep
    <3>4. CASE Goto([py EXCEPT !.buf = buf, !.expected_sn = NextSn(@)])
      <4> DEFINE sn == NextSn(py.expected_sn)
      <4>1. sn \in 0 .. SNMod - 1
        BY <1>1, Constants, NextSnType DEF PyLocals
      <4>2. /\ py' = [py EXCEPT !.buf = buf, !.expected_sn = sn]
            /\ UNCHANGED <<asked, unsent, pyStale, answers>>
        BY <3>4 DEF Goto
      <4> HIDE DEF sn
      <4>3. py' \in PyLocals /\ Len(py'.buf) <= py'.total
        BY <1>1, <3>2, <4>1, <4>2 DEF PyLocals
      <4> QED
        BY <1>1, <2>1, <2>3, <4>2, <4>3, TesterStep
    <3> QED
      BY <1>3, <2>4, <3>3, <3>4 DEF _recv_multi, buf
  <2> QED
    BY <1>3, <2>4, <2>5 DEF _recv_multi
<1>4. CASE _recv_frame
  <2>1. /\ py.pc # "idle" /\ Raise /\ toEcu' = toEcu /\ toTester' = toTester
        /\ UNCHANGED <<ecuVars, medium>> /\ faults' = faults
    BY <1>4 DEF _recv_frame, Deadline
  <2> QED
    BY <1>1, <2>1, TesterRaises
<1> QED
  BY <1>2, <1>3, <1>4

\* A step of uds_tp_recv: it reads a frame or none and either goes on, or
\* returns with a PDU or without.
LEMMA EcuReceives ==
  ASSUME TypeInv, Listening,
         \/ rx' \in RxLocals /\ Len(rx'.buf) > 0 /\ got' = got
         \/ rx' = EcuIn!IdleRx /\ got' = got
         \/ rx' = EcuIn!IdleRx /\ \E pdu \in Seq(Octet) : got' = Append(got, pdu),
         toEcu' = toEcu \/ Taken(toEcu, toEcu'),
         \/ toTester' = toTester
         \/ \E frame : TesterFrame(fd, frame) /\ toTester' = Append(toTester, frame),
         UNCHANGED <<tx, sent, lostReq, testerVars, bus, fd>>, faults' \in 0 .. MaxFaults
  PROVE  TypeInv'
<1>1. Len(sent) = Len(got) /\ Len(sent) \in Nat /\ tx \in TxLocals /\ tx.pc = "idle"
  BY TypeFacts DEF Listening
<1>2. got' = got \/ \E pdu \in Seq(Octet) : got' = Append(got, pdu)
  OBVIOUS
<1>3. Len(sent') <= Len(got')
  <2>1. \A pdu \in Seq(Octet) : Len(Append(got, pdu)) = Len(got) + 1
    BY TypeFacts, AppendFacts
  <2> QED
    BY <1>1, <1>2, <2>1
<1>4. rx' \in RxLocals /\ (rx'.pc = "cf" => Len(rx'.buf) > 0)
  <2>1. EcuIn!IdleRx \in RxLocals /\ EcuIn!IdleRx.pc # "cf"
    BY IdleLocals
  <2> QED
    BY <2>1
<1>5. ~ Listening' => rx' = EcuIn!IdleRx
  BY <1>1 DEF Listening
<1>6. tx' = tx /\ sent' = sent /\ lostReq' \subseteq lostReq \cup 1 .. Len(asked)
  OBVIOUS
<1>7. tx' \in TxLocals /\ tx'.pc = "idle"
  BY <1>1, <1>6
<1> HIDE DEF Listening
<1> QED
  BY <1>2, <1>3, <1>4, <1>5, <1>6, <1>7, EcuStep

\* What uds_tp_recv returns.
LEMMA Returns ==
  ASSUME TypeInv, NEW pdus, EcuIn!RecvReturns(pdus),
         pdus = <<>> \/ \E pdu \in Seq(Octet) : pdus = <<pdu>>
  PROVE  /\ rx' = EcuIn!IdleRx
         /\ got' = got \/ \E pdu \in Seq(Octet) : got' = Append(got, pdu)
<1>1. got \in Seq(Seq(Octet)) /\ got' = got \o pdus /\ rx' = EcuIn!IdleRx
  BY TypeFacts DEF EcuIn!RecvReturns
<1>2. CASE pdus = <<>>
  <2>1. got \o <<>> = got
    BY <1>1, ConcatEmptySeq
  <2> QED
    BY <1>1, <1>2, <2>1
<1>3. ASSUME NEW pdu \in Seq(Octet), pdus = <<pdu>>
      PROVE  got' = Append(got, pdu)
  <2>1. Append(got, pdu) = got \o <<pdu>>
    BY <1>1, AppendIsConcat
  <2> QED
    BY <1>1, <1>3, <2>1
<1> QED
  BY <1>1, <1>2, <1>3

\* The steps of uds_tp_recv in ecusim_run.
LEMMA EcuRecvTyped ==
  ASSUME TypeInv, EcuRecv
  PROVE  TypeInv'
<1> DEFINE frame == Head(toEcu)
<1>1. /\ Listening /\ UNCHANGED testerVars /\ fd \in BOOLEAN /\ BlockSize \in Nat
      /\ rx \in RxLocals /\ faults \in 0 .. MaxFaults
  BY TypeFacts, Constants DEF EcuRecv
<1>2. CASE EcuIn!RecvFirst
  <2>1. /\ Taken(toEcu, toEcu')
        /\ UNCHANGED <<tx, sent, lostReq, bus, fd>> /\ faults' = faults
    BY <1>2 DEF EcuIn!RecvFirst, Taken, EcuIn!txSide, EcuIn!medium
  <2>2. EcuFrame(fd, Len(asked), frame) /\ Sized(fd, frame)
    BY <2>1, TypeFacts, TailFacts DEF Taken, EcuFrame
  <2>3. CASE EcuIn!RecvReturns(<<>>) /\ toTester' = toTester
    BY <1>1, <2>1, <2>3, Returns, EcuReceives
  <2>4. CASE /\ frame.type = "SF" /\ toTester' = toTester
             /\ EcuIn!RecvReturns(EcuIn!DecodeSF(frame))
    <3>1. /\ frame.bytes \in Seq(Octet) /\ Announced(fd, frame) = Len(frame.bytes)
          /\ frame.dl \in Nat /\ frame.ext \in Nat
      BY <1>1, <2>2, <2>4, HeadTyped DEF Sized
    <3>2. SubSeq(frame.bytes, 1, Len(frame.bytes)) \in Seq(Octet)
      BY <3>1
    <3>3. EcuIn!DecodeSF(frame) \in {<<>>, <<SubSeq(frame.bytes, 1, Len(frame.bytes))>>}
      BY <3>1, Constants
         DEF EcuIn!DecodeSF, EcuIn!uds_tp_decode_sf, EcuIn!uds_tp_decode_sf_fd, Announced
    <3>4. /\ rx' = EcuIn!IdleRx
          /\ got' = got \/ \E pdu \in Seq(Octet) : got' = Append(got, pdu)
      BY <2>4, <3>2, <3>3, Returns
    <3> QED
      BY <1>1, <2>1, <2>4, <3>4, EcuReceives
  <2>5. CASE /\ frame.type = "FF" /\ EcuIn!DecodeFF(frame) \in 1 .. BufSize[fd]
             /\ rx' = [pc |-> "cf", total_len |-> EcuIn!DecodeFF(frame), buf |-> frame.bytes,
                       expected_sn |-> 1, bs_count |-> 0]
             /\ EcuIn!SendFC(frame.bytes)
             /\ got' = got
    <3>1. frame.bytes \in Seq(Octet) /\ Len(frame.bytes) > 0 /\ BufSize[fd] \in Nat
      BY <1>1, <2>2, <2>5, HeadTyped, Constants DEF Sized
    <3>2. rx' \in RxLocals /\ rx'.buf = frame.bytes
      BY <2>5, <3>1, IdleLocals DEF RxLocals
    <3>3. \E f : TesterFrame(fd, f) /\ toTester' = Append(toTester, f)
      BY <1>1, <2>5, <3>1, FlowFrames DEF EcuIn!SendFC
    <3> QED
      BY <1>1, <2>1, <2>5, <3>1, <3>2, <3>3, EcuReceives
  <2> QED
    BY <1>2, <2>3, <2>4, <2>5 DEF EcuIn!RecvFirst
<1>3. CASE EcuIn!RecvCF
  <2> DEFINE chunk == EcuIn!Smaller(rx.total_len - Len(rx.buf), EcuIn!CFLimit)
             buf == rx.buf \o EcuIn!DecodeCF(frame, chunk)
             count == rx.bs_count + 1
             more == EcuIn!NeedsFC(Len(buf), count)
  <2>1. /\ rx.pc = "cf" /\ Taken(toEcu, toEcu')
        /\ UNCHANGED <<tx, sent, lostReq, bus, fd>> /\ faults' = faults
    BY <1>3 DEF EcuIn!RecvCF, Taken, EcuIn!txSide, EcuIn!medium
  <2>2. EcuFrame(fd, Len(asked), frame) /\ Sized(fd, frame)
    BY <2>1, TypeFacts, TailFacts DEF Taken, EcuFrame
  <2>3. CASE EcuIn!RecvReturns(<<>>) /\ toTester' = toTester
    BY <1>1, <2>1, <2>3, Returns, EcuReceives
  <2>4. CASE /\ frame.type = "CF"
             /\ IF more THEN EcuIn!SendFC(buf) ELSE UNCHANGED toTester
             /\ \/ EcuIn!RecvReturns(<<buf>>)
                \/ /\ rx' = [rx EXCEPT !.buf = buf, !.expected_sn = (@ + 1) % SNMod,
                                       !.bs_count = IF more THEN 0 ELSE count]
                   /\ got' = got
    <3>1. /\ rx.buf \in Seq(Octet) /\ Len(rx.buf) > 0 /\ rx.total_len \in Nat
          /\ rx.expected_sn \in 0 .. SNMod - 1 /\ count \in Nat
      BY <1>1, <2>1 DEF RxLocals, TypeInv, LocalsInv
    <3>2. buf \in Seq(Octet) /\ Len(buf) > 0
      <4> DEFINE size == EcuIn!CFLimit
                 missing == rx.total_len - Len(rx.buf)
      <4>1. size \in Nat \ {0} /\ Len(frame.bytes) = size /\ frame.bytes \in Seq(Octet)
        BY <1>1, <2>2, <2>4, HeadTyped, Constants DEF Sized, EcuIn!CFLimit
      <4>2. missing \in Int
        BY <3>1
      <4>3. chunk = EcuIn!Smaller(size, missing)
        BY <4>1, <4>2 DEF EcuIn!Smaller
      <4>4. EcuIn!DecodeCF(frame, chunk) = SubSeq(frame.bytes, 1, chunk)
        BY DEF EcuIn!DecodeCF, EcuIn!uds_tp_decode_cf, EcuIn!uds_tp_decode_cf_fd
      <4> HIDE DEF size, missing, chunk
      <4>5. /\ rx.buf \o SubSeq(frame.bytes, 1, chunk) \in Seq(Octet)
            /\ Len(rx.buf \o SubSeq(frame.bytes, 1, chunk)) >= Len(rx.buf)
        BY <3>1, <4>1, <4>2, <4>3, CopyFacts
      <4>6. buf = rx.buf \o SubSeq(frame.bytes, 1, chunk)
        BY <4>4
      <4> HIDE DEF buf
      <4>7. buf \in Seq(Octet) /\ Len(buf) >= Len(rx.buf)
        BY <4>5, <4>6
      <4>8. Len(buf) \in Nat /\ Len(rx.buf) \in Nat
        BY <3>1, <4>7
      <4> QED
        BY <3>1, <4>7, <4>8
    <3> HIDE DEF buf, more
    <3>3. \/ toTester' = toTester
          \/ \E f : TesterFrame(fd, f) /\ toTester' = Append(toTester, f)
      BY <1>1, <2>4, <3>2, FlowFrames DEF EcuIn!SendFC
    <3>4. CASE EcuIn!RecvReturns(<<buf>>)
      <4>1. /\ rx' = EcuIn!IdleRx
            /\ got' = got \/ \E pdu \in Seq(Octet) : got' = Append(got, pdu)
        BY <3>2, <3>4, Returns
      <4> QED
        BY <1>1, <2>1, <3>3, <4>1, EcuReceives
    <3>5. CASE /\ rx' = [rx EXCEPT !.buf = buf, !.expected_sn = (@ + 1) % SNMod,
                                   !.bs_count = IF more THEN 0 ELSE count]
               /\ got' = got
      <4> DEFINE sn == (rx.expected_sn + 1) % SNMod
                 bs_count == IF more THEN 0 ELSE count
      <4>1. sn \in 0 .. SNMod - 1 /\ bs_count \in Nat
        BY <3>1, Constants
      <4>2. rx' = [rx EXCEPT !.buf = buf, !.expected_sn = sn, !.bs_count = bs_count]
        BY <3>5
      <4> HIDE DEF sn, bs_count
      <4>3. rx' \in RxLocals /\ rx'.buf = buf
        BY <1>1, <3>2, <4>1, <4>2 DEF RxLocals
      <4> QED
        BY <1>1, <2>1, <3>2, <3>3, <3>5, <4>3, EcuReceives
    <3> QED
      BY <2>4, <3>4, <3>5
  <2> QED
    BY <1>3, <2>3, <2>4 DEF EcuIn!RecvCF, EcuIn!RejectFrame, EcuIn!Accepts
<1>4. CASE EcuIn!RecvTimesOut
  <2>1. /\ EcuIn!RecvReturns(<<>>) /\ toEcu' = toEcu /\ toTester' = toTester
        /\ UNCHANGED <<tx, sent, lostReq, bus, fd>> /\ faults' = faults
    BY <1>4 DEF EcuIn!RecvTimesOut, EcuIn!txSide, EcuIn!medium
  <2> QED
    BY <1>1, <2>1, Returns, EcuReceives
<1> QED
  BY <1>2, <1>3, <1>4 DEF EcuRecv

\* A step of the ECU's uds_tp_send, with the socket queue it reads.
LEMMA EcuSends ==
  ASSUME TypeInv, tx.pc # "idle", tx' \in TxLocals,
         toEcu' = toEcu \/ Taken(toEcu, toEcu'),
         \/ toTester' = toTester
         \/ \E frame : TesterFrame(fd, frame) /\ toTester' = Append(toTester, frame),
         UNCHANGED <<rx, got, sent, lostReq, testerVars, bus, fd>>, faults' \in 0 .. MaxFaults
  PROVE  TypeInv'
<1>1. rx = EcuIn!IdleRx /\ Len(sent) \in Nat \ {0} /\ Len(sent) <= Len(got)
  BY CurrentResponse DEF TypeInv, LocalsInv, HistoryInv, Listening
<1>2. rx' \in RxLocals /\ rx' = EcuIn!IdleRx /\ (rx'.pc = "cf" => Len(rx'.buf) > 0)
  BY <1>1, IdleLocals
<1>3. sent' = sent /\ got' = got /\ Len(sent') > 0 /\ Len(sent') <= Len(got')
      /\ lostReq' \subseteq lostReq \cup 1 .. Len(asked)
  BY <1>1
<1> QED
  BY <1>2, <1>3, EcuStep

\* A call of uds_tp_send that ends.
LEMMA SendEnds ==
  ASSUME TypeInv, EcuOut!SendReturnsOk \/ EcuOut!SendReturnsError
  PROVE  tx' \in TxLocals /\ sent' = sent
BY IdleLocals DEF EcuOut!SendReturnsOk, EcuOut!SendReturnsError

\* The steps of uds_tp_send in ecusim_run.
LEMMA EcuSendTyped ==
  ASSUME TypeInv, EcuSend
  PROVE  TypeInv'
<1>1. /\ UNCHANGED <<testerVars, lostReq>> /\ fd \in BOOLEAN
      /\ tx \in TxLocals /\ faults \in 0 .. MaxFaults
  BY TypeFacts DEF EcuSend
<1>2. CASE EcuOut!SendFirst
  <2>1. /\ tx.pc # "idle" /\ toEcu' = toEcu /\ UNCHANGED <<rx, got, bus, fd>> /\ faults' = faults
    BY <1>2 DEF EcuOut!SendFirst, EcuOut!rxSide, EcuOut!medium
  <2> DEFINE pdu == EcuOut!data
  <2>2. Len(sent) \in Nat /\ IsPdu(Len(sent), pdu) /\ Len(pdu) \in Nat
    BY <2>1, CurrentResponse
  <2>3. CASE toTester' = Append(toTester, EcuOut!EncodeSF(pdu)) /\ EcuOut!SendReturnsOk
    <3>1. TesterFrame(fd, EcuOut!EncodeSF(pdu))
      BY <1>1, <2>2, ResponseFrames
    <3> QED
      BY <1>1, <2>1, <2>3, <3>1, SendEnds, EcuSends
  <2>4. CASE EcuOut!SendReturnsError /\ toTester' = toTester
    BY <1>1, <2>1, <2>4, SendEnds, EcuSends
  <2>5. CASE /\ Len(pdu) > EcuOut!SFLimit /\ (fd \/ Len(pdu) <= FFMaxLen)
             /\ toTester' = Append(toTester, EcuOut!EncodeFF(pdu))
             /\ tx' = [tx EXCEPT !.pc = "fc", !.offset = EcuOut!ff_embed, !.sn = 1]
             /\ sent' = sent
    <3>1. TesterFrame(fd, EcuOut!EncodeFF(pdu))
      BY <1>1, <2>2, <2>5, ResponseFrames
    <3>2. EcuOut!ff_embed \in Nat /\ 1 \in 0 .. SNMod - 1
      BY Constants DEF EcuOut!ff_embed
    <3>3. tx' \in TxLocals
      BY <1>1, <2>5, <3>2 DEF TxLocals
    <3> QED
      BY <1>1, <2>1, <2>5, <3>1, <3>3, EcuSends
  <2> QED
    BY <1>2, <2>3, <2>4, <2>5 DEF EcuOut!SendFirst
<1>3. CASE EcuOut!RecvFlow
  <2> DEFINE fc == Head(toEcu)
  <2>1. /\ tx.pc # "idle" /\ Taken(toEcu, toEcu') /\ toTester' = toTester
        /\ UNCHANGED <<rx, got, bus, fd>> /\ faults' = faults /\ EcuOut!WaitForFlow(fc)
    BY <1>3 DEF EcuOut!RecvFlow, Taken, EcuOut!rxSide, EcuOut!medium
  <2>2. EcuFrame(fd, Len(asked), fc) /\ Sized(fd, fc)
    BY <2>1, TypeFacts, TailFacts DEF Taken, EcuFrame
  <2>3. CASE EcuOut!SendReturnsError
    BY <1>1, <2>1, <2>3, SendEnds, EcuSends
  <2>4. CASE EcuOut!KeepWaiting
    <3>1. tx' \in TxLocals /\ sent' = sent
      BY <1>1, <2>4 DEF EcuOut!KeepWaiting, TxLocals
    <3> QED
      BY <1>1, <2>1, <3>1, EcuSends
  <2>5. CASE fc.type = "FC" /\ EcuOut!StartBlock(fc)
    <3>1. fc.bs \in Nat
      BY <1>1, <2>2, <2>5, HeadTyped DEF CtsFrames
    <3>2. tx' \in TxLocals /\ sent' = sent
      BY <1>1, <2>5, <3>1 DEF EcuOut!StartBlock, TxLocals
    <3> QED
      BY <1>1, <2>1, <3>2, EcuSends
  <2> QED
    BY <2>1, <2>3, <2>4, <2>5 DEF EcuOut!WaitForFlow
<1>4. CASE EcuOut!SendCF
  <2> DEFINE pdu == EcuOut!data
             chunk == EcuOut!Smaller(Len(pdu) - tx.offset, EcuOut!CFLimit)
             offset == tx.offset + chunk
             frame == EcuOut!EncodeCF(SubSeq(pdu, tx.offset + 1, offset), tx.sn)
             next == EcuOut!AfterCF(offset, tx.bs_sent + 1)
  <2>1. /\ tx.pc # "idle" /\ toEcu' = toEcu /\ toTester' = Append(toTester, frame)
        /\ UNCHANGED <<rx, got, bus, fd>> /\ faults' = faults
        /\ \/ EcuOut!SendReturnsOk
           \/ /\ next # "idle" /\ sent' = sent
              /\ tx' = [tx EXCEPT !.pc = next, !.offset = offset, !.sn = (@ + 1) % SNMod,
                                  !.bs_sent = tx.bs_sent + 1]
    BY <1>4 DEF EcuOut!SendCF, EcuOut!rxSide, EcuOut!medium
  <2>2. Len(sent) \in Nat /\ IsPdu(Len(sent), pdu) /\ Len(pdu) \in Nat
    BY <2>1, CurrentResponse
  <2>3. tx.offset \in Nat /\ tx.sn \in 0 .. SNMod - 1 /\ tx.bs_sent \in Nat
    BY <1>1 DEF TxLocals
  <2>4. offset \in 0 .. Len(pdu) /\ offset \in Nat
    <3> HIDE DEF pdu
    <3> QED
      BY <2>2, <2>3, Constants DEF EcuOut!Smaller, EcuOut!CFLimit
  <2>5. next \in {"idle", "fc", "cf"}
    BY DEF EcuOut!AfterCF
  <2>6. TesterFrame(fd, frame)
    <3> HIDE DEF offset, pdu
    <3> QED
      BY <1>1, <2>2, <2>3, <2>4, ResponseFrames
  <2>7. tx' \in TxLocals /\ sent' = sent
    <3>1. CASE EcuOut!SendReturnsOk
      BY <3>1, SendEnds
    <3>2. CASE /\ next # "idle" /\ sent' = sent
               /\ tx' = [tx EXCEPT !.pc = next, !.offset = offset, !.sn = (@ + 1) % SNMod,
                                   !.bs_sent = tx.bs_sent + 1]
      <4> DEFINE sn == (tx.sn + 1) % SNMod
                 count == tx.bs_sent + 1
      <4>1. sn \in 0 .. SNMod - 1 /\ count \in Nat
        BY <2>3, Constants
      <4>2. tx' = [tx EXCEPT !.pc = next, !.offset = offset, !.sn = sn, !.bs_sent = count]
        BY <3>2
      <4>3. next \in {"first", "fc", "cf", "idle"}
        BY <2>5
      <4> HIDE DEF sn, count, next, offset
      <4> QED
        BY <1>1, <2>4, <3>2, <4>1, <4>2, <4>3 DEF TxLocals
    <3> QED
      BY <2>1, <3>1, <3>2
  <2> HIDE DEF frame
  <2> QED
    BY <1>1, <2>1, <2>6, <2>7, EcuSends
<1>5. CASE EcuOut!SendTimesOut
  <2>1. /\ tx.pc # "idle" /\ toEcu' = toEcu /\ toTester' = toTester
        /\ UNCHANGED <<rx, got, bus, fd>> /\ faults' = faults /\ EcuOut!SendReturnsError
    BY <1>5 DEF EcuOut!SendTimesOut, EcuOut!rxSide, EcuOut!medium
  <2> QED
    BY <1>1, <2>1, SendEnds, EcuSends
<1> QED
  BY <1>2, <1>3, <1>4, <1>5 DEF EcuSend

\* The call of uds_tp_send for the response to the request received last.
LEMMA DispatchTyped ==
  ASSUME TypeInv, ecusim_dispatch
  PROVE  TypeInv'
<1>1. PICK len \in Lengths[bus][fd] : EcuOut!Call(len)
  BY DEF ecusim_dispatch
<1> DEFINE pdu == EcuIn!Pdu(Len(sent) + 1, len)
<1>2. /\ Len(sent) < Len(got) /\ UNCHANGED <<testerVars, lostReq>>
      /\ sent' = Append(sent, pdu) /\ tx' = [EcuOut!IdleTx EXCEPT !.pc = "first"]
      /\ UNCHANGED <<rx, got, toEcu, toTester, bus, fd>> /\ faults' = faults
  BY <1>1 DEF ecusim_dispatch, EcuOut!Call, EcuOut!Pdu, EcuIn!Pdu, EcuOut!rxSide, EcuOut!medium
<1>3. Len(sent) \in Nat /\ Len(got) \in Nat /\ faults \in 0 .. MaxFaults
  BY TypeFacts
<1>4. IsPdu(Len(sent) + 1, pdu)
  <2>1. len \in Nat \ {0}
    <3>1. bus \in Buses /\ fd \in Modes
      BY DEF TypeInv, HistoryInv
    <3>2. Lengths[bus][fd] \subseteq Nat \ {0}
      BY <3>1, Constants
    <3> QED
      BY <3>2
  <2>2. pdu \in [1 .. len -> Octet]
    BY <1>3, <2>1 DEF EcuIn!Pdu, Octet
  <2>3. pdu \in Seq(Octet) /\ Len(pdu) = len
    BY <2>1, <2>2
  <2> QED
    BY <2>1, <2>3 DEF IsPdu
<1>5. Len(sent') = Len(sent) + 1
  <2>1. pdu \in Seq(Octet) /\ sent \in Seq(Seq(Octet))
    BY <1>4 DEF IsPdu, TypeInv, HistoryInv
  <2> QED
    BY <1>2, <2>1, AppendFacts
<1>6. tx' \in TxLocals
  BY <1>2, IdleLocals
<1>7. rx' = EcuIn!IdleRx
  <2>1. ~ Listening
    BY <1>2, <1>3 DEF Listening
  <2> QED
    BY <1>2, <2>1 DEF TypeInv, LocalsInv
<1>8. /\ rx' \in RxLocals /\ (rx'.pc = "cf" => Len(rx'.buf) > 0)
      /\ Len(sent') > 0 /\ Len(sent') <= Len(got')
      /\ lostReq' \subseteq lostReq \cup 1 .. Len(asked)
      /\ faults' \in 0 .. MaxFaults
  BY <1>2, <1>3, <1>5, <1>7, IdleLocals
<1> QED
  BY <1>2, <1>4, <1>6, <1>7, <1>8, EcuStep

\* A fault costs one of MaxFaults.
LEMMA FaultTyped ==
  ASSUME TypeInv, EcuIn!Fault \/ EcuOut!Fault
  PROVE  faults' \in 0 .. MaxFaults /\ bus' = bus /\ fd' = fd
BY Constants DEF TypeInv, HistoryInv, EcuIn!Fault, EcuOut!Fault

\* Faults of either side, and lost frames.
LEMMA FaultsTyped ==
  ASSUME TypeInv, PyFails \/ EcuFails \/ LoseFrame
  PROVE  TypeInv'
<1>1. CASE PyFails
  <2>1. /\ py.pc # "idle" /\ Raise /\ toEcu' = toEcu /\ toTester' = toTester
        /\ UNCHANGED <<ecuVars, medium>> /\ faults' \in 0 .. MaxFaults
    BY <1>1, FaultTyped DEF PyFails, medium
  <2> QED
    BY <2>1, TesterRaises
<1>2. CASE Listening /\ EcuIn!RecvFails /\ UNCHANGED testerVars
  <2>1. /\ EcuIn!RecvReturns(<<>>) /\ toEcu' = toEcu /\ toTester' = toTester
        /\ UNCHANGED <<tx, sent, lostReq, bus, fd>> /\ faults' \in 0 .. MaxFaults
    BY <1>2, FaultTyped DEF EcuIn!RecvFails, EcuIn!txSide
  <2> QED
    BY <1>2, <2>1, Returns, EcuReceives
<1>3. CASE Listening /\ EcuIn!FlowFails /\ UNCHANGED testerVars
  <2>1. /\ EcuIn!RecvReturns(<<>>) /\ Taken(toEcu, toEcu') /\ toTester' = toTester
        /\ UNCHANGED <<tx, sent, lostReq, bus, fd>> /\ faults' \in 0 .. MaxFaults
    BY <1>3, FaultTyped DEF EcuIn!FlowFails, EcuIn!txSide, Taken
  <2> QED
    BY <1>3, <2>1, Returns, EcuReceives
<1>4. CASE EcuOut!SendFails /\ UNCHANGED <<testerVars, lostReq>>
  <2>1. /\ tx.pc # "idle" /\ EcuOut!SendReturnsError /\ toEcu' = toEcu /\ toTester' = toTester
        /\ UNCHANGED <<rx, got, bus, fd>> /\ faults' \in 0 .. MaxFaults
    BY <1>4, FaultTyped DEF EcuOut!SendFails, EcuOut!rxSide
  <2> QED
    BY <1>4, <2>1, SendEnds, EcuSends
<1>5. ASSUME UNCHANGED <<tx, sent, rx, got, testerVars, bus, fd>>, faults' \in 0 .. MaxFaults,
             \/ toEcu' = toEcu /\ Taken(toTester, toTester')
             \/ Taken(toEcu, toEcu') /\ toTester' = toTester,
             lostReq' \subseteq lostReq \cup 1 .. Len(asked)
      PROVE  TypeInv'
  <2>1. /\ rx \in RxLocals /\ (rx.pc = "cf" => Len(rx.buf) > 0)
        /\ tx \in TxLocals /\ (tx.pc # "idle" => Len(sent) > 0)
        /\ (~ Listening => rx = EcuIn!IdleRx) /\ Len(sent) <= Len(got)
    BY DEF TypeInv, LocalsInv, HistoryInv
  <2>2. /\ rx' = rx /\ tx' = tx /\ sent' = sent /\ got' = got
        /\ (Listening' <=> Listening)
    BY <1>5 DEF Listening
  <2>3. /\ rx' \in RxLocals /\ (rx'.pc = "cf" => Len(rx'.buf) > 0)
        /\ tx' \in TxLocals /\ (tx'.pc # "idle" => Len(sent') > 0)
        /\ (~ Listening' => rx' = EcuIn!IdleRx) /\ Len(sent') <= Len(got')
    BY <2>1, <2>2
  <2> QED
    BY <1>5, <2>2, <2>3, EcuStep
<1>6. CASE EcuIn!LoseData /\ UNCHANGED testerVars
  <2> DEFINE frame == Head(toEcu)
  <2>1. /\ UNCHANGED <<tx, sent, rx, got, testerVars, bus, fd>> /\ faults' \in 0 .. MaxFaults
        /\ Taken(toEcu, toEcu') /\ toTester' = toTester
    BY <1>6, FaultTyped DEF EcuIn!LoseData, EcuIn!txSide, EcuIn!rxSide, Taken
  <2>2. EcuFrame(fd, Len(asked), frame)
    BY <2>1, TypeFacts, TailFacts DEF Taken
  <2>3. lostReq' \subseteq lostReq \cup 1 .. Len(asked)
    BY <1>6, <2>2 DEF EcuIn!LoseData, EcuFrame
  <2> QED
    BY <1>5, <2>1, <2>3
<1>7. CASE EcuOut!LoseData /\ UNCHANGED <<testerVars, lostReq>>
  <2>1. /\ UNCHANGED <<tx, sent, rx, got, testerVars, bus, fd>> /\ faults' \in 0 .. MaxFaults
        /\ Taken(toTester, toTester') /\ toEcu' = toEcu /\ lostReq' = lostReq
    BY <1>7, FaultTyped DEF EcuOut!LoseData, EcuOut!txSide, EcuOut!rxSide, Taken
  <2> QED
    BY <1>5, <2>1
<1> QED
  BY <1>1, <1>2, <1>3, <1>4, <1>6, <1>7 DEF EcuFails, LoseFrame

\* Nothing but stuttering.
LEMMA StutterTyped ==
  ASSUME TypeInv, UNCHANGED vars
  PROVE  TypeInv'
<1>1. /\ py' = py /\ asked' = asked /\ unsent' = unsent /\ pyStale' = pyStale
      /\ answers' = answers /\ toEcu' = toEcu /\ toTester' = toTester
      /\ rx' = rx /\ got' = got /\ tx' = tx /\ sent' = sent
      /\ lostReq' = lostReq /\ faults' = faults /\ bus' = bus /\ fd' = fd
  BY DEF vars, testerVars, ecuVars, medium
<1>2. LocalsInv'
  BY <1>1 DEF TypeInv, LocalsInv, Listening
<1>3. QueuesInv'
  BY <1>1 DEF TypeInv, QueuesInv
<1>4. HistoryInv'
  BY <1>1 DEF TypeInv, HistoryInv
<1> QED
  BY <1>2, <1>3, <1>4 DEF TypeInv

\* Nothing is under way at first.
LEMMA InitTyped == Init => TypeInv
<1> SUFFICES ASSUME Init PROVE TypeInv
  OBVIOUS
<1>1. /\ py = IdlePy /\ rx = EcuIn!IdleRx /\ tx = EcuOut!IdleTx
      /\ toEcu = <<>> /\ toTester = <<>>
      /\ asked = <<>> /\ sent = <<>> /\ got = <<>> /\ answers = <<>>
      /\ unsent = {} /\ pyStale = {} /\ lostReq = {}
      /\ faults = 0 /\ bus \in Buses /\ fd \in Modes
  BY DEF Init, EcuIn!Init, EcuIn!IdleTx, EcuOut!IdleTx
<1>2. LocalsInv
  BY <1>1, IdleLocals DEF LocalsInv, Listening
<1>3. QueuesInv
  BY <1>1 DEF QueuesInv
<1>4. HistoryInv
  BY <1>1, Constants DEF HistoryInv
<1> QED
  BY <1>2, <1>3, <1>4 DEF TypeInv

\* All steps together.
LEMMA NextTyped == TypeInv /\ [Next]_vars => TypeInv'
<1> SUFFICES ASSUME TypeInv, [Next]_vars PROVE TypeInv'
  OBVIOUS
<1>1. CASE Next
  <2>1. CASE EcuWaits
    <3>1. UNCHANGED vars
      BY <2>1 DEF EcuWaits, EcuIn!RecvIdle, EcuIn!vars, EcuIn!txSide, EcuIn!rxSide,
                  EcuIn!medium, vars, ecuVars, medium
    <3> QED
      BY <3>1, StutterTyped
  <2>2. CASE Tester
    BY <2>2, SendTyped, RecvTyped DEF Tester
  <2>3. CASE Ecu
    BY <2>3, EcuRecvTyped, DispatchTyped, EcuSendTyped DEF Ecu
  <2> QED
    BY <1>1, <2>1, <2>2, <2>3, SendTyped, FaultsTyped DEF Next
<1>2. CASE UNCHANGED vars
  BY <1>2, StutterTyped
<1> QED
  BY <1>1, <1>2

\* The locals of both programs and the two histories keep their types: the
\* tester never copies more of a response than its first frame announced
\* (_recv_multi, whose buffer grows by what is missing), whatever remains of
\* earlier exchanges it finds in its queue, and ecusim_run never sends a
\* response without a request.
THEOREM TesterTypeCorrect == Spec => []TypeOK
<1>1. TypeInv => TypeOK
  BY DEF TypeInv, LocalsInv, HistoryInv, PyLocals, TypeOK
<1> QED
  BY <1>1, InitTyped, NextTyped, PTL DEF Spec

----------------------------------------------------------------------------
(* The two refinements.  Requests: the tester's send() and the ECU's       *)
(* uds_tp_recv are the two sides of IsoTp, on the data frames to the ECU   *)
(* and the flow control to the tester.  Responses: uds_tp_send and recv(), *)
(* on the other frames of the two queues.  IsoTp's invariant holds of      *)
(* both: a step is one of IsoTp, or none of this direction, or it takes a  *)
(* frame for what it is not, and a call or reception gives up, which       *)
(* IsoTp's invariant allows for.                                           *)

\* The locals of send(), as uds_tp_send names them.
pyTx ==
  IF Sending
  THEN [pc |-> IF py.pc = "send" THEN "first" ELSE py.pc, offset |-> py.offset, sn |-> py.sn,
        waits |-> 0, bs |-> py.block_size, bs_sent |-> py.block_count]
  ELSE EcuIn!IdleTx

\* The locals of recv(), as uds_tp_recv names them.
pyRx ==
  IF py.pc = "multi"
  THEN [pc |-> "cf", total_len |-> py.total, buf |-> py.buf, expected_sn |-> py.expected_sn,
        bs_count |-> 0]
  ELSE EcuIn!IdleRx

requestData == Picked(toEcu, DataFrames)
requestFlow == Picked(toTester, CtsFrames)
responseData == Picked(toTester, DataFrames)
responseFlow == Picked(toEcu, CtsFrames)

\* recv() takes responses of any length.
MaxLength == CHOOSE n \in Nat : BoundedBy(n)

ReqTp == INSTANCE IsoTpProofs
  WITH tx <- pyTx, toRx <- requestData, toTx <- requestFlow,
       sent <- asked, failed <- unsent, stale <- pyStale, lost <- lostReq
RespTp == INSTANCE IsoTpProofs
  WITH rx <- pyRx, toRx <- responseData, toTx <- responseFlow, got <- answers,
       lost <- lostResp, BlockSize <- 0, BufSize <- [m \in BOOLEAN |-> MaxLength]

\* What a step has to show for either direction.
RequestStep == ReqTp!IInv' /\ ReqTp!RecordsKept /\ ReqTp!HistoryStep
ResponseStep == RespTp!IInv' /\ RespTp!RecordsKept /\ RespTp!HistoryStep

\* PDUs have the lengths that the callers give them.
LengthInv ==
  /\ \A m \in 1 .. Len(asked) : Len(asked[m]) \in Lengths[bus][fd]
  /\ \A m \in 1 .. Len(sent) : Len(sent[m]) \in Lengths[bus][fd]

\* The ECU never asks for blocks.
BlockInv ==
  /\ py.block_size = 0
  /\ \A p \in 1 .. Len(toTester) : toTester[p].type = "FC" => toTester[p].bs = 0

\* IsoTp's assumption holds of the requests.
LEMMA RequestAssumption == ReqTp!TransportAssumption
BY SidesAssumption DEF ReqTp!TransportAssumption, EcuIn!TransportAssumption

\* A step of IsoTp is a step of the requests.
LEMMA RequestNext ==
  ASSUME ReqTp!IInv, ReqTp!Next
  PROVE  RequestStep
<1>1. [ReqTp!Next]_(ReqTp!vars)
  OBVIOUS
<1>2. ReqTp!IInv'
  BY <1>1, RequestAssumption, ReqTp!NextInv
<1>3. ReqTp!RecordsKept
  BY <1>1, RequestAssumption, ReqTp!StepKeepsRecords
<1>4. ReqTp!HistoryStep
  BY <1>1, RequestAssumption, ReqTp!StepKinds
<1> QED
  BY <1>2, <1>3, <1>4 DEF RequestStep

\* Such as one of either call.
LEMMA RequestMoved ==
  ASSUME ReqTp!IInv, fd \in BOOLEAN, ReqTp!Send \/ ReqTp!Recv
  PROVE  RequestStep
BY RequestNext DEF ReqTp!Next, ReqTp!uds_tp_send, ReqTp!uds_tp_send_fd,
                    ReqTp!uds_tp_recv, ReqTp!uds_tp_recv_fd

\* A step is then one of the channel of requests.
LEMMA RequestChannelStep ==
  ASSUME ReqTp!IInv, RequestStep
  PROVE  [Requests!Next]_(Requests!vars)
<1>1. [ReqTp!Channel!Next]_(ReqTp!Channel!vars)
  BY RequestAssumption, ReqTp!ChannelStep DEF RequestStep
<1>2. ReqTp!delivered = requests
  BY DEF ReqTp!delivered, requests, ReqTp!Regular, EcuIn!Regular, ReqTp!RegularUpTo,
         EcuIn!RegularUpTo, ReqTp!Offending, EcuIn!Offending
<1>3. ReqTp!LastOf(ReqTp!delivered) = EcuIn!LastOf(requests)
  BY <1>2 DEF ReqTp!LastOf, EcuIn!LastOf, ReqTp!MsgOf, EcuIn!MsgOf
<1>4. ReqTp!delivered' = requests'
  BY DEF ReqTp!delivered, requests, ReqTp!Regular, EcuIn!Regular, ReqTp!RegularUpTo,
         EcuIn!RegularUpTo, ReqTp!Offending, EcuIn!Offending
<1>5. ReqTp!LastOf(ReqTp!delivered)' = EcuIn!LastOf(requests)'
  BY <1>4 DEF ReqTp!LastOf, EcuIn!LastOf, ReqTp!MsgOf, EcuIn!MsgOf
<1>6. ReqTp!AllPdus = EcuIn!AllPdus
  BY DEF ReqTp!AllPdus, EcuIn!AllPdus, ReqTp!Pdu, EcuIn!Pdu
<1> QED
  BY <1>1, <1>2, <1>3, <1>4, <1>5, <1>6
     DEF ReqTp!Channel!Next, ReqTp!Channel!vars, ReqTp!Channel!Submit, ReqTp!Channel!Fail,
         ReqTp!Channel!Deliver, Requests!Next, Requests!vars, Requests!Submit,
         Requests!Fail, Requests!Deliver

----------------------------------------------------------------------------
(* The two kinds of frames in a queue *)

\* Data frames and flow control are told apart by their type.
LEMMA Kinds ==
  ASSUME NEW frame \in Frames
  PROVE  /\ frame.type # "FC" => frame \in DataFrames /\ frame \notin CtsFrames
         /\ frame.type = "FC" => frame \in CtsFrames /\ frame \notin DataFrames /\ frame.fs = "CTS"
<1>1. CASE frame \in DataFrames
  BY <1>1 DEF DataFrames, CtsFrames
<1>2. CASE frame \in CtsFrames
  BY <1>2 DEF DataFrames, CtsFrames
<1> QED
  BY <1>1, <1>2 DEF Frames

\* The head of a queue is the head of the frames of its kind.
LEMMA SplitTaken ==
  ASSUME NEW queue \in Seq(Frames), NEW next, Taken(queue, next)
  PROVE  LET head == Head(queue)
             data == Picked(queue, DataFrames)
             flow == Picked(queue, CtsFrames)
         IN
         /\ head \in Frames
         /\ head.type # "FC" => /\ Taken(data, Picked(next, DataFrames)) /\ Head(data) = head
                                /\ Picked(next, CtsFrames) = flow
         /\ head.type = "FC" => /\ Taken(flow, Picked(next, CtsFrames)) /\ Head(flow) = head
                                /\ Picked(next, DataFrames) = data
                                /\ head.fs = "CTS"
<1> DEFINE head == Head(queue)
<1>1. queue # <<>> /\ next = Tail(queue) /\ head \in Frames
  BY TailFacts DEF Taken
<1> HIDE DEF head
<1>2. /\ head.type # "FC" => head \in DataFrames /\ head \notin CtsFrames
      /\ head.type = "FC" => head \in CtsFrames /\ head \notin DataFrames /\ head.fs = "CTS"
  BY <1>1, Kinds
<1> QED
  BY <1>1, <1>2, PickedTail DEF Taken, head

\* A frame put into a queue is the last of its kind.
LEMMA SplitPut ==
  ASSUME NEW queue \in Seq(Frames), NEW frame \in Frames, NEW next, next = Append(queue, frame)
  PROVE  LET data == Picked(queue, DataFrames)
             flow == Picked(queue, CtsFrames)
         IN
         /\ frame.type # "FC" => /\ Picked(next, DataFrames) = Append(data, frame)
                                 /\ Picked(next, CtsFrames) = flow
         /\ frame.type = "FC" => /\ Picked(next, CtsFrames) = Append(flow, frame)
                                 /\ Picked(next, DataFrames) = data
BY Kinds, PickedAppend

\* Nothing is under way in an empty queue.
LEMMA SplitEmpty ==
  /\ toEcu = <<>> => requestData = <<>> /\ responseFlow = <<>>
  /\ toTester = <<>> => responseData = <<>> /\ requestFlow = <<>>
BY PickedType DEF requestData, responseFlow, responseData, requestFlow

\* The queue to the ECU: request data, and flow control for responses.
LEMMA ToEcuSplit ==
  ASSUME TypeInv
  PROVE  /\ Taken(toEcu, toEcu') =>
              LET head == Head(toEcu) IN
              /\ head.type # "FC" => /\ Taken(requestData, requestData')
                                     /\ Head(requestData) = head
                                     /\ responseFlow' = responseFlow
              /\ head.type = "FC" => /\ Taken(responseFlow, responseFlow')
                                     /\ Head(responseFlow) = head /\ head.fs = "CTS"
                                     /\ requestData' = requestData
         /\ \A frame \in Frames : toEcu' = Append(toEcu, frame) =>
              /\ frame.type # "FC" => /\ requestData' = Append(requestData, frame)
                                      /\ responseFlow' = responseFlow
              /\ frame.type = "FC" => /\ responseFlow' = Append(responseFlow, frame)
                                      /\ requestData' = requestData
         /\ toEcu' = toEcu => requestData' = requestData /\ responseFlow' = responseFlow
<1>1. toEcu \in Seq(Frames)
  BY TypeFacts
<1> QED
  BY <1>1, SplitTaken, SplitPut DEF requestData, responseFlow

\* The queue to the tester: response data, and flow control for requests.
LEMMA ToTesterSplit ==
  ASSUME TypeInv
  PROVE  /\ Taken(toTester, toTester') =>
              LET head == Head(toTester) IN
              /\ head.type # "FC" => /\ Taken(responseData, responseData')
                                     /\ Head(responseData) = head
                                     /\ requestFlow' = requestFlow
              /\ head.type = "FC" => /\ Taken(requestFlow, requestFlow')
                                     /\ Head(requestFlow) = head /\ head.fs = "CTS"
                                     /\ responseData' = responseData
         /\ \A frame \in Frames : toTester' = Append(toTester, frame) =>
              /\ frame.type # "FC" => /\ responseData' = Append(responseData, frame)
                                      /\ requestFlow' = requestFlow
              /\ frame.type = "FC" => /\ requestFlow' = Append(requestFlow, frame)
                                      /\ responseData' = responseData
         /\ toTester' = toTester => responseData' = responseData /\ requestFlow' = requestFlow
<1>1. toTester \in Seq(Frames)
  BY TypeFacts
<1> QED
  BY <1>1, SplitTaken, SplitPut DEF responseData, requestFlow

----------------------------------------------------------------------------
(* Steps of the requests that are none of IsoTp, or steps of its queues only *)

\* Everything of IsoTp but its two queues and the counter of faults.
requestRest == <<pyTx, asked, unsent, pyStale, rx, got, lostReq, bus, fd>>

\* Flow control may disappear: the tester is not waiting for it.
LEMMA RequestFlowStep ==
  ASSUME ReqTp!IInv, UNCHANGED <<requestRest, requestData>>,
         requestFlow' = requestFlow \/ Taken(requestFlow, requestFlow'),
         faults' \in 0 .. MaxFaults
  PROVE  RequestStep
<1>1. /\ UNCHANGED <<asked, unsent, pyStale, ReqTp!rxSide, requestData, ReqTp!medium>>
      /\ pyTx' = pyTx /\ lostReq' = lostReq /\ got' = got
  BY DEF requestRest, ReqTp!rxSide, ReqTp!medium
<1>2. ReqTp!TypeInv
  BY DEF ReqTp!IInv
<1>3. ReqTp!NoNewFlow /\ requestFlow' \in Seq(ReqTp!FlowFrames)
  BY <1>2, RequestAssumption, ReqTp!FlowTaken DEF Taken
<1>4. pyTx' \in ReqTp!TxLocals
  BY <1>1, <1>2 DEF ReqTp!TypeInv
<1>5. ReqTp!IInv'
  BY <1>1, <1>3, <1>4, RequestAssumption, ReqTp!FlowQueueStep
<1> QED
  BY <1>1, <1>5 DEF RequestStep, ReqTp!RecordsKept, ReqTp!HistoryStep

\* send() raises.
LEMMA RequestGivenUp ==
  ASSUME ReqTp!IInv, Sending, Raise, UNCHANGED <<rx, got, lostReq, bus, fd, requestData>>,
         requestFlow' = requestFlow \/ Taken(requestFlow, requestFlow'),
         faults' \in 0 .. MaxFaults
  PROVE  RequestStep
<1>1. /\ UNCHANGED <<asked, pyStale, ReqTp!rxSide, requestData, ReqTp!medium>>
      /\ lostReq' = lostReq /\ got' = got /\ pyStale' = pyStale /\ asked' = asked
  BY DEF Raise, ReqTp!rxSide, ReqTp!medium
<1>2. pyTx.pc # "idle"
  BY DEF pyTx, Sending
<1>3. pyTx' = ReqTp!IdleTx /\ unsent' = unsent \cup {Len(asked)}
  BY DEF Raise, pyTx, Sending, IdlePy, EcuIn!IdleTx, ReqTp!IdleTx
<1>4. ReqTp!IInv'
  BY <1>1, <1>2, <1>3, RequestAssumption, ReqTp!SenderGivesUp DEF Taken
<1> QED
  BY <1>1, <1>2, <1>3, <1>4 DEF RequestStep, ReqTp!RecordsKept, ReqTp!HistoryStep

\* The ECU stops a reception, with the next frame or without.
LEMMA RequestDropped ==
  ASSUME ReqTp!IInv, rx' = EcuIn!IdleRx, got' = got,
         UNCHANGED <<pyTx, asked, unsent, pyStale, lostReq, bus, fd>>,
         \/ Taken(requestData, requestData') /\ requestFlow' = requestFlow
         \/ requestData' = requestData /\ requestFlow' = requestFlow,
         faults' \in 0 .. MaxFaults
  PROVE  RequestStep
<1>1. /\ UNCHANGED <<ReqTp!txSide, requestFlow, ReqTp!medium>> /\ rx' = ReqTp!IdleRx
      /\ lostReq' = lostReq /\ pyStale' = pyStale /\ asked' = asked /\ unsent' = unsent
  BY DEF ReqTp!txSide, ReqTp!medium, EcuIn!IdleRx, ReqTp!IdleRx
<1>2. ReqTp!IInv'
  BY <1>1, RequestAssumption, ReqTp!HeadDropped, ReqTp!ReceiverGivesUp DEF Taken
<1> QED
  BY <1>1, <1>2 DEF RequestStep, ReqTp!RecordsKept, ReqTp!HistoryStep

----------------------------------------------------------------------------
(* The tester's steps, for the requests *)

\* The two names of the current request, and what is known of its length.
LEMMA RequestNames ==
  ASSUME TypeInv, LengthInv, RequestsFit, py.pc # "idle"
  PROVE  /\ ReqTp!data = request /\ fd \in BOOLEAN
         /\ Len(request) \in Nat \ {0} /\ IsPdu(Len(asked), request)
         /\ ~ fd => Len(request) <= FFMaxLen
<1>1. /\ fd \in BOOLEAN /\ Len(asked) \in 1 .. Len(asked) /\ IsPdu(Len(asked), request)
      /\ Len(request) \in Nat \ {0}
  BY CurrentRequest
<1>2. bus \in Buses /\ fd \in Modes
  BY DEF TypeInv, HistoryInv
<1>3. Len(request) \in Lengths[bus][fd]
  BY <1>1 DEF LengthInv, request
<1>4. ASSUME ~ fd PROVE Len(request) <= FFMaxLen
  <2>1. fd = FALSE /\ FALSE \in Modes
    BY <1>1, <1>2, <1>4
  <2>2. Len(request) \in 1 .. FFMaxLen
    BY <1>2, <1>3, <2>1 DEF RequestsFit
  <2> QED
    BY <2>2, Constants
<1> QED
  BY <1>1, <1>4 DEF ReqTp!data, request

\* Locals with the same values are the same.
LEMMA SameLocals ==
  ASSUME NEW t \in TxLocals, NEW u \in TxLocals,
         t.pc = u.pc, t.offset = u.offset, t.sn = u.sn, t.waits = u.waits,
         t.bs = u.bs, t.bs_sent = u.bs_sent
  PROVE  t = u
BY DEF TxLocals

\* The locals of a send() in progress, as IsoTp sees them.
LEMMA SenderFields ==
  ASSUME py \in PyLocals, Sending
  PROVE  /\ pyTx \in TxLocals
         /\ pyTx.pc = IF py.pc = "send" THEN "first" ELSE py.pc
         /\ pyTx.offset = py.offset /\ pyTx.sn = py.sn /\ pyTx.waits = 0
         /\ pyTx.bs = py.block_size /\ pyTx.bs_sent = py.block_count
BY DEF pyTx, Sending, PyLocals, TxLocals

\* Likewise after the step.
LEMMA SenderFieldsNext ==
  ASSUME py' \in PyLocals, Sending'
  PROVE  /\ pyTx' \in TxLocals
         /\ pyTx'.pc = IF py'.pc = "send" THEN "first" ELSE py'.pc
         /\ pyTx'.offset = py'.offset /\ pyTx'.sn = py'.sn /\ pyTx'.waits = 0
         /\ pyTx'.bs = py'.block_size /\ pyTx'.bs_sent = py'.block_count
BY DEF pyTx, Sending, PyLocals, TxLocals

\* How assignments to these locals look from IsoTp.
LEMMA SenderLocals ==
  ASSUME py \in PyLocals, Sending, NEW n \in Nat, NEW sn \in 0 .. SNMod - 1
  PROVE  /\ py' = [py EXCEPT !.pc = "fc", !.offset = n, !.sn = sn] =>
              pyTx' = [pyTx EXCEPT !.pc = "fc", !.offset = n, !.sn = sn]
         /\ py' = [py EXCEPT !.pc = "cf", !.block_size = n, !.block_count = 0] =>
              pyTx' = [pyTx EXCEPT !.pc = "cf", !.waits = 0, !.bs = n, !.bs_sent = 0]
<1>1. /\ pyTx \in TxLocals
      /\ pyTx.offset = py.offset /\ pyTx.sn = py.sn /\ pyTx.waits = 0
      /\ pyTx.bs = py.block_size /\ pyTx.bs_sent = py.block_count
  BY SenderFields
<1>2. ASSUME py' = [py EXCEPT !.pc = "fc", !.offset = n, !.sn = sn]
      PROVE  pyTx' = [pyTx EXCEPT !.pc = "fc", !.offset = n, !.sn = sn]
  <2> DEFINE u == [pyTx EXCEPT !.pc = "fc", !.offset = n, !.sn = sn]
  <2>1. /\ u \in TxLocals /\ u.pc = "fc" /\ u.offset = n /\ u.sn = sn
        /\ u.waits = pyTx.waits /\ u.bs = pyTx.bs /\ u.bs_sent = pyTx.bs_sent
    BY <1>1 DEF TxLocals
  <2>2. /\ py' \in PyLocals /\ py'.pc = "fc" /\ py'.offset = n /\ py'.sn = sn
        /\ py'.block_size = py.block_size /\ py'.block_count = py.block_count
    BY <1>2 DEF PyLocals
  <2> HIDE DEF u
  <2>3. Sending'
    BY <2>2 DEF Sending
  <2>4. pyTx' = u
    BY <1>1, <2>1, <2>2, <2>3, SenderFieldsNext, SameLocals
  <2> QED
    BY <2>4 DEF u
<1>3. ASSUME py' = [py EXCEPT !.pc = "cf", !.block_size = n, !.block_count = 0]
      PROVE  pyTx' = [pyTx EXCEPT !.pc = "cf", !.waits = 0, !.bs = n, !.bs_sent = 0]
  <2> DEFINE u == [pyTx EXCEPT !.pc = "cf", !.waits = 0, !.bs = n, !.bs_sent = 0]
  <2>1. /\ u \in TxLocals /\ u.pc = "cf" /\ u.offset = pyTx.offset /\ u.sn = pyTx.sn
        /\ u.waits = 0 /\ u.bs = n /\ u.bs_sent = 0
    BY <1>1 DEF TxLocals
  <2>2. /\ py' \in PyLocals /\ py'.pc = "cf" /\ py'.offset = py.offset /\ py'.sn = py.sn
        /\ py'.block_size = n /\ py'.block_count = 0
    BY <1>3 DEF PyLocals
  <2> HIDE DEF u
  <2>3. Sending'
    BY <2>2 DEF Sending
  <2>4. pyTx' = u
    BY <1>1, <2>1, <2>2, <2>3, SenderFieldsNext, SameLocals
  <2> QED
    BY <2>4 DEF u
<1> QED
  BY <1>2, <1>3

\* A call of _request.
LEMMA RequestCalled ==
  ASSUME TypeInv, ReqTp!IInv, NEW len \in Lengths[bus][fd], _request(len)
  PROVE  RequestStep
<1>1. /\ py.pc = "idle" /\ Len(asked) < MaxSends /\ py' = [IdlePy EXCEPT !.pc = "send"]
      /\ asked' = Append(asked, EcuIn!Pdu(Len(asked) + 1, len))
      /\ UNCHANGED <<unsent, pyStale, rx, got, toEcu, toTester, faults, lostReq, bus, fd>>
  BY DEF _request, ecuVars, medium
<1>2. pyTx = ReqTp!IdleTx /\ pyTx.pc = "idle"
  BY <1>1 DEF pyTx, Sending, EcuIn!IdleTx, ReqTp!IdleTx
<1>3. pyTx' = [ReqTp!IdleTx EXCEPT !.pc = "first"]
  BY <1>1 DEF pyTx, Sending, IdlePy, ReqTp!IdleTx
<1>4. requestData' = requestData /\ requestFlow' = requestFlow
  BY <1>1, ToEcuSplit, ToTesterSplit
<1>5. asked' = Append(asked, ReqTp!Pdu(Len(asked) + 1, len))
  BY <1>1 DEF EcuIn!Pdu, ReqTp!Pdu
<1>6. ReqTp!Call(len)
  BY <1>1, <1>2, <1>3, <1>4, <1>5 DEF ReqTp!Call, ReqTp!rxSide, ReqTp!medium
<1> QED
  BY <1>6, RequestNext DEF ReqTp!Next

\* A single or first frame.
LEMMA RequestStarted ==
  ASSUME TypeInv, LengthInv, RequestsFit, ReqTp!IInv, SendFirst
  PROVE  RequestStep
<1>1. /\ py.pc = "send" /\ Sending /\ pyTx.pc = "first"
      /\ UNCHANGED <<asked, unsent, pyStale, rx, got, toTester, faults, lostReq, bus, fd>>
  BY DEF SendFirst, Goto, Sending, pyTx, ecuVars, medium
<1>2. /\ ReqTp!data = request /\ fd \in BOOLEAN
      /\ Len(request) \in Nat \ {0} /\ IsPdu(Len(asked), request)
      /\ ~ fd => Len(request) <= FFMaxLen
  BY <1>1, RequestNames
<1>3. requestFlow' = requestFlow
  BY <1>1, ToTesterSplit
<1>4. ReqTp!SFLimit = EcuIn!SFLimit
  BY DEF ReqTp!SFLimit, EcuIn!SFLimit
<1>5. Len(asked) \in 1 .. Len(asked) /\ Len(asked) \in Nat
  BY <1>1, CurrentRequest
<1>6. CASE /\ Len(request) <= EcuIn!SFLimit
           /\ toEcu' = Append(toEcu, _send_sf(request))
           /\ Goto([IdlePy EXCEPT !.pc = "recv"])
  <2>1. _send_sf(request) = ReqTp!EncodeSF(request)
    <3> DEFINE short == Len(request) <= SFMax
    <3>1. (fd /\ Len(request) > SFMax) <=> (fd /\ ~ short)
      BY <1>2, Constants
    <3> HIDE DEF short
    <3>2. _send_sf(request) =
            [type |-> "SF", bytes |-> request,
             dl |-> IF fd /\ ~ short THEN 0 ELSE Len(request),
             ext |-> IF fd /\ ~ short THEN Len(request) ELSE 0]
      BY <3>1 DEF _send_sf
    <3>3. CASE fd
      <4>1. ReqTp!EncodeSF(request) =
              [type |-> "SF", bytes |-> request,
               dl |-> IF short THEN Len(request) ELSE 0,
               ext |-> IF short THEN 0 ELSE Len(request)]
        BY <3>3 DEF ReqTp!EncodeSF, ReqTp!uds_tp_encode_sf_fd, short
      <4> QED
        BY <3>2, <3>3, <4>1
    <3>4. CASE ~ fd
      BY <3>2, <3>4 DEF ReqTp!EncodeSF, ReqTp!uds_tp_encode_sf
    <3> QED
      BY <3>3, <3>4
  <2>2. _send_sf(request) \in Frames /\ _send_sf(request).type = "SF"
    BY <1>2, <1>5, RequestFrames DEF EcuFrame, Sized, _send_sf
  <2>3. requestData' = Append(requestData, ReqTp!EncodeSF(ReqTp!data))
    BY <1>2, <1>6, <2>1, <2>2, ToEcuSplit
  <2>4. pyTx' = ReqTp!IdleTx
    BY <1>6 DEF Goto, IdlePy, pyTx, Sending, EcuIn!IdleTx, ReqTp!IdleTx
  <2>5. ReqTp!SendFirst
    BY <1>1, <1>2, <1>3, <1>4, <1>6, <2>3, <2>4
       DEF ReqTp!SendFirst, ReqTp!SendReturnsOk, ReqTp!rxSide, ReqTp!medium
  <2> QED
    BY <1>2, <2>5, RequestMoved DEF ReqTp!Send
<1>7. CASE /\ Len(request) > EcuIn!SFLimit
           /\ toEcu' = Append(toEcu, FirstFrame(request))
           /\ Goto([py EXCEPT !.pc = "fc", !.offset = embed(request), !.sn = 1])
  <2>1. FirstFrame(request) = ReqTp!EncodeFF(request)
    <3> DEFINE cut == Len(request) % (FFMaxLen + 1)
               long == fd /\ Len(request) > FFMaxLen
    <3>1. ~ long => cut = Len(request)
      BY <1>2, Constants
    <3>2. FirstFrame(request) =
            [type |-> "FF", bytes |-> SubSeq(request, 1, embed(request)),
             dl |-> IF long THEN 0 ELSE cut, ext |-> IF long THEN Len(request) ELSE 0]
      BY DEF FirstFrame
    <3> HIDE DEF cut, long
    <3>3. FirstFrame(request) =
            [type |-> "FF", bytes |-> SubSeq(request, 1, embed(request)),
             dl |-> IF long THEN 0 ELSE Len(request), ext |-> IF long THEN Len(request) ELSE 0]
      BY <3>1, <3>2
    <3>4. CASE fd
      BY <1>2, <3>3, <3>4, Constants
         DEF long, embed, ReqTp!EncodeFF, ReqTp!uds_tp_encode_ff_fd
    <3>5. CASE ~ fd
      BY <3>3, <3>5 DEF long, embed, ReqTp!EncodeFF, ReqTp!uds_tp_encode_ff
    <3> QED
      BY <3>4, <3>5
  <2>2. FirstFrame(request) \in Frames /\ FirstFrame(request).type = "FF"
    BY <1>2, <1>5, <1>7, RequestFrames DEF EcuFrame, Sized, FirstFrame
  <2>3. requestData' = Append(requestData, ReqTp!EncodeFF(ReqTp!data))
    BY <1>2, <1>7, <2>1, <2>2, ToEcuSplit
  <2>4. py' = [py EXCEPT !.pc = "fc", !.offset = embed(request), !.sn = 1] /\ py \in PyLocals
    BY <1>7, TypeFacts DEF Goto
  <2>5. embed(request) = ReqTp!ff_embed
    BY <1>2 DEF embed, ReqTp!ff_embed
  <2>8. embed(request) \in Nat /\ 1 \in 0 .. SNMod - 1
    BY Constants DEF embed
  <2>6. pyTx' = [pyTx EXCEPT !.pc = "fc", !.offset = ReqTp!ff_embed, !.sn = 1]
    BY <1>1, <2>4, <2>5, <2>8, SenderLocals
  <2>7. ReqTp!SendFirst
    BY <1>1, <1>2, <1>3, <1>4, <1>7, <2>3, <2>6
       DEF ReqTp!SendFirst, ReqTp!rxSide, ReqTp!medium
  <2> QED
    BY <1>2, <2>7, RequestMoved DEF ReqTp!Send
<1> QED
  BY <1>6, <1>7 DEF SendFirst

\* Flow control, or a frame of a response in its place.
LEMMA RequestFlowTaken ==
  ASSUME TypeInv, LengthInv, RequestsFit, ReqTp!IInv, _check_fc_continue
  PROVE  RequestStep
<1> DEFINE fc == Head(toTester)
<1>1. /\ py.pc = "fc" /\ Sending /\ pyTx.pc = "fc" /\ Taken(toTester, toTester') /\ toEcu' = toEcu
      /\ UNCHANGED <<rx, got, faults, lostReq, bus, fd>>
  BY DEF _check_fc_continue, Sending, pyTx, Taken, ecuVars, medium
<1>2. /\ fc.type # "FC" => requestFlow' = requestFlow
      /\ fc.type = "FC" => Taken(requestFlow, requestFlow') /\ Head(requestFlow) = fc
  BY <1>1, ToTesterSplit
<1>3. requestData' = requestData /\ faults' \in 0 .. MaxFaults
  BY <1>1, ToEcuSplit, TypeFacts
<1> HIDE DEF fc
<1>4. CASE Raise
  BY <1>1, <1>2, <1>3, <1>4, RequestGivenUp
<1>5. CASE /\ fc.type = "FC" /\ fc.fs = "CTS"
           /\ py' = [py EXCEPT !.pc = IF py.offset < Len(request) THEN "cf" ELSE "recv",
                               !.block_size = fc.bs, !.block_count = 0]
           /\ pyStale' = IF fc.msg = Len(asked) THEN pyStale ELSE pyStale \cup {Len(asked)}
           /\ UNCHANGED <<asked, unsent, answers>>
  <2>1. py.offset < Len(request)
    <3>1. pyTx.offset < Len(ReqTp!data)
      BY <1>1 DEF ReqTp!IInv, ReqTp!SenderInv
    <3> QED
      BY <1>1, <3>1, RequestNames DEF pyTx
  <2>2. pyTx' = [pyTx EXCEPT !.pc = "cf", !.waits = 0, !.bs = fc.bs, !.bs_sent = 0]
    <3>1. py \in PyLocals /\ fc \in Frames
      BY <1>1, TypeFacts, TailFacts DEF Taken, fc
    <3>2. fc.bs \in Nat
      BY <1>5, <3>1, Kinds DEF CtsFrames
    <3>3. py' = [py EXCEPT !.pc = "cf", !.block_size = fc.bs, !.block_count = 0]
      BY <1>5, <2>1
    <3>4. 0 \in 0 .. SNMod - 1 /\ 0 \in Nat
      BY Constants
    <3> QED
      BY <1>1, <3>1, <3>2, <3>3, <3>4, SenderLocals
  <2>3. ReqTp!StartBlock(fc)
    BY <1>5, <2>2 DEF ReqTp!StartBlock
  <2>4. ReqTp!RecvFlow
    BY <1>1, <1>2, <1>3, <1>5, <2>3
       DEF ReqTp!RecvFlow, ReqTp!WaitForFlow, Taken, ReqTp!rxSide, ReqTp!medium
  <2>5. fd \in BOOLEAN
    BY TypeFacts
  <2> QED
    BY <2>4, <2>5, RequestMoved DEF ReqTp!Send
<1> QED
  BY <1>4, <1>5 DEF _check_fc_continue, fc

\* A consecutive frame.
LEMMA RequestContinued ==
  ASSUME TypeInv, LengthInv, BlockInv, RequestsFit, ReqTp!IInv, SendCF
  PROVE  RequestStep
<1> DEFINE offset == EcuIn!Smaller(py.offset + EcuIn!CFLimit, Len(request))
           count == py.block_count + 1
           sn == NextSn(py.sn)
           frame == ConsecutiveFrame(SubSeq(request, py.offset + 1, offset), py.sn)
           next == AfterCF(offset, count)
<1>1. /\ py.pc = "cf" /\ Sending /\ pyTx.pc = "cf" /\ toEcu' = Append(toEcu, frame)
      /\ py' = [py EXCEPT !.pc = next, !.offset = offset, !.sn = sn, !.block_count = count]
      /\ UNCHANGED <<asked, unsent, pyStale, rx, got, toTester, faults, lostReq, bus, fd>>
  BY DEF SendCF, Goto, Sending, pyTx, ecuVars, medium
<1>2. /\ ReqTp!data = request /\ fd \in BOOLEAN
      /\ Len(request) \in Nat \ {0} /\ IsPdu(Len(asked), request)
      /\ Len(asked) \in 1 .. Len(asked) /\ Len(asked) \in Nat
  BY <1>1, RequestNames, CurrentRequest
<1>3. /\ py \in PyLocals /\ py.offset \in Nat /\ py.sn \in 0 .. SNMod - 1
      /\ py.block_count \in Nat /\ py.block_size = 0
  BY TypeFacts DEF PyLocals, BlockInv
<1>4. /\ pyTx.offset = py.offset /\ pyTx.sn = py.sn /\ pyTx.bs_sent = py.block_count
      /\ pyTx.bs = 0
  BY <1>1, <1>3 DEF pyTx
<1> DEFINE chunk == ReqTp!Smaller(Len(request) - py.offset, ReqTp!CFLimit)
<1>5. offset = py.offset + chunk /\ offset \in 0 .. Len(request) /\ offset \in Nat
  BY <1>2, <1>3, Constants
     DEF EcuIn!Smaller, EcuIn!CFLimit, ReqTp!Smaller, ReqTp!CFLimit
<1>6. frame = ReqTp!EncodeCF(SubSeq(request, py.offset + 1, offset), py.sn)
  BY DEF ConsecutiveFrame, EcuIn!CFLimit, ReqTp!EncodeCF, ReqTp!uds_tp_encode_cf,
         ReqTp!uds_tp_encode_cf_fd, ReqTp!Padded, EcuIn!Padded, ReqTp!Pad, EcuIn!Pad
<1>7. frame \in Frames /\ frame.type = "CF"
  <2> HIDE DEF offset
  <2> QED
    BY <1>2, <1>3, <1>5, RequestFrames DEF EcuFrame, Sized, ConsecutiveFrame
<1> HIDE DEF offset, chunk, frame
<1>8. requestData' = Append(requestData, frame) /\ requestFlow' = requestFlow
  BY <1>1, <1>7, ToEcuSplit, ToTesterSplit
<1>9. /\ ReqTp!AfterCF(offset, count) = IF offset >= Len(request) THEN "idle" ELSE "cf"
      /\ next = IF offset < Len(request) THEN "cf" ELSE "recv"
  BY <1>2, <1>3, <1>4 DEF ReqTp!AfterCF, AfterCF
<1>10. sn = (py.sn + 1) % SNMod
  BY DEF NextSn
<1> HIDE DEF next, sn, count
<1>11. CASE offset >= Len(request)
  <2>1. py'.pc = "recv"
    BY <1>1, <1>2, <1>3, <1>5, <1>9, <1>11 DEF PyLocals
  <2>2. pyTx' = ReqTp!IdleTx
    BY <2>1 DEF pyTx, Sending, EcuIn!IdleTx, ReqTp!IdleTx
  <2>3. ReqTp!SendReturnsOk
    BY <1>1, <2>2 DEF ReqTp!SendReturnsOk
  <2>4. ReqTp!SendCF
    BY <1>1, <1>2, <1>4, <1>5, <1>6, <1>8, <1>9, <1>11, <2>3
       DEF ReqTp!SendCF, ReqTp!rxSide, ReqTp!medium, chunk, count
  <2> QED
    BY <1>2, <2>4, RequestMoved DEF ReqTp!Send
<1>12. CASE ~ (offset >= Len(request))
  <2>1. next = "cf"
    BY <1>2, <1>5, <1>9, <1>12
  <2>2. pyTx' = [pyTx EXCEPT !.pc = "cf", !.offset = offset, !.sn = sn, !.bs_sent = count]
    <3>1. sn \in 0 .. SNMod - 1 /\ count \in Nat
      BY <1>3, <1>10, Constants DEF count
    <3>2. py' = [py EXCEPT !.pc = "cf", !.offset = offset, !.sn = sn, !.block_count = count]
      BY <1>1, <2>1
    <3> DEFINE u == [pyTx EXCEPT !.pc = "cf", !.offset = offset, !.sn = sn, !.bs_sent = count]
    <3>3. /\ pyTx \in TxLocals /\ pyTx.waits = 0 /\ pyTx.bs = py.block_size
      BY <1>1, <1>3, SenderFields
    <3>4. /\ u \in TxLocals /\ u.pc = "cf" /\ u.offset = offset /\ u.sn = sn
          /\ u.waits = pyTx.waits /\ u.bs = pyTx.bs /\ u.bs_sent = count
      BY <1>5, <3>1, <3>3 DEF TxLocals
    <3>5. /\ py' \in PyLocals /\ py'.pc = "cf" /\ py'.offset = offset /\ py'.sn = sn
          /\ py'.block_size = py.block_size /\ py'.block_count = count
      BY <1>3, <1>5, <3>1, <3>2 DEF PyLocals
    <3> HIDE DEF u
    <3>6. Sending'
      BY <3>5 DEF Sending
    <3>7. pyTx' = u
      BY <3>3, <3>4, <3>5, <3>6, SenderFieldsNext, SameLocals
    <3> QED
      BY <3>7 DEF u
  <2>3. ReqTp!SendCF
    BY <1>1, <1>2, <1>4, <1>5, <1>6, <1>8, <1>9, <1>10, <1>12, <2>2
       DEF ReqTp!SendCF, ReqTp!rxSide, ReqTp!medium, chunk, count
  <2> QED
    BY <1>2, <2>3, RequestMoved DEF ReqTp!Send
<1> QED
  BY <1>11, <1>12

----------------------------------------------------------------------------
(* The other steps, for the requests *)

\* recv() and the timeouts of either call.
LEMMA RequestAwaited ==
  ASSUME TypeInv, ReqTp!IInv, RecvFirst \/ _recv_multi \/ _recv_frame
  PROVE  RequestStep
<1>1. faults \in 0 .. MaxFaults /\ toTester \in Seq(Frames)
  BY TypeFacts
<1>2. ASSUME py.pc \in {"recv", "multi"}, ~ Sending',
             UNCHANGED <<asked, unsent, pyStale, ecuVars, faults, medium, requestData>>,
             toTester' = toTester \/ Taken(toTester, toTester')
      PROVE  RequestStep
  <2>1. pyTx' = pyTx
    BY <1>2 DEF pyTx, Sending, EcuIn!IdleTx
  <2>2. UNCHANGED <<requestRest, requestData>> /\ faults' = faults
    BY <1>2, <2>1 DEF requestRest, ecuVars, medium
  <2>3. requestFlow' = requestFlow \/ Taken(requestFlow, requestFlow')
    BY <1>2, ToTesterSplit
  <2> QED
    BY <1>1, <2>2, <2>3, RequestFlowStep
<1>3. ASSUME py.pc \in {"recv", "multi"}, Raise \/ \E pdu : Return(pdu)
      PROVE  ~ Sending' /\ UNCHANGED <<asked, unsent, pyStale>>
  BY <1>3 DEF Sending, Raise, Return, IdlePy
<1>4. CASE RecvFirst
  <2> DEFINE frame == Head(toTester)
  <2>1. /\ py.pc \in {"recv", "multi"} /\ Taken(toTester, toTester')
        /\ UNCHANGED <<ecuVars, faults, medium>>
    BY <1>4 DEF RecvFirst, Taken
  <2>2. CASE toEcu' = toEcu /\ (Raise \/ \E pdu : Return(pdu))
    BY <1>2, <1>3, <2>1, <2>2, ToEcuSplit
  <2>3. CASE /\ frame.type = "FF"
             /\ toEcu' = Append(toEcu, FlowControl(frame.bytes))
             /\ Goto([IdlePy EXCEPT !.pc = "multi", !.buf = frame.bytes,
                                    !.total = TotalOf(frame), !.expected_sn = 1])
    <3>1. FlowControl(frame.bytes) \in Frames /\ FlowControl(frame.bytes).type = "FC"
      <4>1. TesterFrame(fd, frame) /\ Sized(fd, frame) /\ fd \in BOOLEAN
        BY <2>1, TypeFacts, TailFacts DEF Taken, TesterFrame
      <4>2. frame.bytes \in Seq(Octet) /\ Len(frame.bytes) > 0
        BY <2>3, <4>1, HeadTyped DEF Sized
      <4> QED
        BY <4>2, FlowFrames DEF FlowControl, EcuFrame, Sized, EcuIn!uds_tp_encode_fc
    <3>2. requestData' = requestData
      BY <2>3, <3>1, ToEcuSplit
    <3>3. ~ Sending' /\ UNCHANGED <<asked, unsent, pyStale>>
      BY <2>3 DEF Goto, Sending, IdlePy
    <3> QED
      BY <1>2, <2>1, <3>2, <3>3
  <2> QED
    BY <1>4, <2>2, <2>3 DEF RecvFirst
<1>5. CASE _recv_multi
  <2>1. /\ py.pc \in {"recv", "multi"} /\ Taken(toTester, toTester') /\ toEcu' = toEcu
        /\ UNCHANGED <<ecuVars, faults, medium>>
    BY <1>5 DEF _recv_multi, Taken
  <2>2. ~ Sending' /\ UNCHANGED <<asked, unsent, pyStale>>
    <3>1. CASE Raise \/ \E pdu : Return(pdu)
      BY <1>3, <2>1, <3>1
    <3>2. ASSUME NEW buf, Goto([py EXCEPT !.buf = buf, !.expected_sn = NextSn(@)])
          PROVE  ~ Sending' /\ UNCHANGED <<asked, unsent, pyStale>>
      <4>1. py'.pc = py.pc
        BY <3>2, TypeFacts DEF Goto, PyLocals
      <4> QED
        BY <2>1, <3>2, <4>1 DEF Goto, Sending
    <3> QED
      BY <1>5, <3>1, <3>2 DEF _recv_multi
  <2> QED
    BY <1>2, <2>1, <2>2, ToEcuSplit
<1>6. CASE _recv_frame
  <2>1. /\ py.pc \in {"fc", "recv", "multi"} /\ Raise
        /\ UNCHANGED <<toEcu, toTester, ecuVars, faults, medium>>
    BY <1>6 DEF _recv_frame, Deadline
  <2>2. requestData' = requestData /\ requestFlow' = requestFlow
    BY <2>1, ToEcuSplit, ToTesterSplit
  <2>3. CASE py.pc = "fc"
    BY <1>1, <2>1, <2>2, <2>3, RequestGivenUp DEF Sending, ecuVars, medium
  <2>4. CASE py.pc # "fc"
    BY <1>2, <1>3, <2>1, <2>2, <2>4
  <2> QED
    BY <2>3, <2>4
<1> QED
  BY <1>4, <1>5, <1>6

\* The ECU's half is IsoTp's.
LEMMA RequestDecoders ==
  /\ \A f : ReqTp!DecodeSF(f) = EcuIn!DecodeSF(f) /\ ReqTp!DecodeFF(f) = EcuIn!DecodeFF(f)
  /\ \A f, n : ReqTp!DecodeCF(f, n) = EcuIn!DecodeCF(f, n)
  /\ \A a, b : ReqTp!Smaller(a, b) = EcuIn!Smaller(a, b)
  /\ \A n, k : ReqTp!NeedsFC(n, k) <=> EcuIn!NeedsFC(n, k)
  /\ \A pdus : ReqTp!RecvReturns(pdus) <=> EcuIn!RecvReturns(pdus)
  /\ ReqTp!CFLimit = EcuIn!CFLimit /\ ReqTp!IdleRx = EcuIn!IdleRx
BY DEF ReqTp!DecodeSF, ReqTp!DecodeFF, ReqTp!DecodeCF, ReqTp!Smaller, ReqTp!NeedsFC,
       ReqTp!RecvReturns, ReqTp!CFLimit, ReqTp!IdleRx, ReqTp!uds_tp_decode_sf,
       ReqTp!uds_tp_decode_sf_fd, ReqTp!uds_tp_decode_ff, ReqTp!uds_tp_decode_ff_fd,
       ReqTp!uds_tp_decode_cf, ReqTp!uds_tp_decode_cf_fd,
       EcuIn!DecodeSF, EcuIn!DecodeFF, EcuIn!DecodeCF, EcuIn!Smaller, EcuIn!NeedsFC,
       EcuIn!RecvReturns, EcuIn!CFLimit, EcuIn!IdleRx, EcuIn!uds_tp_decode_sf,
       EcuIn!uds_tp_decode_sf_fd, EcuIn!uds_tp_decode_ff, EcuIn!uds_tp_decode_ff_fd,
       EcuIn!uds_tp_decode_cf, EcuIn!uds_tp_decode_cf_fd

\* Flow control goes to the queue of the tester's flow control.
LEMMA RequestFlowSent ==
  ASSUME TypeInv, NEW bytes \in Seq(Octet), Len(bytes) > 0, EcuIn!SendFC(bytes)
  PROVE  ReqTp!SendFC(bytes) /\ responseData' = responseData
<1> DEFINE f == EcuIn!uds_tp_encode_fc("CTS", BlockSize, EcuIn!MsgOf(bytes))
<1>1. f \in Frames /\ f.type = "FC"
  <2>1. BlockSize \in Nat
    BY Constants
  <2> QED
    BY <2>1, FlowFrames DEF EcuFrame, Sized, EcuIn!uds_tp_encode_fc
<1>2. requestFlow' = Append(requestFlow, f) /\ responseData' = responseData
  <2>1. toTester' = Append(toTester, f)
    BY DEF EcuIn!SendFC
  <2> HIDE DEF f
  <2> QED
    BY <1>1, <2>1, ToTesterSplit
<1> QED
  BY <1>2 DEF ReqTp!SendFC, ReqTp!uds_tp_encode_fc, ReqTp!MsgOf, EcuIn!uds_tp_encode_fc, EcuIn!MsgOf

\* What uds_tp_recv leaves alone.
LEMMA RequestReaderFrame ==
  ASSUME UNCHANGED <<testerVars, lostReq, bus, fd>>
  PROVE  UNCHANGED <<ReqTp!txSide, ReqTp!medium, pyTx, asked, unsent, pyStale>>
BY DEF testerVars, ReqTp!txSide, ReqTp!medium, pyTx, Sending, EcuIn!IdleTx

\* The frame at the head of the queue to the ECU, when it is data.
LEMMA EcuHead ==
  ASSUME TypeInv, Taken(toEcu, toEcu')
  PROVE  LET frame == Head(toEcu) IN
         /\ Sized(fd, frame) /\ fd \in BOOLEAN
         /\ frame.type # "FC" => frame.bytes \in Seq(Octet)
         /\ frame.type = "FF" => Len(frame.bytes) > 0
<1>1. Sized(fd, Head(toEcu)) /\ fd \in BOOLEAN
  BY TypeFacts, TailFacts DEF Taken, EcuFrame
<1> QED
  BY <1>1, HeadTyped DEF Sized

\* What uds_tp_recv has after the next consecutive frame.
LEMMA EcuCopies ==
  ASSUME TypeInv, rx.pc = "cf", Taken(toEcu, toEcu'), Head(toEcu).type = "CF"
  PROVE  LET missing == rx.total_len - Len(rx.buf)
             buf == rx.buf \o EcuIn!DecodeCF(Head(toEcu), EcuIn!Smaller(missing, EcuIn!CFLimit))
         IN  buf \in Seq(Octet) /\ Len(buf) > 0
<1> DEFINE frame == Head(toEcu)
           size == EcuIn!CFLimit
           missing == rx.total_len - Len(rx.buf)
           chunk == EcuIn!Smaller(missing, size)
           buf == rx.buf \o EcuIn!DecodeCF(frame, chunk)
<1>1. Sized(fd, frame) /\ fd \in BOOLEAN /\ rx \in RxLocals
  BY TypeFacts, TailFacts DEF Taken, EcuFrame
<1>2. rx.buf \in Seq(Octet) /\ Len(rx.buf) > 0 /\ rx.total_len \in Nat
  BY <1>1 DEF RxLocals, TypeInv, LocalsInv
<1>3. size \in Nat \ {0} /\ Len(frame.bytes) = size /\ frame.bytes \in Seq(Octet)
  BY <1>1, HeadTyped, Constants DEF Sized, EcuIn!CFLimit
<1>4. missing \in Int
  BY <1>2
<1>5. chunk = EcuIn!Smaller(size, missing)
  BY <1>3, <1>4 DEF EcuIn!Smaller
<1>6. EcuIn!DecodeCF(frame, chunk) = SubSeq(frame.bytes, 1, chunk)
  BY DEF EcuIn!DecodeCF, EcuIn!uds_tp_decode_cf, EcuIn!uds_tp_decode_cf_fd
<1> HIDE DEF size, missing, chunk, frame
<1>7. /\ rx.buf \o SubSeq(frame.bytes, 1, chunk) \in Seq(Octet)
      /\ Len(rx.buf \o SubSeq(frame.bytes, 1, chunk)) >= Len(rx.buf)
  BY <1>2, <1>3, <1>4, <1>5, CopyFacts
<1>8. buf = rx.buf \o SubSeq(frame.bytes, 1, chunk)
  BY <1>6
<1> HIDE DEF buf
<1>9. buf \in Seq(Octet) /\ Len(buf) >= Len(rx.buf)
  BY <1>7, <1>8
<1>10. Len(buf) \in Nat /\ Len(rx.buf) \in Nat
  BY <1>2, <1>9
<1>11. buf \in Seq(Octet) /\ Len(buf) > 0
  BY <1>2, <1>9, <1>10
<1> QED
  BY <1>11 DEF buf, chunk, missing, size, frame

\* The steps of uds_tp_recv.
LEMMA RequestReceived ==
  ASSUME TypeInv, ReqTp!IInv, EcuRecv
  PROVE  RequestStep
<1> DEFINE frame == Head(toEcu)
<1>1. /\ UNCHANGED testerVars /\ fd \in BOOLEAN /\ faults \in 0 .. MaxFaults
  BY TypeFacts DEF EcuRecv
<1>2. CASE EcuIn!RecvFirst
  <2>1. /\ rx.pc = "first" /\ Taken(toEcu, toEcu')
        /\ UNCHANGED <<lostReq, bus, fd>> /\ faults' = faults
    BY <1>2 DEF EcuIn!RecvFirst, Taken, EcuIn!medium
  <2>2. UNCHANGED <<ReqTp!txSide, ReqTp!medium, pyTx, asked, unsent, pyStale>>
    BY <1>1, <2>1, RequestReaderFrame
  <2>3. CASE frame.type = "FC"
    <3>1. EcuIn!RecvReturns(<<>>) /\ toTester' = toTester
      BY <1>2, <2>3 DEF EcuIn!RecvFirst
    <3>2. rx' = EcuIn!IdleRx /\ got' = got
      <4>1. \A pdu \in Seq(Octet) : <<>> # <<pdu>>
        OBVIOUS
      <4>2. got \in Seq(Seq(Octet))
        BY TypeFacts
      <4> QED
        BY <3>1, <4>2, ConcatEmptySeq DEF EcuIn!RecvReturns
    <3>3. requestData' = requestData /\ requestFlow' = requestFlow
      BY <2>1, <2>3, <3>1, ToEcuSplit, ToTesterSplit
    <3> QED
      BY <1>1, <2>1, <2>2, <3>2, <3>3, RequestDropped
  <2>4. CASE frame.type # "FC"
    <3>1. Taken(requestData, requestData') /\ Head(requestData) = frame
      BY <2>1, <2>4, ToEcuSplit
    <3>2. toTester' = toTester => requestFlow' = requestFlow
      BY ToTesterSplit
    <3>3. frame.type = "FF" /\ EcuIn!SendFC(frame.bytes) => ReqTp!SendFC(frame.bytes)
      BY <2>1, <2>4, EcuHead, RequestFlowSent
    <3>4. ReqTp!RecvFirst
      BY <1>2, <2>1, <2>2, <3>1, <3>2, <3>3, RequestDecoders
         DEF EcuIn!RecvFirst, ReqTp!RecvFirst, Taken
    <3> QED
      BY <1>1, <3>4, RequestMoved DEF ReqTp!Recv
  <2> QED
    BY <2>3, <2>4
<1>3. CASE EcuIn!RecvCF
  <2>1. /\ rx.pc = "cf" /\ Taken(toEcu, toEcu')
        /\ UNCHANGED <<lostReq, bus, fd>> /\ faults' = faults
    BY <1>3 DEF EcuIn!RecvCF, Taken, EcuIn!medium
  <2>2. UNCHANGED <<ReqTp!txSide, ReqTp!medium, pyTx, asked, unsent, pyStale>>
    BY <1>1, <2>1, RequestReaderFrame
  <2>3. CASE frame.type = "FC"
    <3>1. EcuIn!RecvReturns(<<>>) /\ toTester' = toTester
      BY <1>3, <2>3 DEF EcuIn!RecvCF, EcuIn!Accepts, EcuIn!RejectFrame
    <3>2. rx' = EcuIn!IdleRx /\ got' = got
      BY <3>1, TypeFacts, ConcatEmptySeq DEF EcuIn!RecvReturns
    <3>3. requestData' = requestData /\ requestFlow' = requestFlow
      BY <2>1, <2>3, <3>1, ToEcuSplit, ToTesterSplit
    <3> QED
      BY <1>1, <2>1, <2>2, <3>2, <3>3, RequestDropped
  <2>4. CASE frame.type # "FC"
    <3>1. Taken(requestData, requestData') /\ Head(requestData) = frame
      BY <2>1, <2>4, ToEcuSplit
    <3>2. toTester' = toTester => requestFlow' = requestFlow
      BY ToTesterSplit
    <3> DEFINE chunk == EcuIn!Smaller(rx.total_len - Len(rx.buf), EcuIn!CFLimit)
               buf == rx.buf \o EcuIn!DecodeCF(frame, chunk)
               count == rx.bs_count + 1
    <3>3. EcuIn!Accepts(frame) /\ EcuIn!SendFC(buf) => ReqTp!SendFC(buf)
      BY <2>1, EcuCopies, RequestFlowSent DEF EcuIn!Accepts
    <3>4. /\ buf = rx.buf \o ReqTp!DecodeCF(frame,
                            ReqTp!Smaller(rx.total_len - Len(rx.buf), ReqTp!CFLimit))
          /\ EcuIn!Accepts(frame) <=> ReqTp!Accepts(frame)
          /\ EcuIn!NeedsFC(Len(buf), count) <=> ReqTp!NeedsFC(Len(buf), count)
      BY RequestDecoders DEF EcuIn!Accepts, ReqTp!Accepts
    <3>5. /\ rx.pc = "cf" /\ requestData # <<>> /\ requestData' = Tail(requestData)
          /\ UNCHANGED <<ReqTp!txSide, faults, ReqTp!medium>>
      BY <2>1, <2>2, <3>1 DEF Taken
    <3>6. CASE ~ EcuIn!Accepts(frame)
      <4>1. EcuIn!RejectFrame
        BY <1>3, <3>6 DEF EcuIn!RecvCF
      <4>2. ReqTp!RejectFrame
        BY <3>2, <4>1, RequestDecoders DEF EcuIn!RejectFrame, ReqTp!RejectFrame
      <4>3. ReqTp!RecvCF
        BY <3>1, <3>4, <3>5, <3>6, <4>2 DEF ReqTp!RecvCF
      <4> QED
        BY <1>1, <4>3, RequestMoved DEF ReqTp!Recv
    <3>7. CASE EcuIn!Accepts(frame)
      <4>1. /\ IF EcuIn!NeedsFC(Len(buf), count) THEN EcuIn!SendFC(buf) ELSE UNCHANGED toTester
            /\ \/ Len(buf) >= rx.total_len /\ EcuIn!RecvReturns(<<buf>>)
               \/ /\ Len(buf) < rx.total_len
                  /\ rx' = [rx EXCEPT !.buf = buf, !.expected_sn = (@ + 1) % SNMod,
                                      !.bs_count = IF EcuIn!NeedsFC(Len(buf), count)
                                                   THEN 0 ELSE count]
                  /\ UNCHANGED got
        BY <1>3, <3>7 DEF EcuIn!RecvCF
      <4> HIDE DEF buf, count, chunk
      <4>2. /\ IF ReqTp!NeedsFC(Len(buf), count) THEN ReqTp!SendFC(buf) ELSE UNCHANGED requestFlow
            /\ \/ Len(buf) >= rx.total_len /\ ReqTp!RecvReturns(<<buf>>)
               \/ /\ Len(buf) < rx.total_len
                  /\ rx' = [rx EXCEPT !.buf = buf, !.expected_sn = (@ + 1) % SNMod,
                                      !.bs_count = IF ReqTp!NeedsFC(Len(buf), count)
                                                   THEN 0 ELSE count]
                  /\ UNCHANGED got
        BY <3>2, <3>3, <3>4, <3>7, <4>1, RequestDecoders
      <4>3. ReqTp!RecvCF
        BY <3>1, <3>4, <3>5, <3>7, <4>2 DEF ReqTp!RecvCF, count
      <4> QED
        BY <1>1, <4>3, RequestMoved DEF ReqTp!Recv
    <3> QED
      BY <3>6, <3>7
  <2> QED
    BY <2>3, <2>4
<1>4. CASE EcuIn!RecvTimesOut
  <2>1. /\ EcuIn!RecvReturns(<<>>) /\ toEcu' = toEcu /\ toTester' = toTester
        /\ UNCHANGED <<lostReq, bus, fd>> /\ faults' = faults
    BY <1>4 DEF EcuIn!RecvTimesOut, EcuIn!medium
  <2>2. UNCHANGED <<ReqTp!txSide, ReqTp!medium, pyTx, asked, unsent, pyStale>>
    BY <1>1, <2>1, RequestReaderFrame
  <2>3. rx' = EcuIn!IdleRx /\ got' = got
    BY <2>1, TypeFacts, ConcatEmptySeq DEF EcuIn!RecvReturns
  <2>4. requestData' = requestData /\ requestFlow' = requestFlow
    BY <2>1, ToEcuSplit, ToTesterSplit
  <2> QED
    BY <1>1, <2>1, <2>2, <2>3, <2>4, RequestDropped
<1> QED
  BY <1>2, <1>3, <1>4 DEF EcuRecv

\* The frames that uds_tp_send makes.
LEMMA ResponseEncoded ==
  ASSUME TypeInv, tx.pc # "idle"
  PROVE  LET pdu == EcuOut!data
             chunk == EcuOut!Smaller(Len(pdu) - tx.offset, EcuOut!CFLimit)
             piece == EcuOut!EncodeCF(SubSeq(pdu, tx.offset + 1, tx.offset + chunk), tx.sn)
         IN
         /\ EcuOut!EncodeSF(pdu) \in Frames /\ EcuOut!EncodeSF(pdu).type = "SF"
         /\ Len(pdu) > EcuOut!SFLimit /\ (fd \/ Len(pdu) <= FFMaxLen) =>
              EcuOut!EncodeFF(pdu) \in Frames /\ EcuOut!EncodeFF(pdu).type = "FF"
         /\ piece \in Frames /\ piece.type = "CF"
<1> DEFINE pdu == EcuOut!data
           offset == tx.offset + EcuOut!Smaller(Len(pdu) - tx.offset, EcuOut!CFLimit)
<1>1. /\ fd \in BOOLEAN /\ Len(sent) \in Nat /\ IsPdu(Len(sent), pdu) /\ Len(pdu) \in Nat
      /\ tx.offset \in Nat /\ tx.sn \in 0 .. SNMod - 1
  BY CurrentResponse, TypeFacts DEF TxLocals
<1>2. offset \in 0 .. Len(pdu)
  <2> HIDE DEF pdu
  <2> QED
    BY <1>1, Constants DEF EcuOut!Smaller, EcuOut!CFLimit
<1> HIDE DEF pdu, offset
<1>3. /\ TesterFrame(fd, EcuOut!EncodeSF(pdu))
      /\ Len(pdu) > EcuOut!SFLimit /\ (fd \/ Len(pdu) <= FFMaxLen) =>
              TesterFrame(fd, EcuOut!EncodeFF(pdu))
      /\ TesterFrame(fd, EcuOut!EncodeCF(SubSeq(pdu, tx.offset + 1, offset), tx.sn))
  BY <1>1, <1>2, ResponseFrames
<1>4. \A frame : TesterFrame(fd, frame) => frame \in Frames
  BY DEF TesterFrame, Sized
<1>5. EcuOut!EncodeSF(pdu).type = "SF"
  BY DEF EcuOut!EncodeSF, EcuOut!uds_tp_encode_sf, EcuOut!uds_tp_encode_sf_fd
<1>6. EcuOut!EncodeFF(pdu).type = "FF"
  BY DEF EcuOut!EncodeFF, EcuOut!uds_tp_encode_ff, EcuOut!uds_tp_encode_ff_fd
<1>7. EcuOut!EncodeCF(SubSeq(pdu, tx.offset + 1, offset), tx.sn).type = "CF"
  BY DEF EcuOut!EncodeCF, EcuOut!uds_tp_encode_cf, EcuOut!uds_tp_encode_cf_fd
<1> QED
  BY <1>3, <1>4, <1>5, <1>6, <1>7 DEF pdu, offset

\* What they do to the queues.
LEMMA ResponsePut ==
  ASSUME TypeInv, EcuOut!SendFirst \/ EcuOut!SendCF
  PROVE  requestFlow' = requestFlow
<1>1. tx.pc # "idle"
  BY DEF EcuOut!SendFirst, EcuOut!SendCF
<1>2. CASE toTester' = toTester
  BY <1>2, ToTesterSplit
<1>3. ASSUME NEW frame \in Frames, frame.type # "FC", toTester' = Append(toTester, frame)
      PROVE  requestFlow' = requestFlow
  BY <1>3, ToTesterSplit
<1>4. CASE EcuOut!SendFirst
  BY <1>1, <1>2, <1>3, <1>4, ResponseEncoded DEF EcuOut!SendFirst
<1>5. CASE EcuOut!SendCF
  BY <1>1, <1>3, <1>5, ResponseEncoded DEF EcuOut!SendCF
<1> QED
  BY <1>4, <1>5

\* A step that the requests do not take part in, but for flow control.
LEMMA RequestUnseen ==
  ASSUME TypeInv, ReqTp!IInv, UNCHANGED <<testerVars, rx, got, lostReq, bus, fd, requestData>>,
         requestFlow' = requestFlow \/ Taken(requestFlow, requestFlow'),
         faults' \in 0 .. MaxFaults
  PROVE  RequestStep
<1>1. UNCHANGED <<requestRest, requestData>>
  BY DEF testerVars, requestRest, pyTx, Sending, EcuIn!IdleTx
<1> QED
  BY <1>1, RequestFlowStep

\* The response, on the way of which frames of requests may be taken for flow
\* control.
LEMMA RequestServed ==
  ASSUME TypeInv, ReqTp!IInv, ecusim_dispatch \/ EcuSend
  PROVE  RequestStep
<1>1. faults \in 0 .. MaxFaults
  BY TypeFacts
<1>2. CASE ecusim_dispatch
  <2>1. UNCHANGED <<testerVars, rx, got, toEcu, toTester, lostReq, bus, fd, faults>>
    BY <1>2 DEF ecusim_dispatch, EcuOut!Call, EcuOut!rxSide, EcuOut!medium
  <2> QED
    BY <1>1, <2>1, ToEcuSplit, ToTesterSplit, RequestUnseen
<1>3. CASE EcuSend /\ (EcuOut!SendFirst \/ EcuOut!SendCF)
  <2>1. UNCHANGED <<testerVars, rx, got, toEcu, lostReq, bus, fd, faults>>
    BY <1>3 DEF EcuSend, EcuOut!SendFirst, EcuOut!SendCF, EcuOut!rxSide, EcuOut!medium
  <2> QED
    BY <1>1, <1>3, <2>1, ToEcuSplit, ResponsePut, RequestUnseen
<1>4. CASE EcuSend /\ EcuOut!RecvFlow
  <2>1. /\ tx.pc = "fc" /\ Taken(toEcu, toEcu')
        /\ UNCHANGED <<testerVars, rx, got, toTester, lostReq, bus, fd, faults>>
    BY <1>4 DEF EcuSend, EcuOut!RecvFlow, Taken, EcuOut!rxSide, EcuOut!medium
  <2>2. requestFlow' = requestFlow
    BY <2>1, ToTesterSplit
  <2>3. CASE Head(toEcu).type = "FC"
    BY <1>1, <2>1, <2>2, <2>3, ToEcuSplit, RequestUnseen
  <2>4. CASE Head(toEcu).type # "FC"
    <3>1. Taken(requestData, requestData')
      BY <2>1, <2>4, ToEcuSplit
    <3>2. rx' = EcuIn!IdleRx
      BY <2>1 DEF TypeInv, LocalsInv, Listening
    <3>3. UNCHANGED <<pyTx, asked, unsent, pyStale>>
      BY <2>1, RequestReaderFrame
    <3> QED
      BY <1>1, <2>1, <2>2, <3>1, <3>2, <3>3, RequestDropped
  <2> QED
    BY <2>3, <2>4
<1>5. CASE EcuSend /\ EcuOut!SendTimesOut
  <2>1. UNCHANGED <<testerVars, rx, got, toEcu, toTester, lostReq, bus, fd, faults>>
    BY <1>5 DEF EcuSend, EcuOut!SendTimesOut, EcuOut!rxSide, EcuOut!medium
  <2> QED
    BY <1>1, <2>1, ToEcuSplit, ToTesterSplit, RequestUnseen
<1> QED
  BY <1>2, <1>3, <1>4, <1>5 DEF EcuSend

\* Faults.
LEMMA RequestFaults ==
  ASSUME TypeInv, ReqTp!IInv, PyFails \/ EcuFails \/ LoseFrame
  PROVE  RequestStep
<1>1. CASE PyFails
  <2>1. /\ py.pc # "idle" /\ Raise /\ faults' \in 0 .. MaxFaults
        /\ UNCHANGED <<toEcu, toTester, rx, got, lostReq, bus, fd>>
    BY <1>1, FaultTyped DEF PyFails, ecuVars
  <2>2. requestData' = requestData /\ requestFlow' = requestFlow
    BY <2>1, ToEcuSplit, ToTesterSplit
  <2>3. CASE Sending
    BY <2>1, <2>2, <2>3, RequestGivenUp
  <2>4. CASE ~ Sending
    <3>1. pyTx' = pyTx /\ UNCHANGED <<asked, unsent, pyStale>>
      BY <2>1, <2>4 DEF Raise, pyTx, Sending, IdlePy, EcuIn!IdleTx
    <3> QED
      BY <2>1, <2>2, <3>1, RequestFlowStep DEF requestRest
  <2> QED
    BY <2>3, <2>4
<1>2. CASE (EcuIn!RecvFails \/ EcuIn!FlowFails) /\ UNCHANGED testerVars
  <2>1. /\ EcuIn!RecvReturns(<<>>) /\ (toEcu' = toEcu \/ Taken(toEcu, toEcu'))
        /\ toTester' = toTester
        /\ UNCHANGED <<lostReq, bus, fd>> /\ faults' \in 0 .. MaxFaults
    BY <1>2, FaultTyped DEF EcuIn!RecvFails, EcuIn!FlowFails, Taken
  <2>2. UNCHANGED <<pyTx, asked, unsent, pyStale>>
    BY <1>2, <2>1, RequestReaderFrame
  <2>3. rx' = EcuIn!IdleRx /\ got' = got
    BY <2>1, TypeFacts, ConcatEmptySeq DEF EcuIn!RecvReturns
  <2>4. /\ requestFlow' = requestFlow
        /\ requestData' = requestData \/ Taken(requestData, requestData')
    BY <2>1, ToEcuSplit, ToTesterSplit
  <2> QED
    BY <2>1, <2>2, <2>3, <2>4, RequestDropped
<1>3. CASE EcuOut!SendFails /\ UNCHANGED <<testerVars, lostReq>>
  <2>1. /\ UNCHANGED <<testerVars, rx, got, toEcu, toTester, lostReq, bus, fd>>
        /\ faults' \in 0 .. MaxFaults
    BY <1>3, FaultTyped DEF EcuOut!SendFails, EcuOut!rxSide
  <2> QED
    BY <2>1, ToEcuSplit, ToTesterSplit, RequestUnseen
<1>4. CASE EcuIn!LoseData /\ UNCHANGED testerVars
  <2> DEFINE frame == Head(toEcu)
  <2>1. /\ EcuIn!Fault /\ Taken(toEcu, toEcu') /\ frame.type \in Losable
        /\ lostReq' = IF frame.type = "FF" THEN lostReq \cup {EcuIn!MsgOf(frame.bytes)} ELSE lostReq
        /\ UNCHANGED <<testerVars, rx, got, toTester, bus, fd>>
        /\ faults' \in 0 .. MaxFaults
    BY <1>4, FaultTyped DEF EcuIn!LoseData, EcuIn!rxSide, Taken
  <2>2. requestFlow' = requestFlow
    BY <2>1, ToTesterSplit
  <2>3. CASE frame.type = "FC"
    BY <2>1, <2>2, <2>3, ToEcuSplit, RequestUnseen
  <2>4. CASE frame.type # "FC"
    <3>1. Taken(requestData, requestData') /\ Head(requestData) = frame
      BY <2>1, <2>4, ToEcuSplit
    <3>2. UNCHANGED <<pyTx, asked, unsent, pyStale>>
      BY <2>1 DEF testerVars, pyTx, Sending, EcuIn!IdleTx
    <3>3. ReqTp!LoseData
      BY <2>1, <2>2, <3>1, <3>2
         DEF ReqTp!LoseData, ReqTp!Fault, EcuIn!Fault, ReqTp!MsgOf, EcuIn!MsgOf, Taken,
             ReqTp!txSide, ReqTp!rxSide
    <3> QED
      BY <3>3, RequestNext DEF ReqTp!Next
  <2> QED
    BY <2>3, <2>4
<1>5. CASE EcuOut!LoseData /\ UNCHANGED <<testerVars, lostReq>>
  <2>1. /\ Taken(toTester, toTester') /\ UNCHANGED <<testerVars, rx, got, toEcu, lostReq, bus, fd>>
        /\ faults' \in 0 .. MaxFaults
    BY <1>5, FaultTyped DEF EcuOut!LoseData, EcuOut!txSide, EcuOut!rxSide, Taken
  <2>2. requestFlow' = requestFlow \/ Taken(requestFlow, requestFlow')
    BY <2>1, ToTesterSplit
  <2> QED
    BY <2>1, <2>2, ToEcuSplit, RequestUnseen
<1> QED
  BY <1>1, <1>2, <1>3, <1>4, <1>5 DEF EcuFails, LoseFrame

\* All steps together.
LEMMA RequestsStep ==
  ASSUME TypeInv, LengthInv, BlockInv, RequestsFit, ReqTp!IInv, [Next]_vars
  PROVE  RequestStep
<1>1. CASE Next
  <2>1. CASE EcuWaits
    <3>1. /\ UNCHANGED <<testerVars, rx, got, toEcu, toTester, lostReq, bus, fd>>
          /\ faults' \in 0 .. MaxFaults
      BY <2>1, TypeFacts DEF EcuWaits, EcuIn!RecvIdle, EcuIn!vars, EcuIn!rxSide, EcuIn!medium
    <3> QED
      BY <3>1, ToEcuSplit, ToTesterSplit, RequestUnseen
  <2>2. CASE Tester
    BY <2>2, RequestStarted, RequestFlowTaken, RequestContinued, RequestAwaited DEF Tester
  <2>3. CASE Ecu
    BY <2>3, RequestReceived, RequestServed DEF Ecu
  <2> QED
    BY <1>1, <2>1, <2>2, <2>3, RequestCalled, RequestFaults DEF Next
<1>2. CASE UNCHANGED vars
  <2>1. /\ UNCHANGED <<testerVars, rx, got, toEcu, toTester, lostReq, bus, fd>>
        /\ faults' \in 0 .. MaxFaults
    BY <1>2, TypeFacts DEF vars, ecuVars, medium
  <2> QED
    BY <2>1, ToEcuSplit, ToTesterSplit, RequestUnseen
<1> QED
  BY <1>1, <1>2

----------------------------------------------------------------------------
(* The lengths and the block size *)

\* A step adds one request or one response of a length that is allowed, if any.
LEMMA StepAdds ==
  ASSUME TypeInv, [Next]_vars
  PROVE  /\ bus' = bus /\ fd' = fd
         /\ asked' = asked \/ \E len \in Lengths[bus][fd] :
              asked' = Append(asked, EcuIn!Pdu(Len(asked) + 1, len))
         /\ sent' = sent \/ \E len \in Lengths[bus][fd] :
              sent' = Append(sent, EcuIn!Pdu(Len(sent) + 1, len))
<1> DEFINE Kept == bus' = bus /\ fd' = fd /\ asked' = asked /\ sent' = sent
<1>1. CASE \E len \in Lengths[bus][fd] : _request(len)
  BY <1>1 DEF _request, ecuVars, medium
<1>2. CASE Tester
  <2>1. Kept
    BY <1>2 DEF Tester, SendFirst, _check_fc_continue, SendCF, RecvFirst, _recv_multi, _recv_frame,
                Deadline, Raise, Goto, Return, ecuVars, medium
  <2> QED
    BY <2>1
<1>3. CASE EcuRecv
  <2>1. Kept
    BY <1>3 DEF EcuRecv, EcuIn!RecvFirst, EcuIn!RecvCF, EcuIn!RecvTimesOut, EcuIn!txSide,
                EcuIn!medium, testerVars
  <2> QED
    BY <2>1
<1>4. CASE ecusim_dispatch
  BY <1>4 DEF ecusim_dispatch, EcuOut!Call, EcuOut!Pdu, EcuIn!Pdu, EcuOut!medium, testerVars
<1>5. CASE EcuSend
  <2>1. Kept
    BY <1>5 DEF EcuSend, EcuOut!SendFirst, EcuOut!RecvFlow, EcuOut!WaitForFlow, EcuOut!KeepWaiting,
                EcuOut!StartBlock, EcuOut!SendCF, EcuOut!SendTimesOut, EcuOut!SendReturnsOk,
                EcuOut!SendReturnsError, EcuOut!medium, testerVars
  <2> QED
    BY <2>1
<1>6. CASE PyFails \/ EcuFails \/ LoseFrame
  <2>1. Kept
    BY <1>6 DEF PyFails, EcuFails, LoseFrame, Raise, EcuIn!Fault, EcuOut!Fault, EcuIn!RecvFails,
                EcuIn!FlowFails, EcuOut!SendFails, EcuOut!SendReturnsError, EcuIn!LoseData,
                EcuOut!LoseData, EcuIn!txSide, EcuOut!txSide, ecuVars, testerVars
  <2> QED
    BY <2>1
<1>7. CASE EcuWaits \/ UNCHANGED vars
  <2>1. Kept
    BY <1>7 DEF EcuWaits, EcuIn!RecvIdle, EcuIn!vars, EcuIn!txSide, EcuIn!medium, vars, ecuVars,
                testerVars, medium
  <2> QED
    BY <2>1
<1> QED
  BY <1>1, <1>2, <1>3, <1>4, <1>5, <1>6, <1>7 DEF Next, Ecu

\* The PDUs keep the lengths their callers gave them.
LEMMA LengthStep ==
  ASSUME TypeInv, LengthInv, [Next]_vars
  PROVE  LengthInv'
<1>1. /\ bus' = bus /\ fd' = fd
      /\ asked' = asked \/ \E len \in Lengths[bus][fd] :
              asked' = Append(asked, EcuIn!Pdu(Len(asked) + 1, len))
      /\ sent' = sent \/ \E len \in Lengths[bus][fd] :
              sent' = Append(sent, EcuIn!Pdu(Len(sent) + 1, len))
      /\ asked \in Seq(Seq(Octet)) /\ sent \in Seq(Seq(Octet))
  BY StepAdds DEF TypeInv, HistoryInv
<1>2. bus \in Buses /\ fd \in Modes
  BY DEF TypeInv, HistoryInv
<1>3. ASSUME NEW pdus \in Seq(Seq(Octet)), NEW len \in Lengths[bus][fd], NEW more,
             more = Append(pdus, EcuIn!Pdu(Len(pdus) + 1, len)),
             \A m \in 1 .. Len(pdus) : Len(pdus[m]) \in Lengths[bus][fd]
      PROVE  \A m \in 1 .. Len(more) : Len(more[m]) \in Lengths[bus][fd]
  <2> DEFINE pdu == EcuIn!Pdu(Len(pdus) + 1, len)
  <2>1. len \in Nat
    BY <1>2, Constants
  <2>2. pdu \in Seq(Octet) /\ Len(pdu) = len
    <3>1. pdu \in [1 .. len -> Octet]
      BY <2>1 DEF EcuIn!Pdu, Octet
    <3> QED
      BY <2>1, <3>1
  <2> HIDE DEF pdu
  <2>3. more = Append(pdus, pdu)
    BY <1>3 DEF pdu
  <2> QED
    BY <1>3, <2>2, <2>3, AppendFacts
<1> QED
  BY <1>1, <1>3 DEF LengthInv

\* A queue of frames that ask for no blocks.
Blockless(queue) == \A p \in 1 .. Len(queue) : queue[p].type = "FC" => queue[p].bs = 0

\* It stays one when a frame is taken, or one of the kind is put into it.
LEMMA BlocklessStep ==
  ASSUME NEW queue \in Seq(Frames), Blockless(queue), NEW next,
         \/ next = queue
         \/ Taken(queue, next)
         \/ \E frame \in Frames : /\ frame.type = "FC" => frame.bs = 0
                                  /\ next = Append(queue, frame)
  PROVE  Blockless(next)
<1>1. CASE next = queue
  BY <1>1
<1>2. CASE Taken(queue, next)
  BY <1>2, TailFacts DEF Taken, Blockless
<1>3. ASSUME NEW frame \in Frames, frame.type = "FC" => frame.bs = 0, next = Append(queue, frame)
      PROVE  Blockless(next)
  BY <1>3, AppendFacts DEF Blockless
<1> QED
  BY <1>1, <1>2, <1>3

\* What uds_tp_recv and uds_tp_send put into the queue to the tester.
LEMMA EcuPuts ==
  ASSUME NoBlocks, TypeInv, EcuRecv \/ EcuSend
  PROVE  \/ toTester' = toTester
         \/ \E frame \in Frames : /\ frame.type = "FC" => frame.bs = 0
                                  /\ toTester' = Append(toTester, frame)
<1>1. ASSUME NEW bytes \in Seq(Octet), Len(bytes) > 0, EcuIn!SendFC(bytes)
      PROVE  \E frame \in Frames : /\ frame.type = "FC" => frame.bs = 0
                                   /\ toTester' = Append(toTester, frame)
  <2> DEFINE f == EcuIn!uds_tp_encode_fc("CTS", BlockSize, EcuIn!MsgOf(bytes))
  <2>1. f \in Frames
    <3>1. BlockSize \in Nat
      BY Constants
    <3> QED
      BY <1>1, <3>1, FlowFrames DEF EcuFrame, Sized
  <2>2. f.bs = 0 /\ toTester' = Append(toTester, f)
    BY <1>1 DEF NoBlocks, EcuIn!SendFC, EcuIn!uds_tp_encode_fc
  <2> HIDE DEF f
  <2> QED
    BY <2>1, <2>2
<1>2. CASE EcuRecv /\ EcuIn!RecvFirst
  <2>1. \/ toTester' = toTester
        \/ Head(toEcu).type = "FF" /\ EcuIn!SendFC(Head(toEcu).bytes)
    BY <1>2 DEF EcuIn!RecvFirst
  <2>2. Taken(toEcu, toEcu')
    BY <1>2 DEF EcuIn!RecvFirst, Taken
  <2>3. Head(toEcu).type = "FF" => Head(toEcu).bytes \in Seq(Octet) /\ Len(Head(toEcu).bytes) > 0
    BY <2>2, EcuHead
  <2> QED
    BY <1>1, <2>1, <2>3
<1>3. CASE EcuRecv /\ EcuIn!RecvCF
  <2> DEFINE buf == rx.buf \o EcuIn!DecodeCF(Head(toEcu),
                                EcuIn!Smaller(rx.total_len - Len(rx.buf), EcuIn!CFLimit))
  <2>1. rx.pc = "cf" /\ Taken(toEcu, toEcu')
    BY <1>3 DEF EcuIn!RecvCF, Taken
  <2>2. \/ toTester' = toTester
        \/ EcuIn!Accepts(Head(toEcu)) /\ EcuIn!SendFC(buf)
    BY <1>3 DEF EcuIn!RecvCF, EcuIn!RejectFrame
  <2>3. Head(toEcu).type = "CF" => buf \in Seq(Octet) /\ Len(buf) > 0
    BY <2>1, EcuCopies
  <2> HIDE DEF buf
  <2> QED
    BY <1>1, <2>2, <2>3 DEF EcuIn!Accepts
<1>4. CASE EcuRecv /\ EcuIn!RecvTimesOut
  BY <1>4 DEF EcuIn!RecvTimesOut
<1>5. CASE EcuSend /\ (EcuOut!SendFirst \/ EcuOut!SendCF)
  <2>1. tx.pc # "idle"
    BY <1>5 DEF EcuOut!SendFirst, EcuOut!SendCF
  <2>2. \/ toTester' = toTester
        \/ \E frame \in Frames : frame.type # "FC" /\ toTester' = Append(toTester, frame)
    BY <1>5, <2>1, ResponseEncoded DEF EcuOut!SendFirst, EcuOut!SendCF
  <2> QED
    BY <2>2
<1>6. CASE EcuSend /\ (EcuOut!RecvFlow \/ EcuOut!SendTimesOut)
  BY <1>6 DEF EcuOut!RecvFlow, EcuOut!SendTimesOut
<1> QED
  BY <1>2, <1>3, <1>4, <1>5, <1>6 DEF EcuRecv, EcuSend

\* The tester never learns of blocks.
LEMMA BlockStep ==
  ASSUME NoBlocks, TypeInv, BlockInv, [Next]_vars
  PROVE  BlockInv'
<1>1. /\ py \in PyLocals /\ py.block_size = 0 /\ toTester \in Seq(Frames) /\ Blockless(toTester)
  BY TypeFacts DEF BlockInv, Blockless
<1>2. ASSUME py' = py \/ py'.block_size = 0,
             \/ toTester' = toTester
             \/ Taken(toTester, toTester')
             \/ \E frame \in Frames : /\ frame.type = "FC" => frame.bs = 0
                                      /\ toTester' = Append(toTester, frame)
      PROVE  BlockInv'
  BY <1>1, <1>2, BlocklessStep DEF BlockInv, Blockless
<1>3. Raise \/ (\E pdu : Return(pdu)) => py'.block_size = 0
  BY DEF Raise, Return, IdlePy
<1>4. CASE \E len \in Lengths[bus][fd] : _request(len)
  BY <1>2, <1>4 DEF _request, IdlePy
<1>5. CASE SendFirst
  BY <1>1, <1>2, <1>5 DEF SendFirst, Goto, IdlePy, PyLocals
<1>6. CASE _check_fc_continue
  <2>1. Taken(toTester, toTester') /\ 1 \in 1 .. Len(toTester) /\ Head(toTester) = toTester[1]
    BY <1>1, <1>6, TailFacts DEF _check_fc_continue, Taken
  <2>2. Head(toTester).type = "FC" => Head(toTester).bs = 0
    BY <1>1, <2>1 DEF Blockless
  <2> QED
    BY <1>1, <1>2, <1>3, <1>6, <2>1, <2>2 DEF _check_fc_continue, PyLocals
<1>7. CASE SendCF
  <2>1. toTester' = toTester /\ py'.block_size = 0
    BY <1>1, <1>7 DEF SendCF, Goto, PyLocals
  <2> QED
    BY <1>2, <2>1
<1>8. CASE RecvFirst
  <2>1. Taken(toTester, toTester') /\ py'.block_size = 0
    BY <1>3, <1>8 DEF RecvFirst, Taken, Goto, IdlePy
  <2> QED
    BY <1>2, <2>1
<1>9. CASE _recv_multi
  <2>1. ASSUME NEW buf, Goto([py EXCEPT !.buf = buf, !.expected_sn = NextSn(@)])
        PROVE  py'.block_size = 0
    BY <1>1, <2>1 DEF Goto, PyLocals
  <2>2. Taken(toTester, toTester') /\ py'.block_size = 0
    BY <1>3, <1>9, <2>1 DEF _recv_multi, Taken
  <2> QED
    BY <1>2, <2>2
<1>10. CASE _recv_frame \/ PyFails
  BY <1>2, <1>3, <1>10 DEF _recv_frame, Deadline, PyFails
<1>11. CASE EcuRecv \/ EcuSend
  <2>1. py' = py
    BY <1>11 DEF EcuRecv, EcuSend, testerVars
  <2> QED
    BY <1>2, <1>11, <2>1, EcuPuts
<1>12. CASE ecusim_dispatch \/ EcuFails \/ EcuWaits \/ UNCHANGED vars
  <2>1. py' = py /\ toTester' = toTester
    BY <1>12 DEF ecusim_dispatch, EcuOut!Call, EcuFails, EcuIn!RecvFails, EcuIn!FlowFails,
                 EcuOut!SendFails, EcuWaits, EcuIn!RecvIdle, EcuIn!vars, vars, testerVars
  <2> QED
    BY <1>2, <2>1
<1>13. CASE LoseFrame
  <2>1. py' = py /\ (toTester' = toTester \/ Taken(toTester, toTester'))
    BY <1>13 DEF LoseFrame, EcuIn!LoseData, EcuOut!LoseData, Taken, testerVars
  <2> QED
    BY <1>2, <2>1
<1> QED
  BY <1>4, <1>5, <1>6, <1>7, <1>8, <1>9, <1>10, <1>11, <1>12, <1>13 DEF Next, Tester, Ecu

----------------------------------------------------------------------------
(* The requests are those of a channel *)

\* Nothing is under way at first.
LEMMA RequestsInit ==
  ASSUME Init
  PROVE  /\ ReqTp!IInv /\ Requests!Init /\ LengthInv
         /\ NoBlocks => BlockInv
<1>1. /\ py = IdlePy /\ rx = EcuIn!IdleRx /\ tx = EcuIn!IdleTx
      /\ toEcu = <<>> /\ toTester = <<>>
      /\ asked = <<>> /\ sent = <<>> /\ got = <<>> /\ unsent = {} /\ pyStale = {} /\ lostReq = {}
      /\ faults = 0 /\ bus \in Buses /\ fd \in Modes
  BY DEF Init, EcuIn!Init
<1>2. requestData = <<>> /\ requestFlow = <<>>
  BY <1>1, SplitEmpty
<1>3. pyTx = ReqTp!IdleTx
  BY <1>1 DEF pyTx, Sending, IdlePy, EcuIn!IdleTx, ReqTp!IdleTx
<1>4. ReqTp!Init
  BY <1>1, <1>2, <1>3 DEF ReqTp!Init, EcuIn!IdleRx, ReqTp!IdleRx
<1>5. ReqTp!IInv
  BY <1>4, RequestAssumption, ReqTp!InitInv
<1>6. ReqTp!Channel!Init
  <2>1. got = <<>> /\ Len(got) = 0 /\ asked = <<>> /\ unsent = {}
    BY <1>1
  <2>2. ReqTp!delivered = <<>>
    BY <2>1, RequestAssumption, ReqTp!RegularStep DEF ReqTp!delivered, ReqTp!Regular
  <2> QED
    BY <2>1, <2>2 DEF ReqTp!Channel!Init, ReqTp!LastOf
<1>7. requests = <<>> /\ EcuIn!LastOf(requests) = 0
  <2>1. ReqTp!delivered = requests
    BY DEF ReqTp!delivered, requests, ReqTp!Regular, EcuIn!Regular, ReqTp!RegularUpTo,
           EcuIn!RegularUpTo, ReqTp!Offending, EcuIn!Offending
  <2> QED
    BY <1>6, <2>1 DEF ReqTp!Channel!Init, EcuIn!LastOf
<1>8. LengthInv
  BY <1>1 DEF LengthInv
<1>9. BlockInv
  BY <1>1 DEF BlockInv, IdlePy
<1> QED
  BY <1>1, <1>5, <1>7, <1>8, <1>9 DEF Requests!Init

\* The ECU dispatches only requests that the tester sent, whole, in order, at
\* most once, and none whose send() raised: what _send_multi_classic,
\* _send_multi_fd and uds_tp_recv leave in the queues never adds up to one.
THEOREM RequestsRefined ==
  ASSUME NoBlocks, RequestsFit
  PROVE  Spec => ImplementsRequests
<1> DEFINE Inv == TypeInv /\ LengthInv /\ BlockInv /\ ReqTp!IInv
<1>1. Init => Inv /\ Requests!Init
  BY InitTyped, RequestsInit
<1>2. Inv /\ [Next]_vars => Inv' /\ [Requests!Next]_(Requests!vars)
  <2> SUFFICES ASSUME Inv, [Next]_vars PROVE Inv' /\ [Requests!Next]_(Requests!vars)
    OBVIOUS
  <2>1. TypeInv' /\ LengthInv' /\ BlockInv'
    BY NextTyped, LengthStep, BlockStep
  <2>2. RequestStep
    BY RequestsStep
  <2>3. [Requests!Next]_(Requests!vars)
    BY <2>2, RequestChannelStep
  <2> QED
    BY <2>1, <2>2, <2>3 DEF RequestStep
<1> HIDE DEF Inv
<1> QED
  BY <1>1, <1>2, PTL DEF Spec, ImplementsRequests, Requests!Spec

----------------------------------------------------------------------------
(* The responses *)

\* recv() accepts every length the ECU sends.
Bounded == MaxLength \in Nat /\ BoundedBy(MaxLength)

\* IsoTp's assumption holds of the responses, when there is a longest one.
LEMMA ResponseAssumption ==
  ASSUME Bounded
  PROVE  RespTp!TransportAssumption
<1>1. [m \in BOOLEAN |-> MaxLength] \in [BOOLEAN -> Nat]
  BY DEF Bounded
<1> QED
  BY <1>1, SidesAssumption DEF RespTp!TransportAssumption, EcuIn!TransportAssumption

\* A step of IsoTp is a step of the responses.
LEMMA ResponseNext ==
  ASSUME Bounded, RespTp!IInv, RespTp!Next
  PROVE  ResponseStep
<1>1. [RespTp!Next]_(RespTp!vars)
  OBVIOUS
<1>2. RespTp!IInv'
  BY <1>1, ResponseAssumption, RespTp!NextInv
<1>3. RespTp!RecordsKept
  BY <1>1, ResponseAssumption, RespTp!StepKeepsRecords
<1>4. RespTp!HistoryStep
  BY <1>1, ResponseAssumption, RespTp!StepKinds
<1> QED
  BY <1>2, <1>3, <1>4 DEF ResponseStep

\* Such as one of either call.
LEMMA ResponseMoved ==
  ASSUME Bounded, RespTp!IInv, fd \in BOOLEAN, RespTp!Send \/ RespTp!Recv
  PROVE  ResponseStep
BY ResponseNext DEF RespTp!Next, RespTp!uds_tp_send, RespTp!uds_tp_send_fd,
                     RespTp!uds_tp_recv, RespTp!uds_tp_recv_fd

\* A step is then one of the channel of responses.
LEMMA ResponseChannelStep ==
  ASSUME Bounded, RespTp!IInv, ResponseStep
  PROVE  [Responses!Next]_(Responses!vars)
<1>1. [RespTp!Channel!Next]_(RespTp!Channel!vars)
  BY ResponseAssumption, RespTp!ChannelStep DEF ResponseStep
<1>2. RespTp!delivered = responses
  BY DEF RespTp!delivered, responses, RespTp!Regular, EcuIn!Regular, RespTp!RegularUpTo,
         EcuIn!RegularUpTo, RespTp!Offending, EcuIn!Offending
<1>3. RespTp!LastOf(RespTp!delivered) = EcuIn!LastOf(responses)
  BY <1>2 DEF RespTp!LastOf, EcuIn!LastOf, RespTp!MsgOf, EcuIn!MsgOf
<1>4. RespTp!delivered' = responses'
  BY DEF RespTp!delivered, responses, RespTp!Regular, EcuIn!Regular, RespTp!RegularUpTo,
         EcuIn!RegularUpTo, RespTp!Offending, EcuIn!Offending
<1>5. RespTp!LastOf(RespTp!delivered)' = EcuIn!LastOf(responses)'
  BY <1>4 DEF RespTp!LastOf, EcuIn!LastOf, RespTp!MsgOf, EcuIn!MsgOf
<1>6. RespTp!AllPdus = EcuIn!AllPdus
  BY DEF RespTp!AllPdus, EcuIn!AllPdus, RespTp!Pdu, EcuIn!Pdu
<1> QED
  BY <1>1, <1>2, <1>3, <1>4, <1>5, <1>6
     DEF RespTp!Channel!Next, RespTp!Channel!vars, RespTp!Channel!Submit, RespTp!Channel!Fail,
         RespTp!Channel!Deliver, Responses!Next, Responses!vars, Responses!Submit,
         Responses!Fail, Responses!Deliver

\* Everything of IsoTp but its two queues and the counter of faults.
responseRest == <<tx, sent, failed, stale, pyRx, answers, lostResp, bus, fd>>

\* Flow control may disappear: the ECU is not waiting for it.
LEMMA ResponseFlowStep ==
  ASSUME Bounded, RespTp!IInv, UNCHANGED <<responseRest, responseData>>,
         responseFlow' = responseFlow \/ Taken(responseFlow, responseFlow'),
         faults' \in 0 .. MaxFaults
  PROVE  ResponseStep
<1>1. /\ UNCHANGED <<sent, failed, stale, RespTp!rxSide, responseData, RespTp!medium>>
      /\ tx' = tx /\ lostResp' = lostResp /\ answers' = answers
  BY DEF responseRest, RespTp!rxSide, RespTp!medium
<1>2. RespTp!TypeInv
  BY DEF RespTp!IInv
<1>3. RespTp!NoNewFlow /\ responseFlow' \in Seq(RespTp!FlowFrames)
  BY <1>2, ResponseAssumption, RespTp!FlowTaken DEF Taken
<1>4. tx' \in RespTp!TxLocals
  BY <1>1, <1>2 DEF RespTp!TypeInv
<1>5. RespTp!IInv'
  BY <1>1, <1>3, <1>4, ResponseAssumption, RespTp!FlowQueueStep
<1> QED
  BY <1>1, <1>5 DEF ResponseStep, RespTp!RecordsKept, RespTp!HistoryStep

\* uds_tp_send gives up.
LEMMA ResponseGivenUp ==
  ASSUME Bounded, RespTp!IInv, tx.pc # "idle", EcuOut!SendReturnsError,
         UNCHANGED <<pyRx, answers, lostResp, bus, fd, responseData>>,
         responseFlow' = responseFlow \/ Taken(responseFlow, responseFlow'),
         faults' \in 0 .. MaxFaults
  PROVE  ResponseStep
<1>1. /\ UNCHANGED <<sent, stale, RespTp!rxSide, responseData, RespTp!medium>>
      /\ lostResp' = lostResp /\ answers' = answers /\ stale' = stale /\ sent' = sent
      /\ tx' = RespTp!IdleTx /\ failed' = failed \cup {Len(sent)}
  BY DEF EcuOut!SendReturnsError, EcuOut!IdleTx, RespTp!IdleTx, RespTp!rxSide, RespTp!medium
<1>2. RespTp!IInv'
  BY <1>1, ResponseAssumption, RespTp!SenderGivesUp DEF Taken
<1> QED
  BY <1>1, <1>2 DEF ResponseStep, RespTp!RecordsKept, RespTp!HistoryStep

\* recv() gives up, with the next frame or without.
LEMMA ResponseDropped ==
  ASSUME Bounded, RespTp!IInv, pyRx' = EcuIn!IdleRx, answers' = answers,
         UNCHANGED <<tx, sent, failed, stale, lostResp, bus, fd, responseFlow>>,
         responseData' = responseData \/ Taken(responseData, responseData'),
         faults' \in 0 .. MaxFaults
  PROVE  ResponseStep
<1>1. /\ UNCHANGED <<RespTp!txSide, responseFlow, RespTp!medium>> /\ pyRx' = RespTp!IdleRx
      /\ lostResp' = lostResp /\ stale' = stale /\ sent' = sent /\ failed' = failed
  BY DEF RespTp!txSide, RespTp!medium, EcuIn!IdleRx, RespTp!IdleRx
<1>2. RespTp!IInv'
  BY <1>1, ResponseAssumption, RespTp!HeadDropped, RespTp!ReceiverGivesUp DEF Taken
<1> QED
  BY <1>1, <1>2 DEF ResponseStep, RespTp!RecordsKept, RespTp!HistoryStep

\* A step that the responses do not take part in, but for flow control.
LEMMA ResponseUnseen ==
  ASSUME Bounded, RespTp!IInv,
         UNCHANGED <<tx, sent, failed, stale, pyRx, answers, lostResp, bus, fd, responseData>>,
         responseFlow' = responseFlow \/ Taken(responseFlow, responseFlow'),
         faults' \in 0 .. MaxFaults
  PROVE  ResponseStep
BY ResponseFlowStep DEF responseRest

\* The ECU's half is IsoTp's.
LEMMA ResponseEncoders ==
  /\ \A f : RespTp!EncodeSF(f) = EcuOut!EncodeSF(f) /\ RespTp!EncodeFF(f) = EcuOut!EncodeFF(f)
  /\ \A f, n : RespTp!EncodeCF(f, n) = EcuOut!EncodeCF(f, n)
  /\ \A a, b : RespTp!Smaller(a, b) = EcuOut!Smaller(a, b)
  /\ \A n, k : RespTp!AfterCF(n, k) = EcuOut!AfterCF(n, k)
  /\ \A f : RespTp!StartBlock(f) <=> EcuOut!StartBlock(f)
  /\ RespTp!SendReturnsOk <=> EcuOut!SendReturnsOk
  /\ RespTp!SendReturnsError <=> EcuOut!SendReturnsError
  /\ RespTp!CFLimit = EcuOut!CFLimit /\ RespTp!SFLimit = EcuOut!SFLimit
  /\ RespTp!data = EcuOut!data /\ RespTp!ff_embed = EcuOut!ff_embed
  /\ RespTp!IdleTx = EcuOut!IdleTx
  /\ \A m, len : RespTp!Pdu(m, len) = EcuOut!Pdu(m, len)
BY DEF RespTp!EncodeSF, RespTp!EncodeFF, RespTp!EncodeCF, RespTp!Smaller, RespTp!AfterCF,
       RespTp!StartBlock, RespTp!SendReturnsOk, RespTp!SendReturnsError, RespTp!CFLimit,
       RespTp!SFLimit, RespTp!data, RespTp!ff_embed, RespTp!IdleTx, RespTp!Pdu,
       RespTp!uds_tp_encode_sf, RespTp!uds_tp_encode_sf_fd, RespTp!uds_tp_encode_ff,
       RespTp!uds_tp_encode_ff_fd, RespTp!uds_tp_encode_cf, RespTp!uds_tp_encode_cf_fd,
       RespTp!Padded, RespTp!Pad,
       EcuOut!EncodeSF, EcuOut!EncodeFF, EcuOut!EncodeCF, EcuOut!Smaller, EcuOut!AfterCF,
       EcuOut!StartBlock, EcuOut!SendReturnsOk, EcuOut!SendReturnsError, EcuOut!CFLimit,
       EcuOut!SFLimit, EcuOut!data, EcuOut!ff_embed, EcuOut!IdleTx, EcuOut!Pdu,
       EcuOut!uds_tp_encode_sf, EcuOut!uds_tp_encode_sf_fd, EcuOut!uds_tp_encode_ff,
       EcuOut!uds_tp_encode_ff_fd, EcuOut!uds_tp_encode_cf, EcuOut!uds_tp_encode_cf_fd,
       EcuOut!Padded, EcuOut!Pad

\* What the ECU leaves alone.
LEMMA ResponseReaderFrame ==
  ASSUME UNCHANGED testerVars
  PROVE  UNCHANGED <<pyRx, answers, RespTp!rxSide>>
BY DEF testerVars, pyRx, EcuIn!IdleRx, RespTp!rxSide

\* The call of uds_tp_send, and its steps.
LEMMA ResponseServed ==
  ASSUME Bounded, TypeInv, RespTp!IInv, ecusim_dispatch \/ EcuSend
  PROVE  ResponseStep
<1>1. faults \in 0 .. MaxFaults /\ fd \in BOOLEAN
  BY TypeFacts
<1>2. UNCHANGED testerVars
  BY DEF ecusim_dispatch, EcuSend
<1>3. UNCHANGED <<pyRx, answers, RespTp!rxSide>>
  BY <1>2, ResponseReaderFrame
<1>4. CASE ecusim_dispatch
  <2>1. PICK len \in Lengths[bus][fd] : EcuOut!Call(len)
    BY <1>4 DEF ecusim_dispatch
  <2>2. toEcu' = toEcu /\ toTester' = toTester
    BY <2>1 DEF EcuOut!Call
  <2>3. responseData' = responseData /\ responseFlow' = responseFlow
    BY <2>2, ToEcuSplit, ToTesterSplit
  <2>4. RespTp!Call(len)
    BY <1>3, <2>1, <2>3, ResponseEncoders
       DEF EcuOut!Call, RespTp!Call, EcuOut!medium, RespTp!medium
  <2> QED
    BY <2>4, ResponseNext DEF RespTp!Next
<1>5. CASE EcuOut!SendFirst
  <2>1. tx.pc = "first" /\ toEcu' = toEcu /\ UNCHANGED <<faults, lostResp, bus, fd>>
    BY <1>5 DEF EcuOut!SendFirst, EcuOut!medium
  <2>2. responseFlow' = responseFlow
    BY <2>1, ToEcuSplit
  <2>3. CASE /\ ~ fd /\ Len(EcuOut!data) > FFMaxLen
             /\ EcuOut!SendReturnsError
             /\ UNCHANGED toTester
    <3>1. responseData' = responseData
      BY <2>3, ToTesterSplit
    <3> QED
      BY <1>1, <1>3, <2>1, <2>2, <2>3, <3>1, ResponseGivenUp
  <2>4. CASE /\ Len(EcuOut!data) <= EcuOut!SFLimit
             /\ toTester' = Append(toTester, EcuOut!EncodeSF(EcuOut!data))
             /\ EcuOut!SendReturnsOk
    <3>1. responseData' = Append(responseData, EcuOut!EncodeSF(EcuOut!data))
      BY <2>1, <2>4, ResponseEncoded, ToTesterSplit
    <3>2. RespTp!SendFirst
      BY <1>3, <2>1, <2>2, <2>4, <3>1, ResponseEncoders DEF RespTp!SendFirst, RespTp!medium
    <3> QED
      BY <1>1, <3>2, ResponseMoved DEF RespTp!Send
  <2>5. CASE /\ Len(EcuOut!data) > EcuOut!SFLimit /\ (fd \/ Len(EcuOut!data) <= FFMaxLen)
             /\ toTester' = Append(toTester, EcuOut!EncodeFF(EcuOut!data))
             /\ tx' = [tx EXCEPT !.pc = "fc", !.offset = EcuOut!ff_embed, !.sn = 1]
             /\ UNCHANGED <<sent, failed, stale>>
    <3>1. responseData' = Append(responseData, EcuOut!EncodeFF(EcuOut!data))
      BY <2>1, <2>5, ResponseEncoded, ToTesterSplit
    <3>2. RespTp!SendFirst
      BY <1>3, <2>1, <2>2, <2>5, <3>1, ResponseEncoders DEF RespTp!SendFirst, RespTp!medium
    <3> QED
      BY <1>1, <3>2, ResponseMoved DEF RespTp!Send
  <2> QED
    BY <1>5, <2>3, <2>4, <2>5 DEF EcuOut!SendFirst
<1>6. CASE EcuOut!SendCF
  <2> DEFINE chunk == EcuOut!Smaller(Len(EcuOut!data) - tx.offset, EcuOut!CFLimit)
             piece == EcuOut!EncodeCF(SubSeq(EcuOut!data, tx.offset + 1, tx.offset + chunk), tx.sn)
  <2>1. /\ tx.pc = "cf" /\ toEcu' = toEcu /\ UNCHANGED <<faults, lostResp, bus, fd>>
        /\ toTester' = Append(toTester, piece)
    BY <1>6 DEF EcuOut!SendCF, EcuOut!medium
  <2>2. responseFlow' = responseFlow
    BY <2>1, ToEcuSplit
  <2>3. piece \in Frames /\ piece.type = "CF"
    BY <2>1, ResponseEncoded
  <2> HIDE DEF piece
  <2>4. responseData' = Append(responseData, piece)
    BY <2>1, <2>3, ToTesterSplit
  <2>5. RespTp!SendCF
    BY <1>3, <1>6, <2>1, <2>2, <2>4, ResponseEncoders
       DEF EcuOut!SendCF, RespTp!SendCF, RespTp!medium, piece
  <2> QED
    BY <1>1, <2>5, ResponseMoved DEF RespTp!Send
<1>7. CASE EcuOut!RecvFlow
  <2> DEFINE frame == Head(toEcu)
  <2>1. /\ tx.pc = "fc" /\ Taken(toEcu, toEcu') /\ EcuOut!WaitForFlow(frame)
        /\ UNCHANGED <<toTester, faults, lostResp, bus, fd>>
    BY <1>7 DEF EcuOut!RecvFlow, EcuOut!medium, Taken
  <2>2. responseData' = responseData
    BY <2>1, ToTesterSplit
  <2>3. CASE frame.type = "FC"
    <3>1. Taken(responseFlow, responseFlow') /\ Head(responseFlow) = frame /\ frame.fs = "CTS"
      BY <2>1, <2>3, ToEcuSplit
    <3>2. EcuOut!StartBlock(frame)
      BY <2>1, <2>3, <3>1 DEF EcuOut!WaitForFlow
    <3>3. RespTp!RecvFlow
      BY <1>3, <2>1, <2>2, <2>3, <3>1, <3>2, ResponseEncoders
         DEF RespTp!RecvFlow, RespTp!WaitForFlow, RespTp!medium, Taken
    <3> QED
      BY <1>1, <3>3, ResponseMoved DEF RespTp!Send
  <2>4. CASE frame.type # "FC"
    <3>1. responseFlow' = responseFlow
      BY <2>1, <2>4, ToEcuSplit
    <3>2. EcuOut!SendReturnsError
      BY <2>1, <2>4 DEF EcuOut!WaitForFlow
    <3> QED
      BY <1>1, <1>3, <2>1, <2>2, <3>1, <3>2, ResponseGivenUp
  <2> QED
    BY <2>3, <2>4
<1>8. CASE EcuOut!SendTimesOut
  <2>1. /\ tx.pc = "fc" /\ EcuOut!SendReturnsError
        /\ UNCHANGED <<toEcu, toTester, faults, lostResp, bus, fd>>
    BY <1>8 DEF EcuOut!SendTimesOut, EcuOut!medium
  <2>2. responseData' = responseData /\ responseFlow' = responseFlow
    BY <2>1, ToEcuSplit, ToTesterSplit
  <2> QED
    BY <1>1, <1>3, <2>1, <2>2, ResponseGivenUp
<1> QED
  BY <1>4, <1>5, <1>6, <1>7, <1>8 DEF EcuSend

\* The ECU's uds_tp_recv takes and sends frames of requests only, and flow
\* control for responses that nobody waits for.
LEMMA ResponseListens ==
  ASSUME Bounded, TypeInv, RespTp!IInv, EcuRecv
  PROVE  ResponseStep
<1>1. /\ UNCHANGED <<testerVars, lostResp, tx, sent, failed, stale, bus, fd, faults>>
      /\ toEcu' = toEcu \/ Taken(toEcu, toEcu')
  BY DEF EcuRecv, EcuIn!RecvFirst, EcuIn!RecvCF, EcuIn!RecvTimesOut, EcuIn!txSide, EcuIn!medium,
         Taken
<1>2. UNCHANGED <<pyRx, answers>> /\ faults' \in 0 .. MaxFaults
  BY <1>1, ResponseReaderFrame, TypeFacts
<1>3. responseFlow' = responseFlow \/ Taken(responseFlow, responseFlow')
  BY <1>1, ToEcuSplit
<1>4. responseData' = responseData
  <2>1. CASE EcuIn!RecvFirst
    <3>1. \/ toTester' = toTester
          \/ Head(toEcu).type = "FF" /\ EcuIn!SendFC(Head(toEcu).bytes)
      BY <2>1 DEF EcuIn!RecvFirst
    <3>2. Taken(toEcu, toEcu')
      BY <2>1 DEF EcuIn!RecvFirst, Taken
    <3>3. Head(toEcu).type = "FF" => Head(toEcu).bytes \in Seq(Octet) /\ Len(Head(toEcu).bytes) > 0
      BY <3>2, EcuHead
    <3> QED
      BY <3>1, <3>3, RequestFlowSent, ToTesterSplit
  <2>2. CASE EcuIn!RecvCF
    <3> DEFINE buf == rx.buf \o EcuIn!DecodeCF(Head(toEcu),
                                  EcuIn!Smaller(rx.total_len - Len(rx.buf), EcuIn!CFLimit))
    <3>1. rx.pc = "cf" /\ Taken(toEcu, toEcu')
      BY <2>2 DEF EcuIn!RecvCF, Taken
    <3>2. \/ toTester' = toTester
          \/ EcuIn!Accepts(Head(toEcu)) /\ EcuIn!SendFC(buf)
      BY <2>2 DEF EcuIn!RecvCF, EcuIn!RejectFrame
    <3>3. Head(toEcu).type = "CF" => buf \in Seq(Octet) /\ Len(buf) > 0
      BY <3>1, EcuCopies
    <3> HIDE DEF buf
    <3> QED
      BY <3>2, <3>3, RequestFlowSent, ToTesterSplit DEF EcuIn!Accepts
  <2>3. CASE EcuIn!RecvTimesOut
    BY <2>3, ToTesterSplit DEF EcuIn!RecvTimesOut
  <2> QED
    BY <2>1, <2>2, <2>3 DEF EcuRecv
<1> QED
  BY <1>1, <1>2, <1>3, <1>4, ResponseUnseen

\* The frames of a request go to the queue of request data.
LEMMA RequestPut ==
  ASSUME TypeInv, SendFirst \/ SendCF
  PROVE  responseFlow' = responseFlow
<1>1. /\ py.pc # "idle" /\ py \in PyLocals /\ Len(asked) \in Nat
  BY TypeFacts DEF SendFirst, SendCF
<1>2. /\ fd \in BOOLEAN /\ Len(asked) \in 1 .. Len(asked) /\ IsPdu(Len(asked), request)
      /\ Len(request) \in Nat
  BY <1>1, CurrentRequest
<1>3. ASSUME NEW frame, EcuFrame(fd, Len(asked), frame), frame.type # "FC",
             toEcu' = Append(toEcu, frame)
      PROVE  responseFlow' = responseFlow
  BY <1>3, ToEcuSplit DEF EcuFrame, Sized
<1>4. CASE SendFirst
  BY <1>1, <1>2, <1>3, <1>4, RequestFrames DEF SendFirst, _send_sf, FirstFrame
<1>5. CASE SendCF
  <2> DEFINE offset == EcuIn!Smaller(py.offset + EcuIn!CFLimit, Len(request))
             frame == ConsecutiveFrame(SubSeq(request, py.offset + 1, offset), py.sn)
  <2>1. toEcu' = Append(toEcu, frame)
    BY <1>5 DEF SendCF
  <2>2. py.offset \in Nat /\ py.sn \in 0 .. SNMod - 1
    BY <1>1 DEF PyLocals
  <2>3. offset \in 0 .. Len(request)
    BY <1>2, <2>2, Constants DEF EcuIn!Smaller, EcuIn!CFLimit
  <2> HIDE DEF offset
  <2>4. EcuFrame(fd, Len(asked), frame) /\ frame.type = "CF"
    BY <1>1, <1>2, <2>2, <2>3, RequestFrames DEF ConsecutiveFrame
  <2> HIDE DEF frame
  <2> QED
    BY <1>3, <2>1, <2>4
<1> QED
  BY <1>4, <1>5

\* send() takes flow control for requests, or drops a frame of a response.
LEMMA ResponseUntouched ==
  ASSUME Bounded, TypeInv, RespTp!IInv,
         \/ \E len \in Lengths[bus][fd] : _request(len)
         \/ SendFirst \/ _check_fc_continue \/ SendCF
  PROVE  ResponseStep
<1>1. /\ UNCHANGED <<answers, tx, sent, failed, stale, lostResp, bus, fd, faults>>
      /\ py.pc \notin {"recv", "multi"} /\ faults \in 0 .. MaxFaults
  BY TypeFacts DEF _request, SendFirst, _check_fc_continue, SendCF, Goto, Raise, ecuVars, medium
<1>2. py'.pc # "multi"
  <2>1. py \in PyLocals
    BY TypeFacts
  <2>2. CASE \E len \in Lengths[bus][fd] : _request(len)
    BY <2>2 DEF _request, IdlePy
  <2>3. CASE SendFirst
    BY <2>1, <2>3 DEF SendFirst, Goto, IdlePy, PyLocals
  <2>4. CASE _check_fc_continue
    <3> DEFINE next == IF py.offset < Len(request) THEN "cf" ELSE "recv"
    <3>1. next # "multi"
      OBVIOUS
    <3> HIDE DEF next
    <3> DEFINE bs == Head(toTester).bs
    <3>2. \/ py' = IdlePy
          \/ py' = [py EXCEPT !.pc = next, !.block_size = bs, !.block_count = 0]
      BY <2>4 DEF _check_fc_continue, Raise, next
    <3> HIDE DEF bs
    <3>3. CASE py' = IdlePy
      BY <3>3 DEF IdlePy
    <3>4. CASE py' = [py EXCEPT !.pc = next, !.block_size = bs, !.block_count = 0]
      <4>1. py'.pc = next
        BY <2>1, <3>4 DEF PyLocals
      <4> QED
        BY <3>1, <4>1
    <3> QED
      BY <3>2, <3>3, <3>4
  <2>5. CASE SendCF
    BY <2>1, <2>5 DEF SendCF, Goto, AfterCF, PyLocals
  <2> QED
    BY <2>2, <2>3, <2>4, <2>5
<1>3. pyRx = EcuIn!IdleRx /\ pyRx' = EcuIn!IdleRx
  BY <1>1, <1>2 DEF pyRx, EcuIn!IdleRx
<1>4. CASE ~ _check_fc_continue
  <2>1. toTester' = toTester
    BY <1>4 DEF _request, SendFirst, SendCF
  <2>2. responseFlow' = responseFlow
    BY <1>4, RequestPut, ToEcuSplit DEF _request
  <2> QED
    BY <1>1, <1>3, <2>1, <2>2, ToTesterSplit, ResponseUnseen
<1>5. CASE _check_fc_continue
  <2>1. Taken(toTester, toTester') /\ toEcu' = toEcu
    BY <1>5 DEF _check_fc_continue, Taken
  <2>2. /\ responseFlow' = responseFlow
        /\ responseData' = responseData \/ Taken(responseData, responseData')
    BY <2>1, ToEcuSplit, ToTesterSplit
  <2> QED
    BY <1>1, <1>3, <2>2, ResponseDropped
<1> QED
  BY <1>4, <1>5

\* A call that gives up in recv(), with the next frame or without.
LEMMA ResponseRaised ==
  ASSUME Bounded, TypeInv, RespTp!IInv, Raise, responseFlow' = responseFlow,
         toTester' = toTester \/ Taken(toTester, toTester'),
         UNCHANGED <<tx, sent, failed, stale, lostResp, bus, fd>>, faults' \in 0 .. MaxFaults
  PROVE  ResponseStep
<1>1. pyRx' = EcuIn!IdleRx /\ answers' = answers
  BY DEF Raise, pyRx, IdlePy, EcuIn!IdleRx
<1>2. responseData' = responseData \/ Taken(responseData, responseData')
  BY ToTesterSplit
<1> QED
  BY <1>1, <1>2, ResponseDropped

\* A frame of a response at the head of the queue to the tester is a piece of a
\* response that was sent.
LEMMA ResponseHead ==
  ASSUME Bounded, TypeInv, LengthInv, RespTp!IInv,
         Taken(toTester, toTester'), Head(toTester).type # "FC"
  PROVE  LET frame == Head(toTester)
             m == RespTp!Msg(frame)
         IN
         /\ Taken(responseData, responseData') /\ Head(responseData) = frame
         /\ requestFlow' = requestFlow
         /\ Sized(fd, frame) /\ TesterFrame(fd, frame) /\ fd \in BOOLEAN
         /\ frame.bytes \in Seq(Octet) /\ frame.type \in {"SF", "FF", "CF"}
         /\ RespTp!FrameOk(fd, sent, frame)
         /\ m \in 1 .. Len(sent) /\ Len(sent[m]) \in 1 .. MaxLength
<1> DEFINE frame == Head(toTester)
           m == RespTp!Msg(frame)
<1>1. Taken(responseData, responseData') /\ Head(responseData) = frame /\ requestFlow' = requestFlow
  BY ToTesterSplit
<1>2. Sized(fd, frame) /\ TesterFrame(fd, frame) /\ fd \in BOOLEAN
  BY TypeFacts, TailFacts DEF Taken, TesterFrame
<1>3. frame.bytes \in Seq(Octet) /\ frame.type \in {"SF", "FF", "CF"}
  BY <1>2, HeadTyped
<1>4. RespTp!FrameOk(fd, sent, frame)
  <2>1. responseData \in Seq(RespTp!DataFrames)
    BY DEF RespTp!IInv, RespTp!TypeInv
  <2>2. 1 \in 1 .. Len(responseData) /\ Head(responseData) = responseData[1]
    BY <1>1, <2>1, TailFacts DEF Taken
  <2> QED
    BY <1>1, <2>2 DEF RespTp!IInv, RespTp!QueueInv
<1>5. m \in 1 .. Len(sent)
  BY <1>4 DEF RespTp!FrameOk
<1> HIDE DEF m
<1>6. Len(sent[m]) \in 1 .. MaxLength
  <2>1. bus \in Buses /\ fd \in Modes
    BY DEF TypeInv, HistoryInv
  <2> QED
    BY <1>5, <2>1 DEF LengthInv, Bounded, BoundedBy
<1> QED
  BY <1>1, <1>2, <1>3, <1>4, <1>5, <1>6 DEF m

\* A response in one frame.
LEMMA ResponseSingle ==
  ASSUME Bounded, TypeInv, LengthInv, RespTp!IInv, RecvFirst, Head(toTester).type = "SF"
  PROVE  ResponseStep
<1> DEFINE frame == Head(toTester)
           m == RespTp!Msg(frame)
           pdu == sent[m]
<1>1. /\ py.pc = "recv" /\ Taken(toTester, toTester') /\ toEcu' = toEcu /\ Return(_decode_sf(frame))
      /\ UNCHANGED <<tx, sent, failed, stale, lostResp, bus, fd, faults>>
  BY DEF RecvFirst, Raise, Taken, ecuVars, medium
<1>2. /\ Taken(responseData, responseData') /\ Head(responseData) = frame
      /\ Sized(fd, frame) /\ fd \in BOOLEAN
      /\ frame.bytes \in Seq(Octet)
      /\ RespTp!FrameOk(fd, sent, frame)
      /\ m \in 1 .. Len(sent) /\ Len(pdu) \in 1 .. MaxLength
  BY <1>1, ResponseHead
<1>3. responseFlow' = responseFlow
  BY <1>1, ToEcuSplit
<1>4. pyRx = RespTp!IdleRx /\ pyRx' = RespTp!IdleRx
  BY <1>1 DEF pyRx, Return, IdlePy, EcuIn!IdleRx, RespTp!IdleRx
<1>5. frame = RespTp!SingleFrame(fd, pdu) /\ Len(pdu) <= RespTp!SFSize(fd)
  BY <1>2 DEF RespTp!FrameOk
<1>6. pdu \in Seq(Octet) /\ MaxLength \in Nat
  BY <1>2 DEF TypeInv, HistoryInv, IsPdu, Bounded
<1> HIDE DEF frame, m, pdu
<1>7. _decode_sf(frame) = pdu
  <2>1. frame.bytes = pdu /\ Announced(fd, frame) = Len(frame.bytes)
    BY <1>2, <1>5, Constants
       DEF Sized, RespTp!SingleFrame, RespTp!uds_tp_encode_sf, RespTp!uds_tp_encode_sf_fd, frame
  <2>2. _decode_sf(frame) = SubSeq(pdu, 1, Len(pdu))
    BY <2>1 DEF _decode_sf, Announced
  <2> QED
    BY <1>6, <2>2
<1>8. RespTp!DecodeSF(frame) = <<pdu>>
  <2>1. SubSeq(pdu, 1, Len(pdu)) = pdu
    BY <1>6
  <2>2. CASE fd
    <3>1. /\ frame.bytes = pdu /\ Len(pdu) \in 1 .. FdSFMax /\ Len(pdu) <= MaxLength
          /\ frame.dl = IF Len(pdu) <= SFMax THEN Len(pdu) ELSE 0
          /\ frame.ext = IF Len(pdu) <= SFMax THEN 0 ELSE Len(pdu)
      BY <1>2, <1>5, <1>6, <2>2, Constants
         DEF RespTp!SingleFrame, RespTp!SFSize, RespTp!uds_tp_encode_sf_fd
    <3> DEFINE len == IF frame.dl = 0 THEN frame.ext ELSE frame.dl
               valid == IF frame.dl = 0 THEN SFMax + 1 .. FdSFMax ELSE 1 .. SFMax
    <3>2. len = Len(pdu) /\ len \in valid
      BY <3>1, Constants
    <3>3. RespTp!DecodeSF(frame) =
            IF len \in valid /\ len <= MaxLength THEN <<SubSeq(frame.bytes, 1, len)>> ELSE <<>>
      BY <1>2, <2>2 DEF RespTp!DecodeSF, RespTp!uds_tp_decode_sf_fd
    <3> HIDE DEF len, valid
    <3> QED
      BY <2>1, <3>1, <3>2, <3>3
  <2>3. CASE ~ fd
    BY <1>2, <1>5, <1>6, <2>1, <2>3, Constants
       DEF RespTp!SingleFrame, RespTp!SFSize, RespTp!uds_tp_encode_sf, RespTp!DecodeSF,
           RespTp!uds_tp_decode_sf
  <2> QED
    BY <1>2, <2>2, <2>3
<1>9. answers' = answers \o <<pdu>>
  <2>1. answers' = Append(answers, pdu) /\ answers \in Seq(Seq(Octet))
    BY <1>1, <1>7, TypeFacts DEF Return, frame
  <2> QED
    BY <1>6, <2>1
<1>10. RespTp!RecvFirst
  <2>1. pyRx.pc = "first"
    BY <1>4 DEF RespTp!IdleRx
  <2>2. frame.type = "SF"
    BY DEF frame
  <2> QED
    BY <1>1, <1>2, <1>3, <1>4, <1>8, <1>9, <2>1, <2>2
       DEF RespTp!RecvFirst, RespTp!RecvReturns, RespTp!txSide, RespTp!medium, Taken
<1> QED
  BY <1>2, <1>10, ResponseMoved DEF RespTp!Recv

\* The first frame of a longer one.
LEMMA ResponseBegun ==
  ASSUME Bounded, TypeInv, LengthInv, RespTp!IInv, RecvFirst, Head(toTester).type = "FF"
  PROVE  ResponseStep
<1> DEFINE frame == Head(toTester)
           m == RespTp!Msg(frame)
           total == RespTp!DecodeFF(frame)
<1>1. /\ py.pc = "recv" /\ Taken(toTester, toTester')
      /\ toEcu' = Append(toEcu, FlowControl(frame.bytes))
      /\ Goto([IdlePy EXCEPT !.pc = "multi", !.buf = frame.bytes,
                             !.total = TotalOf(frame), !.expected_sn = 1])
      /\ UNCHANGED <<tx, sent, failed, stale, lostResp, bus, fd, faults>>
  BY DEF RecvFirst, Raise, Taken, ecuVars, medium
<1>2. /\ Taken(responseData, responseData') /\ Head(responseData) = frame
      /\ Sized(fd, frame) /\ fd \in BOOLEAN
      /\ frame.bytes \in Seq(Octet)
      /\ RespTp!FrameOk(fd, sent, frame)
      /\ m \in 1 .. Len(sent) /\ Len(sent[m]) \in 1 .. MaxLength
  BY <1>1, ResponseHead
<1>3. total = Len(sent[m]) /\ total \in 1 .. MaxLength /\ total # 0
  <2>1. RespTp!TypeInv /\ RespTp!SentInv /\ frame.type = "FF" /\ RespTp!FrameOk(fd, sent, frame)
    BY <1>2 DEF RespTp!IInv
  <2>2. total = Len(sent[m])
    <3> HIDE DEF frame
    <3> QED
      BY <2>1, ResponseAssumption, RespTp!ReadFirst
  <2>3. MaxLength \in Nat
    BY DEF Bounded
  <2> HIDE DEF total, m
  <2> QED
    BY <1>2, <2>2, <2>3 DEF m
<1> HIDE DEF frame, m
<1>4. TotalOf(frame) = total
  BY <1>3 DEF TotalOf, RespTp!DecodeFF, RespTp!uds_tp_decode_ff, RespTp!uds_tp_decode_ff_fd
<1>5. RespTp!SendFC(frame.bytes)
  <2>1. FlowControl(frame.bytes) \in Frames /\ FlowControl(frame.bytes).type = "FC"
    <3>1. Len(frame.bytes) > 0
      BY <1>2 DEF Sized, frame
    <3> QED
      BY <1>2, <3>1, FlowFrames DEF FlowControl, EcuFrame, Sized, EcuIn!uds_tp_encode_fc
  <2>2. responseFlow' = Append(responseFlow, FlowControl(frame.bytes))
    BY <1>1, <2>1, ToEcuSplit DEF frame
  <2> QED
    BY <2>2 DEF RespTp!SendFC, FlowControl, RespTp!uds_tp_encode_fc, RespTp!MsgOf,
                EcuIn!uds_tp_encode_fc, EcuIn!MsgOf
<1>6. pyRx.pc = "first"
  BY <1>1 DEF pyRx, EcuIn!IdleRx
<1>7. pyRx' = [pc |-> "cf", total_len |-> total, buf |-> frame.bytes,
               expected_sn |-> 1, bs_count |-> 0]
  BY <1>1, <1>4 DEF pyRx, Goto, IdlePy, frame
<1>8. RespTp!RecvFirst
  <2>1. frame.type = "FF" /\ answers' = answers
    BY <1>1 DEF frame, Goto
  <2> QED
    BY <1>1, <1>2, <1>3, <1>5, <1>6, <1>7, <2>1
       DEF RespTp!RecvFirst, RespTp!txSide, RespTp!medium, Taken
<1> QED
  BY <1>2, <1>8, ResponseMoved DEF RespTp!Recv

\* The first frame that recv() reads.
LEMMA ResponseFirst ==
  ASSUME Bounded, TypeInv, LengthInv, RespTp!IInv, RecvFirst
  PROVE  ResponseStep
<1> DEFINE frame == Head(toTester)
<1>1. CASE frame.type \in {"SF", "FF"}
  BY <1>1, ResponseSingle, ResponseBegun
<1>2. CASE frame.type \notin {"SF", "FF"} /\ Raise /\ toEcu' = toEcu
  <2>1. /\ Taken(toTester, toTester') /\ faults' \in 0 .. MaxFaults
        /\ UNCHANGED <<tx, sent, failed, stale, lostResp, bus, fd>>
    BY TypeFacts DEF RecvFirst, Taken, ecuVars, medium
  <2> QED
    BY <1>2, <2>1, ToEcuSplit, ResponseRaised
<1> QED
  BY <1>1, <1>2 DEF RecvFirst

\* Locals of recv() with the same values are the same.
LEMMA SameReader ==
  ASSUME NEW t \in RxLocals, NEW u \in RxLocals,
         t.pc = u.pc, t.total_len = u.total_len, t.buf = u.buf,
         t.expected_sn = u.expected_sn, t.bs_count = u.bs_count
  PROVE  t = u
BY DEF RxLocals

\* What recv() has after a consecutive frame that fits.
LEMMA ResponseCopied ==
  ASSUME Bounded, TypeInv, LengthInv, RespTp!IInv, py.pc = "multi", Taken(toTester, toTester'),
         Head(toTester).type = "CF", Head(toTester).sn = py.expected_sn
  PROVE  LET frame == Head(toTester)
             chunk == EcuIn!Smaller(EcuIn!CFLimit, py.total - Len(py.buf))
             buf == py.buf \o SubSeq(frame.bytes, 1, chunk)
         IN
         /\ responseData # <<>> /\ responseData' = Tail(responseData) /\ Head(responseData) = frame
         /\ pyRx \in RxLocals /\ pyRx.pc = "cf" /\ pyRx.total_len = py.total /\ pyRx.buf = py.buf
         /\ pyRx.expected_sn = py.expected_sn /\ pyRx.bs_count = 0
         /\ RespTp!Accepts(frame)
         /\ RespTp!Copied = buf /\ buf \in Seq(Octet)
<1> DEFINE frame == Head(toTester)
           size == EcuIn!CFLimit
           missing == py.total - Len(py.buf)
           chunk == EcuIn!Smaller(size, missing)
           buf == py.buf \o SubSeq(frame.bytes, 1, chunk)
<1>1. Taken(responseData, responseData') /\ Head(responseData) = frame
  BY ToTesterSplit
<1>2. Sized(fd, frame) /\ fd \in BOOLEAN /\ py \in PyLocals
  BY TypeFacts, TailFacts DEF Taken, TesterFrame
<1>3. py.buf \in Seq(Octet) /\ Len(py.buf) \in Nat /\ py.total \in Nat
  BY <1>2 DEF PyLocals
<1>4. size \in Nat \ {0} /\ Len(frame.bytes) = size /\ frame.bytes \in Seq(Octet)
  BY <1>2, HeadTyped, Constants DEF Sized, EcuIn!CFLimit
<1>5. pyRx = [pc |-> "cf", total_len |-> py.total, buf |-> py.buf,
              expected_sn |-> py.expected_sn, bs_count |-> 0]
  BY DEF pyRx
<1>6. pyRx \in RxLocals
  BY <1>2, <1>5 DEF PyLocals, RxLocals
<1>7. RespTp!Copied = py.buf \o SubSeq(frame.bytes, 1, RespTp!Smaller(missing, RespTp!CFLimit))
  BY <1>1, <1>5
     DEF RespTp!Copied, RespTp!DecodeCF, RespTp!uds_tp_decode_cf, RespTp!uds_tp_decode_cf_fd
<1>8. RespTp!Smaller(missing, RespTp!CFLimit) = chunk
  <2>1. RespTp!CFLimit = size
    BY DEF RespTp!CFLimit, EcuIn!CFLimit
  <2> HIDE DEF size
  <2> QED
    BY <1>3, <1>4, <2>1 DEF RespTp!Smaller, EcuIn!Smaller
<1>9. missing \in Int
  BY <1>3
<1>10. RespTp!Accepts(frame)
  BY <1>5 DEF RespTp!Accepts
<1> HIDE DEF size, missing, frame
<1>11. buf \in Seq(Octet)
  BY <1>3, <1>4, <1>9, CopyFacts
<1> HIDE DEF chunk
<1>12. RespTp!Copied = buf
  BY <1>7, <1>8
<1> QED
  BY <1>1, <1>5, <1>6, <1>10, <1>11, <1>12 DEF Taken, frame, chunk, size, missing

\* A consecutive frame: it completes the response, continues it, or ends the call.
LEMMA ResponseContinued ==
  ASSUME Bounded, TypeInv, LengthInv, RespTp!IInv, _recv_multi
  PROVE  ResponseStep
<1> DEFINE frame == Head(toTester)
           chunk == EcuIn!Smaller(EcuIn!CFLimit, py.total - Len(py.buf))
           buf == py.buf \o SubSeq(frame.bytes, 1, chunk)
           fits == frame.type = "CF" /\ frame.sn = py.expected_sn
<1>1. /\ py.pc = "multi" /\ Taken(toTester, toTester') /\ toEcu' = toEcu
      /\ UNCHANGED <<tx, sent, failed, stale, lostResp, bus, fd, faults>>
      /\ py \in PyLocals /\ faults \in 0 .. MaxFaults /\ fd \in BOOLEAN
  BY TypeFacts DEF _recv_multi, Taken, ecuVars, medium
<1>2. responseFlow' = responseFlow
  BY <1>1, ToEcuSplit
<1>3. fits =>
        /\ responseData # <<>> /\ responseData' = Tail(responseData) /\ Head(responseData) = frame
        /\ pyRx \in RxLocals /\ pyRx.pc = "cf" /\ pyRx.total_len = py.total /\ pyRx.buf = py.buf
        /\ pyRx.expected_sn = py.expected_sn /\ pyRx.bs_count = 0
        /\ RespTp!Accepts(frame)
        /\ RespTp!Copied = buf /\ buf \in Seq(Octet)
  BY <1>1, ResponseCopied
<1>4. \/ ~ fits /\ Raise
      \/ fits /\ Len(buf) >= py.total /\ Return(buf)
      \/ /\ fits /\ Len(buf) < py.total
         /\ Goto([py EXCEPT !.buf = buf, !.expected_sn = NextSn(@)])
  BY DEF _recv_multi
<1>5. UNCHANGED <<RespTp!txSide, RespTp!medium>>
  BY <1>1 DEF RespTp!txSide, RespTp!medium
<1> HIDE DEF buf, frame
<1>7. CASE ~ fits /\ Raise
  BY <1>1, <1>2, <1>7, ResponseRaised
<1>8. CASE fits /\ Len(buf) >= py.total /\ Return(buf)
  <2>1. answers' = answers \o <<buf>>
    <3>1. answers' = Append(answers, buf) /\ answers \in Seq(Seq(Octet))
      BY <1>8, TypeFacts DEF Return
    <3> QED
      BY <1>3, <1>8, <3>1
  <2>2. pyRx' = RespTp!IdleRx
    BY <1>8 DEF Return, pyRx, IdlePy, EcuIn!IdleRx, RespTp!IdleRx
  <2>3. RespTp!RecvReturns(<<RespTp!Copied>>)
    BY <1>3, <1>8, <2>1, <2>2 DEF RespTp!RecvReturns
  <2>4. Len(RespTp!Copied) >= pyRx.total_len
    BY <1>3, <1>8
  <2>5. ~ RespTp!NeedsFC(Len(RespTp!Copied), pyRx.bs_count + 1)
    BY DEF RespTp!NeedsFC
  <2>6. RespTp!RecvCF
    BY <1>1, <1>2, <1>3, <1>5, <1>8, <2>3, <2>4, <2>5 DEF RespTp!RecvCF, RespTp!Copied
  <2> QED
    BY <1>1, <2>6, ResponseMoved DEF RespTp!Recv
<1>9. CASE /\ fits /\ Len(buf) < py.total
           /\ Goto([py EXCEPT !.buf = buf, !.expected_sn = NextSn(@)])
  <2> DEFINE sn == (py.expected_sn + 1) % SNMod
             t == [pyRx EXCEPT !.buf = buf, !.expected_sn = sn, !.bs_count = 0]
  <2>1. sn \in 0 .. SNMod - 1 /\ NextSn(py.expected_sn) = sn
    BY <1>1, Constants DEF PyLocals, NextSn
  <2>2. py' = [py EXCEPT !.buf = buf, !.expected_sn = sn] /\ answers' = answers
    BY <1>9, <2>1 DEF Goto
  <2> HIDE DEF sn
  <2>3. /\ t \in RxLocals /\ t.pc = "cf" /\ t.total_len = py.total /\ t.buf = buf
        /\ t.expected_sn = sn /\ t.bs_count = 0
    BY <1>3, <1>9, <2>1 DEF RxLocals
  <2>4. /\ py' \in PyLocals /\ py'.pc = "multi" /\ py'.total = py.total /\ py'.buf = buf
        /\ py'.expected_sn = sn
    BY <1>1, <1>3, <1>9, <2>1, <2>2 DEF PyLocals
  <2>5. /\ pyRx' \in RxLocals /\ pyRx'.pc = "cf" /\ pyRx'.total_len = py.total /\ pyRx'.buf = buf
        /\ pyRx'.expected_sn = sn /\ pyRx'.bs_count = 0
    BY <2>4 DEF pyRx, PyLocals, RxLocals
  <2> HIDE DEF t
  <2>6. pyRx' = t
    BY <2>3, <2>5, SameReader
  <2>7. RespTp!Continued(0)
    <3>1. pyRx' = [pyRx EXCEPT !.buf = RespTp!Copied, !.expected_sn = sn, !.bs_count = 0]
      BY <1>3, <1>9, <2>6 DEF t
    <3>2. sn = (pyRx.expected_sn + 1) % SNMod
      BY <1>3, <1>9 DEF sn
    <3> QED
      BY <3>1, <3>2 DEF RespTp!Continued
  <2>8. Len(RespTp!Copied) < pyRx.total_len /\ frame.type = "CF" /\ 0 \in Nat
    BY <1>3, <1>9
  <2>9. RespTp!IInv'
    BY <1>1, <1>2, <1>3, <1>5, <1>9, <2>2, <2>7, <2>8, ResponseAssumption,
       RespTp!ConsecutiveAccepted
  <2> QED
    BY <1>1, <2>2, <2>9 DEF ResponseStep, RespTp!RecordsKept, RespTp!HistoryStep
<1> QED
  BY <1>4, <1>7, <1>8, <1>9

\* The timeouts of either call of the tester.
LEMMA ResponseTimeout ==
  ASSUME Bounded, TypeInv, RespTp!IInv, _recv_frame
  PROVE  ResponseStep
<1>1. /\ Raise /\ toEcu' = toEcu /\ toTester' = toTester /\ faults' \in 0 .. MaxFaults
      /\ UNCHANGED <<tx, sent, failed, stale, lostResp, bus, fd>>
  BY TypeFacts DEF _recv_frame, Deadline, ecuVars, medium
<1> QED
  BY <1>1, ToEcuSplit, ResponseRaised

\* Faults.
LEMMA ResponseFaults ==
  ASSUME Bounded, TypeInv, RespTp!IInv, PyFails \/ EcuFails \/ LoseFrame
  PROVE  ResponseStep
<1>1. CASE PyFails
  <2>1. /\ Raise /\ toEcu' = toEcu /\ toTester' = toTester /\ faults' \in 0 .. MaxFaults
        /\ UNCHANGED <<tx, sent, failed, stale, lostResp, bus, fd>>
    BY <1>1, FaultTyped DEF PyFails, ecuVars
  <2> QED
    BY <2>1, ToEcuSplit, ResponseRaised
<1>2. CASE (EcuIn!RecvFails \/ EcuIn!FlowFails) /\ UNCHANGED <<testerVars, lostResp>>
  <2>1. /\ toEcu' = toEcu \/ Taken(toEcu, toEcu')
        /\ toTester' = toTester
        /\ UNCHANGED <<tx, sent, failed, stale, bus, fd>> /\ faults' \in 0 .. MaxFaults
    BY <1>2, FaultTyped DEF EcuIn!RecvFails, EcuIn!FlowFails, EcuIn!txSide, Taken
  <2>2. UNCHANGED <<pyRx, answers>>
    BY <1>2, ResponseReaderFrame
  <2>3. /\ responseData' = responseData
        /\ responseFlow' = responseFlow \/ Taken(responseFlow, responseFlow')
    BY <2>1, ToEcuSplit, ToTesterSplit
  <2> QED
    BY <1>2, <2>1, <2>2, <2>3, ResponseUnseen
<1>3. CASE EcuOut!SendFails /\ UNCHANGED testerVars
  <2>1. /\ tx.pc # "idle" /\ EcuOut!SendReturnsError
        /\ UNCHANGED <<toEcu, toTester, lostResp, bus, fd>> /\ faults' \in 0 .. MaxFaults
    BY <1>3, FaultTyped DEF EcuOut!SendFails
  <2>2. UNCHANGED <<pyRx, answers>>
    BY <1>3, ResponseReaderFrame
  <2>3. responseData' = responseData /\ responseFlow' = responseFlow
    BY <2>1, ToEcuSplit, ToTesterSplit
  <2> QED
    BY <2>1, <2>2, <2>3, ResponseGivenUp
<1>4. CASE EcuIn!LoseData /\ UNCHANGED <<testerVars, lostResp>>
  <2>1. /\ Taken(toEcu, toEcu') /\ toTester' = toTester
        /\ UNCHANGED <<tx, sent, failed, stale, bus, fd>> /\ faults' \in 0 .. MaxFaults
    BY <1>4, FaultTyped DEF EcuIn!LoseData, EcuIn!txSide, Taken
  <2>2. UNCHANGED <<pyRx, answers>>
    BY <1>4, ResponseReaderFrame
  <2>3. /\ responseData' = responseData
        /\ responseFlow' = responseFlow \/ Taken(responseFlow, responseFlow')
    BY <2>1, ToEcuSplit, ToTesterSplit
  <2> QED
    BY <1>4, <2>1, <2>2, <2>3, ResponseUnseen
<1>5. CASE EcuOut!LoseData /\ UNCHANGED testerVars
  <2> DEFINE frame == Head(toTester)
  <2>1. /\ EcuOut!Fault /\ Taken(toTester, toTester') /\ frame.type \in Losable
        /\ lostResp' = IF frame.type = "FF" THEN lostResp \cup {EcuOut!MsgOf(frame.bytes)}
                       ELSE lostResp
        /\ UNCHANGED <<tx, sent, failed, stale, toEcu, bus, fd>>
        /\ faults' \in 0 .. MaxFaults
    BY <1>5, FaultTyped DEF EcuOut!LoseData, EcuOut!txSide, Taken
  <2>2. responseFlow' = responseFlow
    BY <2>1, ToEcuSplit
  <2>3. UNCHANGED <<pyRx, answers, RespTp!rxSide>>
    BY <1>5, ResponseReaderFrame
  <2>4. CASE frame.type = "FC"
    <3>1. responseData' = responseData /\ lostResp' = lostResp
      BY <2>1, <2>4, ToTesterSplit
    <3> QED
      BY <2>1, <2>2, <2>3, <3>1, ResponseUnseen
  <2>5. CASE frame.type # "FC"
    <3>1. Taken(responseData, responseData') /\ Head(responseData) = frame
      BY <2>1, <2>5, ToTesterSplit
    <3>2. RespTp!LoseData
      BY <2>1, <2>2, <2>3, <3>1
         DEF RespTp!LoseData, RespTp!Fault, EcuOut!Fault, RespTp!MsgOf, EcuOut!MsgOf, Taken,
             RespTp!txSide
    <3> QED
      BY <3>2, ResponseNext DEF RespTp!Next
  <2> QED
    BY <2>4, <2>5
<1> QED
  BY <1>1, <1>2, <1>3, <1>4, <1>5 DEF EcuFails, LoseFrame

\* All steps together.
LEMMA ResponsesStep ==
  ASSUME Bounded, TypeInv, LengthInv, RespTp!IInv, [Next]_vars
  PROVE  ResponseStep
<1>1. CASE \/ \E len \in Lengths[bus][fd] : _request(len)
           \/ SendFirst \/ _check_fc_continue \/ SendCF
  BY <1>1, ResponseUntouched
<1>2. CASE RecvFirst \/ _recv_multi \/ _recv_frame
  BY <1>2, ResponseFirst, ResponseContinued, ResponseTimeout
<1>3. CASE Ecu
  BY <1>3, ResponseListens, ResponseServed DEF Ecu
<1>4. CASE PyFails \/ EcuFails \/ LoseFrame
  BY <1>4, ResponseFaults
<1>5. CASE EcuWaits \/ UNCHANGED vars
  <2>1. /\ UNCHANGED <<testerVars, tx, sent, failed, stale, toEcu, toTester, lostResp, bus, fd>>
        /\ faults' \in 0 .. MaxFaults
    BY <1>5, TypeFacts
       DEF EcuWaits, EcuIn!RecvIdle, EcuIn!vars, EcuIn!txSide, EcuIn!medium, vars, ecuVars, medium
  <2>2. UNCHANGED <<pyRx, answers>>
    BY <2>1, ResponseReaderFrame
  <2> QED
    BY <2>1, <2>2, ToEcuSplit, ToTesterSplit, ResponseUnseen
<1> QED
  BY <1>1, <1>2, <1>3, <1>4, <1>5 DEF Next, Tester

\* Nothing is under way at first.
LEMMA ResponsesInit ==
  ASSUME Bounded, Init
  PROVE  RespTp!IInv /\ Responses!Init
<1>1. /\ py = IdlePy /\ rx = EcuIn!IdleRx /\ tx = EcuIn!IdleTx
      /\ toEcu = <<>> /\ toTester = <<>>
      /\ answers = <<>> /\ sent = <<>> /\ failed = {} /\ stale = {} /\ lostResp = {}
      /\ faults = 0 /\ bus \in Buses /\ fd \in Modes
  BY DEF Init, EcuIn!Init
<1>2. responseData = <<>> /\ responseFlow = <<>>
  BY <1>1, SplitEmpty
<1>3. pyRx = RespTp!IdleRx
  BY <1>1 DEF pyRx, IdlePy, EcuIn!IdleRx, RespTp!IdleRx
<1>4. RespTp!Init
  BY <1>1, <1>2, <1>3 DEF RespTp!Init, EcuIn!IdleTx, RespTp!IdleTx
<1>5. RespTp!IInv
  BY <1>4, ResponseAssumption, RespTp!InitInv
<1>6. RespTp!Channel!Init
  <2>1. answers = <<>> /\ Len(answers) = 0 /\ sent = <<>> /\ failed = {}
    BY <1>1
  <2>2. RespTp!delivered = <<>>
    BY <2>1, ResponseAssumption, RespTp!RegularStep DEF RespTp!delivered, RespTp!Regular
  <2> QED
    BY <2>1, <2>2 DEF RespTp!Channel!Init, RespTp!LastOf
<1>7. responses = <<>> /\ EcuIn!LastOf(responses) = 0
  <2>1. RespTp!delivered = responses
    BY DEF RespTp!delivered, responses, RespTp!Regular, EcuIn!Regular, RespTp!RegularUpTo,
           EcuIn!RegularUpTo, RespTp!Offending, EcuIn!Offending
  <2> QED
    BY <1>6, <2>1 DEF RespTp!Channel!Init, EcuIn!LastOf
<1> QED
  BY <1>1, <1>5, <1>7 DEF Responses!Init

\* What recv() returns is a whole response of the ECU, in order, at most once,
\* though _recv_multi_classic and _recv_multi_fd accept frames by type and
\* sequence number only and leave the rest of a response behind.
THEOREM ResponsesRefined ==
  ASSUME NEW n \in Nat, BoundedBy(n)
  PROVE  Spec => ImplementsResponses
<1> DEFINE Inv == TypeInv /\ LengthInv /\ RespTp!IInv
<1>1. Bounded
  BY DEF Bounded, MaxLength
<1>2. Init => Inv /\ Responses!Init
  BY <1>1, InitTyped, RequestsInit, ResponsesInit
<1>3. Inv /\ [Next]_vars => Inv' /\ [Responses!Next]_(Responses!vars)
  <2> SUFFICES ASSUME Inv, [Next]_vars PROVE Inv' /\ [Responses!Next]_(Responses!vars)
    OBVIOUS
  <2>1. TypeInv' /\ LengthInv'
    BY NextTyped, LengthStep
  <2>2. ResponseStep
    BY <1>1, ResponsesStep
  <2>3. [Responses!Next]_(Responses!vars)
    BY <1>1, <2>2, ResponseChannelStep
  <2> QED
    BY <2>1, <2>2, <2>3 DEF ResponseStep
<1> HIDE DEF Inv
<1> QED
  BY <1>2, <1>3, PTL DEF Spec, ImplementsResponses, Responses!Spec
=============================================================================
