----------------------- MODULE FlashProgrammerProofs -----------------------
(***************************************************************************)
(* Proofs about FlashProgrammer: a download() or upload() that returns did *)
(* what it was asked to, for every flash, word size, job and bus.          *)
(*                                                                         *)
(* The inductive invariant IInv has the ECU's own (FlashTransferProofs)    *)
(* and two views of the queues.  SyncInv is about a call that started with *)
(* nothing in flight: at most one final answer is under way, the call's,   *)
(* and the ECU's transfer is as far as the call (Asked before the ECU has  *)
(* handled the request, Granted after it).  StaleInv is about a call that  *)
(* started behind an aborted one's PDUs: while none is lost, at most one   *)
(* positive answer to a transfer start is among them, so a call that takes *)
(* it for its own gets a second answer to a transfer start where it waits  *)
(* for one to 0x36, and raises.  CleanInv adds what no disturbance spoils: *)
(* the answer of a call on a clean bus is under way, and is positive.      *)
(***************************************************************************)
EXTENDS FlashProgrammer, SetInduction, SequenceTheorems, TLAPS

----------------------------------------------------------------------------
(* Numbers on the wire *)

\* A quotient is given by its bounds.
LEMMA QuotientUnique ==
  ASSUME NEW n \in Nat, NEW d \in Nat \ {0}, NEW q \in Nat, q * d <= n, n < (q + 1) * d
  PROVE  n \div d = q
OBVIOUS

\* A quotient lies between its bounds.
LEMMA QuotientBounds ==
  ASSUME NEW n \in Nat, NEW d \in Nat \ {0}
  PROVE  /\ n \div d \in Nat
         /\ (n \div d) * d <= n
         /\ n < ((n \div d) + 1) * d
OBVIOUS

\* Quotient and remainder make the number.
LEMMA DivMod ==
  ASSUME NEW n \in Nat, NEW d \in Nat \ {0}
  PROVE  /\ n = ((n \div d) * d) + (n % d)
         /\ n % d \in 0 .. d - 1
OBVIOUS

\* A product grows with its factor.
LEMMA ProductMonotone ==
  ASSUME NEW a \in Nat, NEW b \in Nat, NEW d \in Nat, a <= b
  PROVE  a * d <= b * d
<1>1. PICK c \in Nat : b = a + c
  <2>1. b - a \in Nat /\ b = a + (b - a)
    OBVIOUS
  <2> QED
    BY <2>1
<1>2. b * d = (a * d) + (c * d)
  BY <1>1
<1>3. c * d \in Nat /\ a * d \in Nat
  OBVIOUS
<1> QED
  BY <1>2, <1>3

\* The quotient by a product is the quotient of a quotient.
LEMMA QuotientOfQuotient ==
  ASSUME NEW n \in Nat, NEW r \in Nat \ {0}, NEW d \in Nat \ {0}
  PROVE  n \div (r * d) = (n \div d) \div r
<1> DEFINE m == n \div d
           q == m \div r
<1>1. m \in Nat /\ m * d <= n /\ n < (m + 1) * d
  BY QuotientBounds
<1> HIDE DEF m
<1>2. q \in Nat /\ q * r <= m /\ m < (q + 1) * r
  BY <1>1, QuotientBounds
<1> HIDE DEF q
<1>3. q * r \in Nat /\ (q + 1) * r \in Nat /\ m + 1 <= (q + 1) * r
  BY <1>1, <1>2
<1>4. (q * r) * d <= m * d /\ (m + 1) * d <= ((q + 1) * r) * d
  BY <1>1, <1>2, <1>3, ProductMonotone
<1>5. (q * r) * d <= n /\ n < ((q + 1) * r) * d
  BY <1>1, <1>2, <1>3, <1>4
<1>6. (q * r) * d = q * (r * d) /\ ((q + 1) * r) * d = (q + 1) * (r * d)
  BY <1>2
<1>7. r * d \in Nat \ {0}
  OBVIOUS
<1>8. n \div (r * d) = q
  BY <1>2, <1>5, <1>6, <1>7, QuotientUnique
<1> QED
  BY <1>8 DEF q, m

\* f is Power up to m.
Powers(f, m) == f = [k \in 0 .. m |-> IF k = 0 THEN 1 ELSE Radix * f[k - 1]]

\* The recursion defines Power.
LEMMA PowerDefined == Powers(Power, WordBytes)
<1> DEFINE S == {m \in Nat : \E f : Powers(f, m)}
<1>1. 0 \in S
  <2> DEFINE f == [k \in 0 .. 0 |-> 1]
  <2>1. Powers(f, 0)
    BY DEF Powers
  <2> QED
    BY <2>1
<1>2. ASSUME NEW m \in Nat, m \in S PROVE m + 1 \in S
  <2>1. PICK f : Powers(f, m)
    BY <1>2
  <2> DEFINE g == [k \in 0 .. m + 1 |-> IF k <= m THEN f[k] ELSE Radix * f[k - 1]]
             v == [k \in 0 .. m + 1 |-> IF k = 0 THEN 1 ELSE Radix * g[k - 1]]
  <2>2. ASSUME NEW k \in 0 .. m + 1 PROVE g[k] = v[k]
    <3>1. CASE k = 0
      BY <2>1, <3>1 DEF Powers
    <3>2. CASE k # 0
      <4>1. k - 1 \in 0 .. m /\ k - 1 \in 0 .. m + 1 /\ k - 1 <= m
        BY <3>2
      <4>2. g[k - 1] = f[k - 1]
        BY <4>1
      <4>3. CASE k <= m
        <5>1. k \in 0 .. m /\ g[k] = f[k]
          BY <4>3
        <5>2. f[k] = Radix * f[k - 1]
          BY <2>1, <3>2, <5>1 DEF Powers
        <5> QED
          BY <3>2, <4>2, <5>1, <5>2
      <4>4. CASE ~ (k <= m)
        BY <3>2, <4>2, <4>4
      <4> QED
        BY <4>3, <4>4
    <3> QED
      BY <3>1, <3>2
  <2>3. g = v
    BY <2>2
  <2>4. Powers(g, m + 1)
    BY <2>3 DEF Powers
  <2> QED
    BY <2>4
<1> HIDE DEF S
<1>3. WordBytes \in S
  <2>1. WordBytes \in Nat
    BY ProgrammerAssumption
  <2>2. \A n \in Nat : n \in S
    BY <1>1, <1>2, InductiveSet
  <2> QED
    BY <2>1, <2>2
<1>4. PICK f : Powers(f, WordBytes)
  BY <1>3 DEF S
<1> QED
  BY <1>4 DEF Powers, Power

\* Its values one by one; none is 0.
LEMMA PowerStep ==
  /\ Power[0] = 1
  /\ \A m \in 1 .. WordBytes : Power[m] = Radix * Power[m - 1]
  /\ \A m \in 0 .. WordBytes : Power[m] \in Nat \ {0}
<1>0. WordBytes \in Nat /\ Radix \in Nat \ {0}
  BY ProgrammerAssumption
<1>1. Power[0] = 1
  <2>1. 0 \in 0 .. WordBytes
    BY <1>0
  <2> QED
    BY <2>1, PowerDefined DEF Powers
<1>2. ASSUME NEW m \in 1 .. WordBytes PROVE Power[m] = Radix * Power[m - 1]
  <2>1. m \in 0 .. WordBytes /\ m # 0
    BY <1>0
  <2> QED
    BY <2>1, PowerDefined DEF Powers
<1> DEFINE S == {m \in Nat : m <= WordBytes => Power[m] \in Nat \ {0}}
<1>3. 0 \in S
  BY <1>1
<1>4. ASSUME NEW m \in Nat, m \in S PROVE m + 1 \in S
  <2> SUFFICES ASSUME m + 1 <= WordBytes PROVE Power[m + 1] \in Nat \ {0}
    OBVIOUS
  <2>1. Power[m] \in Nat \ {0}
    BY <1>0, <1>4
  <2>2. m + 1 \in 1 .. WordBytes /\ (m + 1) - 1 = m
    BY <1>0
  <2>3. Power[m + 1] = Radix * Power[m]
    BY <1>2, <2>2
  <2> QED
    BY <1>0, <2>1, <2>3
<1> HIDE DEF S
<1>5. \A m \in Nat : m \in S
  BY <1>3, <1>4, InductiveSet
<1>6. \A m \in 0 .. WordBytes : Power[m] \in Nat \ {0}
  BY <1>0, <1>5 DEF S
<1> QED
  BY <1>1, <1>2, <1>6

\* A longer field has no fewer values.
LEMMA PowerMonotone == \A m \in 0 .. WordBytes : Power[m] <= WordMod
<1>0. WordBytes \in Nat /\ Radix \in Nat \ {0} /\ WordMod = Power[WordBytes]
  BY ProgrammerAssumption
<1> DEFINE S == {i \in Nat : i <= WordBytes => Power[WordBytes - i] <= WordMod}
<1>1. 0 \in S
  <2>1. WordBytes - 0 = WordBytes /\ WordBytes \in 0 .. WordBytes
    BY <1>0
  <2>2. Power[WordBytes - 0] = WordMod /\ WordMod \in Nat
    BY <1>0, <2>1, PowerStep
  <2> QED
    BY <2>2
<1>2. ASSUME NEW i \in Nat, i \in S PROVE i + 1 \in S
  <2> SUFFICES ASSUME i + 1 <= WordBytes PROVE Power[WordBytes - (i + 1)] <= WordMod
    OBVIOUS
  <2> DEFINE m == WordBytes - i
  <2>1. m \in 1 .. WordBytes /\ m - 1 = WordBytes - (i + 1) /\ m - 1 \in 0 .. WordBytes
    BY <1>0
  <2>2. Power[m] <= WordMod
    BY <1>0, <1>2
  <2> HIDE DEF m
  <2>3. Power[m] = Radix * Power[m - 1] /\ Power[m - 1] \in Nat
    BY <2>1, PowerStep
  <2>4. 1 * Power[m - 1] <= Radix * Power[m - 1]
    BY <1>0, <2>3, ProductMonotone
  <2>5. WordMod \in Nat
    BY <1>0, PowerStep
  <2>6. Power[m - 1] <= WordMod
    BY <1>0, <2>2, <2>3, <2>4, <2>5
  <2> QED
    BY <2>1, <2>6
<1> HIDE DEF S
<1>3. \A i \in Nat : i \in S
  BY <1>1, <1>2, InductiveSet
<1>4. ASSUME NEW m \in 0 .. WordBytes PROVE Power[m] <= WordMod
  <2>1. WordBytes - m \in Nat /\ WordBytes - m <= WordBytes /\ WordBytes - (WordBytes - m) = m
    BY <1>0
  <2> QED
    BY <1>3, <2>1 DEF S
<1> QED
  BY <1>4

\* f is WordUpTo(bytes) up to m.
Shifts(f, m, bytes) ==
  f = [k \in 0 .. m |-> IF k = 0 THEN 0 ELSE (f[k - 1] * Radix + bytes[k]) % WordMod]

\* The recursion defines WordUpTo.
LEMMA WordDefined ==
  ASSUME NEW bytes, Len(bytes) \in Nat
  PROVE  Shifts(WordUpTo(bytes), Len(bytes), bytes)
<1> DEFINE Shifted(x, k) == (x * Radix + bytes[k]) % WordMod
           S == {m \in Nat : \E f : Shifts(f, m, bytes)}
<1>1. 0 \in S
  <2> DEFINE f == [k \in 0 .. 0 |-> 0]
  <2>1. Shifts(f, 0, bytes)
    BY DEF Shifts
  <2> QED
    BY <2>1
<1>2. ASSUME NEW m \in Nat, m \in S PROVE m + 1 \in S
  <2>1. PICK f : f = [k \in 0 .. m |-> IF k = 0 THEN 0 ELSE Shifted(f[k - 1], k)]
    BY <1>2 DEF Shifts
  <2> DEFINE g == [k \in 0 .. m + 1 |-> IF k <= m THEN f[k] ELSE Shifted(f[k - 1], k)]
             v == [k \in 0 .. m + 1 |-> IF k = 0 THEN 0 ELSE Shifted(g[k - 1], k)]
  <2> HIDE DEF Shifted
  <2>2. ASSUME NEW k \in 0 .. m + 1 PROVE g[k] = v[k]
    <3>1. CASE k = 0
      BY <2>1, <3>1
    <3>2. CASE k # 0
      <4>1. k - 1 \in 0 .. m /\ k - 1 \in 0 .. m + 1 /\ k - 1 <= m
        BY <3>2
      <4>2. g[k - 1] = f[k - 1]
        BY <4>1
      <4>3. CASE k <= m
        <5>1. k \in 0 .. m /\ g[k] = f[k]
          BY <4>3
        <5>2. f[k] = Shifted(f[k - 1], k)
          BY <2>1, <3>2, <5>1
        <5> QED
          BY <3>2, <4>2, <5>1, <5>2
      <4>4. CASE ~ (k <= m)
        BY <3>2, <4>2, <4>4
      <4> QED
        BY <4>3, <4>4
    <3> QED
      BY <3>1, <3>2
  <2>3. g = v
    BY <2>2
  <2>4. Shifts(g, m + 1, bytes)
    BY <2>3 DEF Shifts, Shifted
  <2> QED
    BY <2>4
<1> HIDE DEF S
<1>3. Len(bytes) \in S
  BY <1>1, <1>2, InductiveSet
<1>4. PICK f : Shifts(f, Len(bytes), bytes)
  BY <1>3 DEF S
<1> QED
  BY <1>4 DEF Shifts, WordUpTo

\* The ECU reads back the number the tester packed, if it fits the field.
LEMMA WordOfBytes ==
  ASSUME NEW len \in 1 .. WordBytes, NEW n \in Nat, n < Power[len],
         NEW bytes, Len(bytes) = len,
         \A i \in 1 .. len : bytes[i] = to_bytes(n, len)[i]
  PROVE  Word(bytes) = n
<1> DEFINE w == WordUpTo(bytes)
           S == {i \in Nat : i <= len => w[i] = n \div Power[len - i]}
<1>0. /\ WordBytes \in Nat /\ Radix \in Nat \ {0} /\ WordMod \in Nat
      /\ len \in Nat /\ n < WordMod
  <2>1. WordBytes \in Nat /\ Radix \in Nat \ {0} /\ WordMod = Power[WordBytes]
    BY ProgrammerAssumption
  <2>2. WordBytes \in 0 .. WordBytes /\ len \in 0 .. WordBytes
    BY <2>1
  <2>3. WordMod \in Nat /\ Power[len] \in Nat /\ Power[len] <= WordMod
    BY <2>1, <2>2, PowerStep, PowerMonotone
  <2> QED
    BY <2>1, <2>3
<1>1. Shifts(w, len, bytes)
  BY <1>0, WordDefined
<1>2. w[0] = 0 /\ \A k \in 1 .. len : w[k] = (w[k - 1] * Radix + bytes[k]) % WordMod
  <2>1. w[0] = 0
    <3>1. 0 \in 0 .. len
      BY <1>0
    <3> QED
      BY <1>1, <3>1 DEF Shifts
  <2>2. ASSUME NEW k \in 1 .. len PROVE w[k] = (w[k - 1] * Radix + bytes[k]) % WordMod
    <3>1. k \in 0 .. len /\ k # 0
      BY <1>0
    <3> QED
      BY <1>1, <3>1 DEF Shifts
  <2> QED
    BY <2>1, <2>2
<1> HIDE DEF w
<1>3. 0 \in S
  <2>1. len - 0 = len /\ len \in 0 .. WordBytes
    BY <1>0
  <2>2. Power[len] \in Nat \ {0}
    BY <2>1, PowerStep
  <2>3. 0 * Power[len] <= n /\ n < (0 + 1) * Power[len]
    BY <2>2
  <2>4. n \div Power[len] = 0
    BY <2>2, <2>3, QuotientUnique
  <2> QED
    BY <1>2, <2>1, <2>4
<1>4. ASSUME NEW i \in Nat, i \in S PROVE i + 1 \in S
  <2> SUFFICES ASSUME i + 1 <= len PROVE w[i + 1] = n \div Power[len - (i + 1)]
    OBVIOUS
  <2> DEFINE d == Power[len - (i + 1)]
             m == n \div d
  <2>1. /\ len - (i + 1) \in 0 .. WordBytes /\ len - i \in 1 .. WordBytes
        /\ (len - i) - 1 = len - (i + 1)
        /\ i + 1 \in 1 .. len /\ (i + 1) - 1 = i
    BY <1>0
  <2>2. d \in Nat \ {0} /\ Power[len - i] = Radix * d
    BY <2>1, PowerStep
  <2>3. w[i] = n \div Power[len - i]
    BY <1>0, <1>4
  <2>4. bytes[i + 1] = m % Radix
    BY <2>1 DEF to_bytes
  <2> HIDE DEF d
  <2>5. w[i] = m \div Radix
    <3>1. n \div (Radix * d) = (n \div d) \div Radix
      BY <1>0, <2>2, QuotientOfQuotient
    <3> QED
      BY <2>2, <2>3, <3>1, Zenon
  <2>6. m \in Nat /\ m <= n
    <3>1. m \in Nat /\ m * d <= n
      BY <2>2, QuotientBounds
    <3> HIDE DEF m
    <3>2. m * 1 <= m * d
      <4>1. 1 * m <= d * m
        BY <2>2, <3>1, ProductMonotone
      <4> QED
        BY <2>2, <3>1, <4>1
    <3>3. m * d \in Nat
      BY <2>2, <3>1
    <3> QED
      BY <3>1, <3>2, <3>3
  <2> HIDE DEF m
  <2>7. w[i + 1] = ((m \div Radix) * Radix + (m % Radix)) % WordMod
    BY <1>2, <2>1, <2>4, <2>5
  <2>8. w[i + 1] = m % WordMod
    BY <1>0, <2>6, <2>7, DivMod
  <2>9. w[i + 1] = m
    BY <1>0, <2>6, <2>8
  <2> QED
    BY <2>9 DEF m, d
<1> HIDE DEF S
<1>5. \A i \in Nat : i \in S
  BY <1>3, <1>4, InductiveSet
<1>6. w[len] = n \div Power[len - len]
  BY <1>0, <1>5 DEF S
<1>7. len - len = 0 /\ Power[0] = 1
  BY <1>0, PowerStep
<1>8. n \div 1 = n
  OBVIOUS
<1> QED
  BY <1>6, <1>7, <1>8 DEF Word, w

\* The two nibbles of the format byte.
LEMMA Nibbles ==
  ASSUME NEW a \in 1 .. 15, NEW b \in 1 .. 15
  PROVE  LET fmt == (b % 16) * 16 + (a % 16) IN
         fmt % 16 = a /\ (fmt \div 16) % 16 = b
OBVIOUS

\* A slice of a sequence that starts with it, and of one that ends with it.
LEMMA FieldSlices ==
  ASSUME NEW S, NEW s \in Seq(S), NEW t \in Seq(S)
  PROVE  LET head == SubSeq(s \o t, 1, Len(s))
             tail == SubSeq(s \o t, Len(s) + 1, Len(s) + Len(t)) IN
         /\ Len(head) = Len(s) /\ \A i \in 1 .. Len(s) : head[i] = s[i]
         /\ Len(tail) = Len(t) /\ \A i \in 1 .. Len(t) : tail[i] = t[i]
<1>1. /\ Len(s) \in Nat /\ Len(t) \in Nat /\ Len(s \o t) = Len(s) + Len(t)
      /\ s \o t \in Seq(S)
  OBVIOUS
<1>2. ASSUME NEW i \in 1 .. Len(s) PROVE (s \o t)[i] = s[i]
  OBVIOUS
<1>3. ASSUME NEW i \in 1 .. Len(t) PROVE (s \o t)[Len(s) + i] = t[i]
  OBVIOUS
<1> QED
  BY <1>1, <1>2, <1>3

\* What the bytes of a field are.
LEMMA FieldBytes ==
  ASSUME NEW n \in Nat, NEW len \in 1 .. WordBytes
  PROVE  to_bytes(n, len) \in Seq(Int) /\ Len(to_bytes(n, len)) = len
<1>1. WordBytes \in Nat /\ Radix \in Nat \ {0}
  BY ProgrammerAssumption
<1>2. ASSUME NEW i \in 1 .. len PROVE (n \div Power[len - i]) % Radix \in Int
  <2>1. len - i \in 0 .. WordBytes
    BY <1>1
  <2>2. Power[len - i] \in Nat \ {0}
    BY <2>1, PowerStep
  <2>3. n \div Power[len - i] \in Nat
    BY <2>2, QuotientBounds
  <2> HIDE DEF Power
  <2> QED
    BY <1>1, <2>3, DivMod
<1>3. to_bytes(n, len) \in [1 .. len -> Int]
  BY <1>2 DEF to_bytes
<1> QED
  BY <1>1, <1>3

\* The ECU reads address and length of a job out of its first request, whatever
\* lengths the two fields have.
LEMMA RequestParsed ==
  ASSUME NEW j \in Jobs, Fits(j)
  PROVE  /\ parse_addr_len_fmt(StartRequest(j).fmt, StartRequest(j).bytes)
              = [ok |-> TRUE, address |-> j.address, mem_size |-> j.length]
         /\ j.address \in 0 .. WordMod - 1 /\ j.length \in 0 .. WordMod - 1
         /\ StartRequest(j).sid = (IF j.kind = "download" THEN "34" ELSE "35")
<1> DEFINE a == to_bytes(j.address, j.addr_len)
           b == to_bytes(j.length, j.size_len)
           fmt == (j.size_len % 16) * 16 + (j.addr_len % 16)
<1>1. /\ WordBytes \in 1 .. 15 /\ j.address \in Nat /\ j.length \in Nat
      /\ j.addr_len \in 1 .. WordBytes /\ j.size_len \in 1 .. WordBytes
  BY ProgrammerAssumption
<1>2. j.addr_len \in 1 .. 15 /\ j.size_len \in 1 .. 15 /\ WordBytes \in Nat
  BY <1>1
<1>3. fmt % 16 = j.addr_len /\ (fmt \div 16) % 16 = j.size_len
  BY <1>2, Nibbles
<1>4. /\ StartRequest(j).fmt = fmt /\ StartRequest(j).bytes = a \o b
      /\ StartRequest(j).sid = (IF j.kind = "download" THEN "34" ELSE "35")
  BY DEF StartRequest, Request
<1>5. /\ a \in Seq(Int) /\ Len(a) = j.addr_len
      /\ b \in Seq(Int) /\ Len(b) = j.size_len
  BY <1>1, FieldBytes
<1> HIDE DEF a, b, fmt
<1>6. Len(a \o b) = j.addr_len + j.size_len
  <2>1. Len(a \o b) = Len(a) + Len(b)
    BY <1>5, ConcatProperties
  <2> QED
    BY <1>5, <2>1
<1> DEFINE head == SubSeq(a \o b, 1, Len(a))
           tail == SubSeq(a \o b, Len(a) + 1, Len(a) + Len(b))
<1>7. /\ Len(head) = j.addr_len /\ \A i \in 1 .. j.addr_len : head[i] = a[i]
      /\ Len(tail) = j.size_len /\ \A i \in 1 .. j.size_len : tail[i] = b[i]
  <2>1. /\ Len(head) = Len(a) /\ \A i \in 1 .. Len(a) : head[i] = a[i]
        /\ Len(tail) = Len(b) /\ \A i \in 1 .. Len(b) : tail[i] = b[i]
    BY <1>5, FieldSlices
  <2> HIDE DEF head, tail
  <2> QED
    BY <1>5, <2>1
<1> HIDE DEF head, tail
<1>8. Word(head) = j.address
  BY <1>1, <1>7, WordOfBytes DEF Fits, a
<1>9. Word(tail) = j.length
  BY <1>1, <1>7, WordOfBytes DEF Fits, b
<1>10. parse_addr_len_fmt(fmt, a \o b)
         = [ok |-> TRUE, address |-> j.address, mem_size |-> j.length]
  <2>1. /\ {j.addr_len, j.size_len} \subseteq 1 .. WordBytes
        /\ Len(a \o b) >= j.addr_len + j.size_len
    BY <1>1, <1>6, <1>2
  <2> QED
    BY <1>3, <1>5, <1>8, <1>9, <2>1 DEF parse_addr_len_fmt, head, tail
<1>11. j.address \in 0 .. WordMod - 1 /\ j.length \in 0 .. WordMod - 1
  <2>1. j.addr_len \in 0 .. WordBytes /\ j.size_len \in 0 .. WordBytes
    BY <1>1
  <2>2. /\ Power[j.addr_len] \in Nat /\ Power[j.addr_len] <= WordMod
        /\ Power[j.size_len] \in Nat /\ Power[j.size_len] <= WordMod
    BY <2>1, PowerStep, PowerMonotone
  <2>3. WordMod \in Nat
    <3>1. WordBytes \in 0 .. WordBytes
      BY <1>2
    <3> QED
      BY <3>1, PowerStep, ProgrammerAssumption
  <2> QED
    BY <1>1, <2>2, <2>3 DEF Fits
<1> QED
  BY <1>4, <1>10, <1>11

----------------------------------------------------------------------------
(* The ECU's part, whatever block length a request has *)

EcuTh == INSTANCE FlashTransferProofs WITH reply <- ecuReply

\* The constants are what FlashTransferProofs assumes of its own.
LEMMA EcuConstants ==
  EcuTh!SizesAssumption /\ EcuTh!RegionsAssumption
BY EcuAssumption
   DEF Ecu!SizesAssumption, Ecu!RegionsAssumption, Ecu!Region, Ecu!Word,
       EcuTh!SizesAssumption, EcuTh!RegionsAssumption, EcuTh!Region, EcuTh!Word

\* The theorem module's copy of the flash services is the ECU's.
LEMMA EcuSame ==
  /\ Ecu!Init <=> EcuTh!Init
  /\ \A fmt_ok, address, mem_size :
       /\ Ecu!uds_svc_request_download(fmt_ok, address, mem_size)
            <=> EcuTh!uds_svc_request_download(fmt_ok, address, mem_size)
       /\ Ecu!uds_svc_request_upload(fmt_ok, address, mem_size)
            <=> EcuTh!uds_svc_request_upload(fmt_ok, address, mem_size)
  /\ \A seq, bytes :
       Ecu!uds_svc_transfer_data(seq, bytes) <=> EcuTh!uds_svc_transfer_data(seq, bytes)
  /\ Ecu!uds_svc_transfer_exit <=> EcuTh!uds_svc_transfer_exit
<1>1. Ecu!Init <=> EcuTh!Init
  BY DEF Ecu!Init, EcuTh!Init, Ecu!uds_xfer_init, EcuTh!uds_xfer_init,
         Ecu!Cells, EcuTh!Cells, Ecu!NoReply, EcuTh!NoReply
<1>2. ASSUME NEW fmt_ok, NEW address, NEW mem_size
      PROVE  /\ Ecu!uds_svc_request_download(fmt_ok, address, mem_size)
                  <=> EcuTh!uds_svc_request_download(fmt_ok, address, mem_size)
             /\ Ecu!uds_svc_request_upload(fmt_ok, address, mem_size)
                  <=> EcuTh!uds_svc_request_upload(fmt_ok, address, mem_size)
  BY DEF Ecu!uds_svc_request_download, EcuTh!uds_svc_request_download,
         Ecu!uds_svc_request_upload, EcuTh!uds_svc_request_upload,
         Ecu!Refuse, EcuTh!Refuse, Ecu!history, EcuTh!history,
         Ecu!StartXfer, EcuTh!StartXfer, Ecu!uds_flash_erase, EcuTh!uds_flash_erase,
         Ecu!uds_flash_address_valid, EcuTh!uds_flash_address_valid,
         Ecu!Programmable, EcuTh!Programmable, Ecu!find_region, EcuTh!find_region,
         Ecu!Contains, EcuTh!Contains, Ecu!Cells, EcuTh!Cells,
         Ecu!Positive, EcuTh!Positive
<1>3. ASSUME NEW seq, NEW bytes
      PROVE  Ecu!uds_svc_transfer_data(seq, bytes) <=> EcuTh!uds_svc_transfer_data(seq, bytes)
  BY DEF Ecu!uds_svc_transfer_data, EcuTh!uds_svc_transfer_data,
         Ecu!DeviceRefuses, EcuTh!DeviceRefuses, Ecu!Refuse, EcuTh!Refuse,
         Ecu!TransferDownload, EcuTh!TransferDownload,
         Ecu!TransferUpload, EcuTh!TransferUpload, Ecu!history, EcuTh!history,
         Ecu!Advance, EcuTh!Advance, Ecu!NextBlockSeq, EcuTh!NextBlockSeq,
         Ecu!uds_flash_write, EcuTh!uds_flash_write,
         Ecu!uds_flash_read, EcuTh!uds_flash_read,
         Ecu!uds_flash_address_valid, EcuTh!uds_flash_address_valid,
         Ecu!Programmable, EcuTh!Programmable, Ecu!find_region, EcuTh!find_region,
         Ecu!Contains, EcuTh!Contains, Ecu!Cells, EcuTh!Cells,
         Ecu!Remaining, EcuTh!Remaining, Ecu!Position, EcuTh!Position,
         Ecu!ToRead, EcuTh!ToRead, Ecu!Positive, EcuTh!Positive,
         Ecu!NoReply, EcuTh!NoReply
<1>4. Ecu!uds_svc_transfer_exit <=> EcuTh!uds_svc_transfer_exit
  BY DEF Ecu!uds_svc_transfer_exit, EcuTh!uds_svc_transfer_exit,
         Ecu!Refuse, EcuTh!Refuse, Ecu!history, EcuTh!history,
         Ecu!uds_xfer_init, EcuTh!uds_xfer_init, Ecu!Positive, EcuTh!Positive
<1> QED
  BY <1>1, <1>2, <1>3, <1>4

\* FlashTransfer's invariant, in the ECU.
EcuInv == EcuTh!IInv

Sids == {"34", "35", "36", "37"}
Starts == {"34", "35"}
StartSid(j) == IF j.kind = "download" THEN "34" ELSE "35"
ModeOf(sid) == IF sid = "34" THEN "DOWNLOAD" ELSE "UPLOAD"

\* The requests the tester sends.
FittingJobs == {j \in Jobs : Fits(j)}
StartRequests == {StartRequest(j) : j \in FittingJobs}
BlockRequests == {Request("36", sn, bytes) : sn \in 1 .. SeqMax, bytes \in Seq(Byte)}
ExitRequest == Request("37", 0, <<>>)
Requests == StartRequests \cup BlockRequests \cup {ExitRequest}

Answers == Ecu!Replies \cup {"RESPONSE_PENDING"}
Responses == [sid : Sids, ok : BOOLEAN, nrc : Answers, bytes : Seq(Byte)]

\* The tester's requests are for the four transfer services.
LEMMA RequestSids == \A r \in Requests : r.sid \in Sids
<1> SUFFICES ASSUME NEW r \in Requests PROVE r.sid \in Sids
  OBVIOUS
<1>1. CASE r \in StartRequests
  <2>1. PICK j \in FittingJobs : r = StartRequest(j)
    BY <1>1 DEF StartRequests
  <2>2. j \in Jobs /\ Fits(j)
    BY DEF FittingJobs
  <2>3. r.sid = StartSid(j)
    BY <2>1, <2>2, RequestParsed DEF StartSid
  <2> QED
    BY <2>3 DEF StartSid, Sids
<1>2. CASE r \in BlockRequests
  BY <1>2 DEF BlockRequests, Request, Sids
<1>3. CASE r = ExitRequest
  BY <1>3 DEF ExitRequest, Request, Sids
<1> QED
  BY <1>1, <1>2, <1>3 DEF Requests

\* 0x34 and 0x35: the answer is positive exactly when the job's transfer starts.
LEMMA StartHandled ==
  ASSUME EcuInv, NEW j \in FittingJobs, EcuHandles(StartRequest(j))
  PROVE  /\ EcuInv'
         /\ ecuReply' \in Ecu!Replies \ {Ecu!NoReply}
         /\ ecuReply' = Ecu!Positive =>
              /\ xfer.mode = "IDLE"
              /\ xfer' = [mode |-> ModeOf(StartSid(j)), address |-> j.address,
                          total_length |-> j.length, transferred |-> 0, block_seq |-> 1]
              /\ image' = <<>>
         /\ ecuReply' # Ecu!Positive => UNCHANGED <<xfer, image>>
         /\ xfer.mode = "IDLE" /\ Accepted(j) => ecuReply' = Ecu!Positive
<1>1. /\ parse_addr_len_fmt(StartRequest(j).fmt, StartRequest(j).bytes)
             = [ok |-> TRUE, address |-> j.address, mem_size |-> j.length]
      /\ j.address \in EcuTh!Word /\ j.length \in EcuTh!Word
      /\ StartRequest(j).sid = StartSid(j)
  BY RequestParsed DEF FittingJobs, EcuTh!Word, StartSid
<1>2. CASE j.kind = "download"
  <2>0. Ecu!uds_svc_request_download(TRUE, j.address, j.length)
    <3> DEFINE r == StartRequest(j)
               p == parse_addr_len_fmt(r.fmt, r.bytes)
    <3>1. r.sid = "34" /\ p.ok = TRUE /\ p.address = j.address /\ p.mem_size = j.length
      BY <1>1, <1>2 DEF StartSid
    <3>2. EcuHandles(r)
      OBVIOUS
    <3> HIDE DEF r
    <3>3. Ecu!uds_svc_request_download(p.ok, p.address, p.mem_size)
      BY <3>1, <3>2 DEF EcuHandles
    <3> QED
      BY <3>1, <3>3, Zenon
  <2>1. EcuTh!uds_svc_request_download(TRUE, j.address, j.length)
    BY <2>0, EcuSame
  <2>2. xfer.mode = "IDLE" /\ Accepted(j) => ecuReply' = Ecu!Positive
    BY <1>2, <2>0 DEF Accepted, Ecu!uds_svc_request_download, Ecu!Programmable,
                      Ecu!uds_flash_address_valid, Ecu!StartXfer
  <2>3. CASE \E nrc \in EcuTh!Nrcs : EcuTh!Refuse(nrc)
    <3>1. PICK nrc \in EcuTh!Nrcs : EcuTh!Refuse(nrc)
      BY <2>3
    <3>2. /\ ecuReply' = nrc /\ nrc \in EcuTh!Replies
          /\ UNCHANGED <<data, xfer, EcuTh!history>>
      BY <3>1 DEF EcuTh!Refuse, EcuTh!Replies
    <3>3. EcuInv'
      BY <3>2, EcuTh!ReplyOnlyInv, EcuConstants DEF EcuInv
    <3>4. nrc \in Ecu!Replies \ {Ecu!NoReply} /\ nrc # Ecu!Positive
      BY <3>1 DEF EcuTh!Nrcs, Ecu!Replies, Ecu!Nrcs, Ecu!NoReply, Ecu!Positive
    <3> QED
      BY <2>2, <3>2, <3>3, <3>4 DEF EcuTh!history
  <2>4. CASE /\ xfer.mode = "IDLE" /\ EcuTh!Programmable(j.address, j.length)
             /\ data' = EcuTh!uds_flash_erase(j.address, j.length)
             /\ EcuTh!StartXfer("DOWNLOAD", j.address, j.length)
    <3>1. EcuInv'
      BY <1>1, <2>4, EcuTh!StartDownloadInv, EcuConstants DEF EcuInv
    <3> QED
      BY <1>2, <2>4, <3>1
         DEF EcuTh!StartXfer, EcuTh!Positive, Ecu!Positive, Ecu!Replies, Ecu!NoReply,
             ModeOf, StartSid
  <2> QED
    BY <2>1, <2>2, <2>3, <2>4 DEF EcuTh!uds_svc_request_download, EcuTh!Nrcs
<1>3. CASE j.kind # "download"
  <2>0. Ecu!uds_svc_request_upload(TRUE, j.address, j.length)
    <3> DEFINE r == StartRequest(j)
               p == parse_addr_len_fmt(r.fmt, r.bytes)
    <3>1. r.sid = "35" /\ p.ok = TRUE /\ p.address = j.address /\ p.mem_size = j.length
      BY <1>1, <1>3 DEF StartSid
    <3>2. EcuHandles(r)
      OBVIOUS
    <3> HIDE DEF r
    <3>3. Ecu!uds_svc_request_upload(p.ok, p.address, p.mem_size)
      BY <3>1, <3>2 DEF EcuHandles
    <3> QED
      BY <3>1, <3>3, Zenon
  <2>1. EcuTh!uds_svc_request_upload(TRUE, j.address, j.length)
    BY <2>0, EcuSame
  <2>2. xfer.mode = "IDLE" /\ Accepted(j) => ecuReply' = Ecu!Positive
    BY <1>3, <2>0 DEF Accepted, Ecu!uds_svc_request_upload, Ecu!StartXfer
  <2>3. CASE \E nrc \in EcuTh!Nrcs : EcuTh!Refuse(nrc)
    <3>1. PICK nrc \in EcuTh!Nrcs : EcuTh!Refuse(nrc)
      BY <2>3
    <3>2. /\ ecuReply' = nrc /\ nrc \in EcuTh!Replies
          /\ UNCHANGED <<data, xfer, EcuTh!history>>
      BY <3>1 DEF EcuTh!Refuse, EcuTh!Replies
    <3>3. EcuInv'
      BY <3>2, EcuTh!ReplyOnlyInv, EcuConstants DEF EcuInv
    <3>4. nrc \in Ecu!Replies \ {Ecu!NoReply} /\ nrc # Ecu!Positive
      BY <3>1 DEF EcuTh!Nrcs, Ecu!Replies, Ecu!Nrcs, Ecu!NoReply, Ecu!Positive
    <3> QED
      BY <2>2, <3>2, <3>3, <3>4 DEF EcuTh!history
  <2>4. CASE /\ xfer.mode = "IDLE" /\ EcuTh!uds_flash_address_valid(j.address, j.length)
             /\ UNCHANGED data
             /\ EcuTh!StartXfer("UPLOAD", j.address, j.length)
    <3>1. EcuInv'
      BY <1>1, <2>4, EcuTh!StartUploadInv, EcuConstants DEF EcuInv
    <3> QED
      BY <1>3, <2>4, <3>1
         DEF EcuTh!StartXfer, EcuTh!Positive, Ecu!Positive, Ecu!Replies, Ecu!NoReply,
             ModeOf, StartSid
  <2> QED
    BY <2>1, <2>2, <2>3, <2>4 DEF EcuTh!uds_svc_request_upload, EcuTh!Nrcs
<1> QED
  BY <1>2, <1>3

\* 0x36: the mode of the transfer stays, the only request without an answer is an
\* empty block of a download, and a positive answer takes the next block.
LEMMA BlockHandled ==
  ASSUME EcuInv, NEW sn, NEW bytes \in Seq(Byte), EcuHandles(Request("36", sn, bytes))
  PROVE  /\ EcuInv'
         /\ ecuReply' \in Ecu!Replies
         /\ ecuReply' = Ecu!NoReply => bytes = <<>> /\ xfer.mode = "DOWNLOAD"
         /\ xfer'.mode = xfer.mode
         /\ ecuReply' = Ecu!Positive =>
              /\ xfer.mode # "IDLE"
              /\ \E b \in Seq(Byte) :
                   /\ xfer.mode = "DOWNLOAD" => b = bytes
                   /\ image' = image \o b
                   /\ xfer'.address = xfer.address
                   /\ xfer'.total_length = xfer.total_length
                   /\ xfer'.transferred = xfer.transferred + Len(b)
                   /\ xfer'.block_seq = NextSn(xfer.block_seq)
         /\ /\ xfer.mode # "IDLE" /\ sn = xfer.block_seq
            /\ xfer.transferred < xfer.total_length
            /\ xfer.mode = "DOWNLOAD" =>
                 bytes # <<>> /\ Len(bytes) <= xfer.total_length - xfer.transferred
            => ecuReply' = Ecu!Positive
<1>1. EcuTh!uds_svc_transfer_data(sn, bytes)
  <2>1. Ecu!uds_svc_transfer_data(sn, bytes)
    BY DEF EcuHandles, Request
  <2> QED
    BY <2>1, EcuSame
<1>2. EcuInv'
  BY <1>1, EcuTh!TransferDataInv, EcuConstants DEF EcuInv
<1>3. ecuReply' \in Ecu!Replies
  BY <1>2 DEF EcuInv, EcuTh!IInv, EcuTh!TypeOK, EcuTh!Replies, EcuTh!Nrcs, EcuTh!NoReply,
              EcuTh!Positive, Ecu!Replies, Ecu!Nrcs, Ecu!NoReply, Ecu!Positive
<1>4. ecuReply' = Ecu!NoReply => bytes = <<>> /\ xfer.mode = "DOWNLOAD"
  BY <1>1 DEF EcuTh!uds_svc_transfer_data, EcuTh!Refuse, EcuTh!TransferDownload,
              EcuTh!TransferUpload, EcuTh!Advance, EcuTh!Positive, EcuTh!NoReply, Ecu!NoReply
<1>5. xfer \in EcuTh!Xfer /\ xfer' \in EcuTh!Xfer
  BY <1>2 DEF EcuInv, EcuTh!IInv, EcuTh!TypeOK
<1>6. ecuReply' = Ecu!Positive =>
        /\ xfer.mode # "IDLE"
        /\ \E b \in Seq(Byte) :
             /\ xfer.mode = "DOWNLOAD" => b = bytes
             /\ image' = image \o b
             /\ xfer'.address = xfer.address
             /\ xfer'.total_length = xfer.total_length
             /\ xfer'.transferred = xfer.transferred + Len(b)
             /\ xfer'.block_seq = NextSn(xfer.block_seq)
  <2> SUFFICES ASSUME ecuReply' = Ecu!Positive
               PROVE  /\ xfer.mode # "IDLE"
                      /\ \E b \in Seq(Byte) :
                           /\ xfer.mode = "DOWNLOAD" => b = bytes
                           /\ image' = image \o b
                           /\ xfer'.address = xfer.address
                           /\ xfer'.total_length = xfer.total_length
                           /\ xfer'.transferred = xfer.transferred + Len(b)
                           /\ xfer'.block_seq = NextSn(xfer.block_seq)
    OBVIOUS
  <2>1. ecuReply' = EcuTh!Positive
    BY DEF Ecu!Positive, EcuTh!Positive
  <2>2. /\ xfer.mode # "IDLE"
        /\ \E b \in Seq(Byte) :
              /\ xfer.mode = "DOWNLOAD" => b = bytes
              /\ image' = image \o b
              /\ xfer'.mode = xfer.mode
              /\ xfer'.address = xfer.address
              /\ xfer'.total_length = xfer.total_length
              /\ xfer'.transferred = xfer.transferred + Len(b)
              /\ xfer'.block_seq = EcuTh!NextBlockSeq(xfer.block_seq)
    BY <1>1, <2>1, EcuTh!BlockAccepted, EcuConstants DEF EcuInv
  <2>3. EcuTh!NextBlockSeq(xfer.block_seq) = NextSn(xfer.block_seq)
    BY <1>5, EcuConstants DEF EcuTh!NextBlockSeq, NextSn, EcuTh!Xfer, EcuTh!SizesAssumption
  <2> QED
    BY <2>2, <2>3
<1>7. xfer'.mode = xfer.mode
  BY <1>1, <1>5 DEF EcuTh!uds_svc_transfer_data, EcuTh!Refuse, EcuTh!TransferDownload,
              EcuTh!TransferUpload, EcuTh!Advance, EcuTh!Xfer
<1>8. ASSUME xfer.mode # "IDLE", sn = xfer.block_seq,
             xfer.transferred < xfer.total_length,
             xfer.mode = "DOWNLOAD" =>
               bytes # <<>> /\ Len(bytes) <= xfer.total_length - xfer.transferred
      PROVE  ecuReply' = Ecu!Positive
  <2>1. ecuReply' = EcuTh!Positive
    BY <1>1, <1>8, EcuTh!BlockGranted, EcuConstants DEF EcuInv
  <2> QED
    BY <2>1 DEF EcuTh!Positive, Ecu!Positive
<1> QED
  BY <1>2, <1>3, <1>4, <1>6, <1>7, <1>8

\* 0x37 ends the transfer and leaves the flash alone.
LEMMA ExitHandled ==
  ASSUME EcuInv, EcuHandles(ExitRequest)
  PROVE  /\ EcuInv'
         /\ ecuReply' \in Ecu!Replies \ {Ecu!NoReply}
         /\ xfer'.mode = "IDLE"
         /\ data' = data
         /\ xfer.mode # "IDLE" => ecuReply' = Ecu!Positive
<1>1. EcuTh!uds_svc_transfer_exit
  <2>1. Ecu!uds_svc_transfer_exit
    BY DEF EcuHandles, ExitRequest, Request
  <2> QED
    BY <2>1, EcuSame
<1>2. EcuInv'
  BY <1>1, EcuTh!ExitInv, EcuConstants DEF EcuInv
<1> QED
  BY <1>1, <1>2 DEF EcuTh!uds_svc_transfer_exit, EcuTh!Refuse, EcuTh!Positive,
         EcuTh!uds_xfer_init, Ecu!Replies, Ecu!NoReply, Ecu!Positive, Ecu!Nrcs, EcuTh!history

----------------------------------------------------------------------------
(* What an aborted call leaves behind, while no PDU is lost: p are the     *)
(* responses and q the requests in flight, mode is the ECU's transfer mode.*)
(* The final responses of p and then the requests of q are answers taken   *)
(* and still to be taken, in one order.                                    *)

Final(r) == r.nrc # "RESPONSE_PENDING"
Finals(p) == {i \in 1 .. Len(p) : Final(p[i])}
OkStart(r) == r.ok /\ r.sid \in Starts

\* A 0x37 comes before everything else.
ExitFirst(p, q) ==
  /\ \A i, j \in Finals(p) : i < j => p[j].sid # "37"
  /\ \A k \in 1 .. Len(q) : q[k].sid = "37" => k = 1 /\ Finals(p) = {}

\* At most one transfer start was answered positively, that of the transfer.
OneStart(p, mode) ==
  \A i \in Finals(p) : OkStart(p[i]) =>
    /\ mode = ModeOf(p[i].sid)
    /\ \A j \in Finals(p) : OkStart(p[j]) => j = i

BlockBehind(p, q) ==
  \/ \E i, j \in Finals(p) : i < j /\ p[j].sid = "36"
  \/ \E k \in 1 .. Len(q) : q[k].sid = "36" /\ (k > 1 \/ Finals(p) # {})

\* A 0x36 with something before it: the transfer it went to is still active, and
\* no answer that starts or ends one is left.
BlockStuck(p, q, mode) ==
  BlockBehind(p, q) =>
    /\ mode # "IDLE"
    /\ \A i \in Finals(p) : p[i].sid # "37" /\ ~ OkStart(p[i])
    /\ \A k \in 1 .. Len(q) : q[k].sid # "37"

\* No request of q is the one the ECU leaves without an answer.
AllAnswered(q, mode) ==
  \A k \in 1 .. Len(q) : q[k].sid = "36" /\ q[k].bytes = <<>> => mode # "DOWNLOAD"

\* RESPONSE_PENDING is followed by a final response.
FinalFollows(p, q) == q = <<>> /\ p # <<>> => Final(p[Len(p)])

Leftover(p, q, mode) ==
  /\ ExitFirst(p, q)
  /\ OneStart(p, mode)
  /\ BlockStuck(p, q, mode)
  /\ AllAnswered(q, mode)
  /\ FinalFollows(p, q)

\* More than one answer is under way.
Several(p, q) ==
  \/ \E i, j \in Finals(p) : i < j
  \/ Finals(p) # {} /\ q # <<>>
  \/ Len(q) > 1

\* The first of them is that to a transfer start.
StartFirst(p, q) ==
  \/ \E i \in Finals(p) : p[i].sid \in Starts /\ \A j \in Finals(p) : i <= j
  \/ Finals(p) = {} /\ q # <<>> /\ q[1].sid \in Starts

\* The head of a sequence leaves it.
LEMMA TailElements ==
  ASSUME NEW S, NEW s \in Seq(S), s # <<>>
  PROVE  /\ Tail(s) \in Seq(S) /\ Len(Tail(s)) = Len(s) - 1
         /\ Len(s) \in Nat \ {0}
         /\ \A i \in 1 .. Len(s) - 1 : Tail(s)[i] = s[i + 1]
         /\ Head(s) = s[1] /\ s[1] \in S
<1>1. Len(s) \in Nat \ {0}
  BY EmptySeq
<1> QED
  BY <1>1

\* Final responses of the tail.
LEMMA FinalsOfTail ==
  ASSUME NEW p \in Seq(Responses), p # <<>>
  PROVE  /\ \A i \in Finals(Tail(p)) : /\ i + 1 \in Finals(p) /\ i \in Nat \ {0}
                                       /\ Tail(p)[i] = p[i + 1]
         /\ \A i \in Finals(p) : i = 1 \/ (i - 1 \in Finals(Tail(p)) /\ Tail(p)[i - 1] = p[i])
         /\ Finals(p) \subseteq Nat \ {0}
BY TailElements DEF Finals

\* Final responses of a longer queue.
LEMMA FinalsOfAppend ==
  ASSUME NEW p \in Seq(Responses), NEW r \in Responses
  PROVE  /\ Finals(Append(p, r)) =
              Finals(p) \cup (IF Final(r) THEN {Len(p) + 1} ELSE {})
         /\ \A i \in Finals(p) : /\ Append(p, r)[i] = p[i]
                                 /\ i \in Nat \ {0} /\ i < Len(p) + 1
         /\ Append(p, r)[Len(p) + 1] = r
         /\ Append(p, r) \in Seq(Responses) /\ Len(Append(p, r)) = Len(p) + 1
BY DEF Finals

\* The client takes a response, or the bus loses it.
LEMMA LeftoverTail ==
  ASSUME NEW p \in Seq(Responses), p # <<>>, NEW q \in Seq(Requests), NEW mode,
         Leftover(p, q, mode)
  PROVE  Leftover(Tail(p), q, mode)
<1> DEFINE t == Tail(p)
<1>1. /\ \A i \in Finals(t) : i + 1 \in Finals(p) /\ i \in Nat \ {0} /\ t[i] = p[i + 1]
      /\ Finals(p) \subseteq Nat \ {0}
  BY FinalsOfTail
<1>2. Finals(t) # {} => Finals(p) # {}
  BY <1>1
<1> HIDE DEF t
<1>3. ExitFirst(t, q)
  <2>1. ASSUME NEW i \in Finals(t), NEW j \in Finals(t), i < j PROVE t[j].sid # "37"
    <3>1. i + 1 \in Finals(p) /\ j + 1 \in Finals(p) /\ i + 1 < j + 1 /\ t[j] = p[j + 1]
      BY <1>1, <2>1
    <3> QED
      BY <3>1 DEF Leftover, ExitFirst
  <2> QED
    BY <1>2, <2>1 DEF Leftover, ExitFirst
<1>4. OneStart(t, mode)
  <2>1. ASSUME NEW i \in Finals(t), OkStart(t[i])
        PROVE  mode = ModeOf(t[i].sid) /\ \A j \in Finals(t) : OkStart(t[j]) => j = i
    <3>1. i + 1 \in Finals(p) /\ t[i] = p[i + 1]
      BY <1>1
    <3>2. ASSUME NEW j \in Finals(t), OkStart(t[j]) PROVE j = i
      <4>1. j + 1 \in Finals(p) /\ t[j] = p[j + 1] /\ i \in Nat /\ j \in Nat
        BY <1>1
      <4>2. j + 1 = i + 1
        BY <2>1, <3>1, <3>2, <4>1 DEF Leftover, OneStart
      <4> QED
        BY <4>1, <4>2
    <3> QED
      BY <2>1, <3>1, <3>2 DEF Leftover, OneStart
  <2> QED
    BY <2>1 DEF OneStart
<1>5. BlockStuck(t, q, mode)
  <2> SUFFICES ASSUME BlockBehind(t, q)
               PROVE  /\ mode # "IDLE"
                      /\ \A i \in Finals(t) : t[i].sid # "37" /\ ~ OkStart(t[i])
                      /\ \A k \in 1 .. Len(q) : q[k].sid # "37"
    BY DEF BlockStuck
  <2>1. BlockBehind(p, q)
    <3>1. ASSUME NEW i \in Finals(t), NEW j \in Finals(t), i < j, t[j].sid = "36"
          PROVE  BlockBehind(p, q)
      <4>1. i + 1 \in Finals(p) /\ j + 1 \in Finals(p) /\ i + 1 < j + 1 /\ t[j] = p[j + 1]
        BY <1>1, <3>1
      <4> QED
        BY <3>1, <4>1 DEF BlockBehind
    <3> QED
      BY <1>2, <3>1 DEF BlockBehind
  <2> QED
    BY <1>1, <2>1 DEF Leftover, BlockStuck
<1>6. FinalFollows(t, q)
  <2> SUFFICES ASSUME q = <<>>, t # <<>> PROVE Final(t[Len(t)])
    BY DEF FinalFollows
  <2>1. Final(p[Len(p)])
    BY DEF Leftover, FinalFollows
  <2>2. /\ Len(p) \in Nat \ {0} /\ Len(t) = Len(p) - 1 /\ t \in Seq(Responses)
        /\ \A i \in 1 .. Len(p) - 1 : t[i] = p[i + 1]
    BY TailElements DEF t
  <2>3. Len(t) \in Nat \ {0}
    BY <2>2, EmptySeq
  <2>4. t[Len(t)] = p[Len(p)]
    BY <2>2, <2>3
  <2> QED
    BY <2>1, <2>4
<1> QED
  BY <1>3, <1>4, <1>5, <1>6 DEF Leftover, t

\* An element joins a sequence.
LEMMA AppendElements ==
  ASSUME NEW S, NEW s \in Seq(S), NEW e \in S
  PROVE  /\ Append(s, e) \in Seq(S) /\ Len(Append(s, e)) = Len(s) + 1 /\ Len(s) \in Nat
         /\ \A i \in 1 .. Len(s) : Append(s, e)[i] = s[i]
         /\ Append(s, e)[Len(s) + 1] = e
         /\ Append(s, e) # <<>>
<1>1. Len(Append(s, e)) = Len(s) + 1 /\ Len(s) \in Nat
  OBVIOUS
<1>2. Len(Append(s, e)) # 0
  BY <1>1
<1>3. Append(s, e) # <<>>
  BY <1>2, EmptySeq
<1> QED
  BY <1>3

\* The client sends a request: the first of a call, one with nothing in flight,
\* or a block to the transfer that is active for good.
LEMMA LeftoverSend ==
  ASSUME NEW p \in Seq(Responses), NEW q \in Seq(Requests), NEW mode,
         Leftover(p, q, mode), NEW r \in Requests,
         \/ r.sid \in Starts
         \/ Finals(p) = {} /\ q = <<>>
         \/ /\ r.sid = "36" /\ mode # "IDLE"
            /\ \A i \in Finals(p) : p[i].sid # "37" /\ ~ OkStart(p[i])
            /\ \A k \in 1 .. Len(q) : q[k].sid # "37",
         r.sid = "36" /\ r.bytes = <<>> => mode # "DOWNLOAD"
  PROVE  Leftover(p, Append(q, r), mode)
<1> DEFINE a == Append(q, r)
<1>1. /\ Len(q) \in Nat /\ Len(a) = Len(q) + 1 /\ a # <<>>
      /\ \A k \in 1 .. Len(q) : a[k] = q[k]
      /\ a[Len(q) + 1] = r
  BY AppendElements
<1>2. \A k \in 1 .. Len(a) : k \in 1 .. Len(q) \/ k = Len(q) + 1
  BY <1>1
<1>3. q = <<>> => Len(q) = 0
  BY EmptySeq
<1> HIDE DEF a
<1>4. ExitFirst(p, a)
  <2>1. ASSUME NEW k \in 1 .. Len(a), a[k].sid = "37" PROVE k = 1 /\ Finals(p) = {}
    <3>1. CASE k \in 1 .. Len(q)
      BY <1>1, <2>1, <3>1 DEF Leftover, ExitFirst
    <3>2. CASE k = Len(q) + 1
      BY <1>1, <1>3, <2>1, <3>2 DEF Starts
    <3> QED
      BY <1>2, <3>1, <3>2
  <2> QED
    BY <2>1 DEF Leftover, ExitFirst
<1>5. BlockStuck(p, a, mode)
  <2> SUFFICES ASSUME BlockBehind(p, a)
               PROVE  /\ mode # "IDLE"
                      /\ \A i \in Finals(p) : p[i].sid # "37" /\ ~ OkStart(p[i])
                      /\ \A k \in 1 .. Len(a) : a[k].sid # "37"
    BY DEF BlockStuck
  <2>1. CASE BlockBehind(p, q)
    <3>1. /\ mode # "IDLE"
          /\ \A i \in Finals(p) : p[i].sid # "37" /\ ~ OkStart(p[i])
          /\ \A k \in 1 .. Len(q) : q[k].sid # "37"
      BY <2>1 DEF Leftover, BlockStuck
    <3>2. r.sid # "37"
      BY <1>3, <2>1 DEF BlockBehind, Starts
    <3> QED
      BY <1>1, <1>2, <3>1, <3>2
  <2>2. CASE ~ BlockBehind(p, q)
    <3>1. /\ r.sid = "36" /\ (Len(q) + 1 > 1 \/ Finals(p) # {})
      BY <1>1, <1>2, <2>2 DEF BlockBehind
    <3>2. /\ mode # "IDLE"
          /\ \A i \in Finals(p) : p[i].sid # "37" /\ ~ OkStart(p[i])
          /\ \A k \in 1 .. Len(q) : q[k].sid # "37"
      BY <1>1, <1>3, <3>1 DEF Starts
    <3> QED
      BY <1>1, <1>2, <3>1, <3>2
  <2> QED
    BY <2>1, <2>2
<1>6. AllAnswered(a, mode)
  BY <1>1, <1>2 DEF Leftover, AllAnswered
<1>7. FinalFollows(p, a)
  BY <1>1 DEF FinalFollows
<1> QED
  BY <1>4, <1>5, <1>6, <1>7 DEF Leftover, a

\* The ECU announces that its answer takes longer.
LEMMA LeftoverPending ==
  ASSUME NEW p \in Seq(Responses), NEW q \in Seq(Requests), NEW mode,
         Leftover(p, q, mode), q # <<>>, NEW r \in Responses, ~ Final(r)
  PROVE  /\ Leftover(Append(p, r), q, mode)
         /\ Several(p, q) => Several(Append(p, r), q)
         /\ StartFirst(p, q) => StartFirst(Append(p, r), q)
<1> DEFINE a == Append(p, r)
<1>1. /\ Finals(a) = Finals(p)
      /\ \A i \in Finals(p) : a[i] = p[i]
  <2>1. /\ Finals(a) = Finals(p) \cup (IF Final(r) THEN {Len(p) + 1} ELSE {})
        /\ \A i \in Finals(p) : a[i] = p[i]
    BY FinalsOfAppend
  <2> HIDE DEF a
  <2> QED
    BY <2>1
<1> HIDE DEF a
<1>2. BlockBehind(a, q) => BlockBehind(p, q)
  BY <1>1 DEF BlockBehind
<1>3. Leftover(a, q, mode)
  BY <1>1, <1>2 DEF Leftover, ExitFirst, OneStart, BlockStuck, FinalFollows
<1>4. Several(p, q) => Several(a, q)
  BY <1>1 DEF Several
<1>5. StartFirst(p, q) => StartFirst(a, q)
  BY <1>1 DEF StartFirst
<1> QED
  BY <1>3, <1>4, <1>5 DEF a

\* The ECU answers the first request: a transfer starts only when none is active,
\* and only a 0x37 ends one.
LEMMA LeftoverAnswer ==
  ASSUME NEW p \in Seq(Responses), NEW q \in Seq(Requests), q # <<>>,
         NEW mode, NEW after, Leftover(p, q, mode),
         NEW r \in Responses, Final(r), r.sid = Head(q).sid,
         r.sid \in Starts => \/ r.ok /\ mode = "IDLE" /\ after = ModeOf(r.sid)
                             \/ ~ r.ok /\ after = mode,
         r.sid = "36" => after = mode
  PROVE  /\ Leftover(Append(p, r), Tail(q), after)
         /\ Several(p, q) => Several(Append(p, r), Tail(q))
         /\ StartFirst(p, q) => StartFirst(Append(p, r), Tail(q))
<1> DEFINE a == Append(p, r)
           t == Tail(q)
           n == Len(p) + 1
<1>1. /\ Finals(a) = Finals(p) \cup {n} /\ n \in Nat
      /\ \A i \in Finals(p) : a[i] = p[i] /\ i \in Nat \ {0} /\ i < n
      /\ a[n] = r /\ Len(a) = n /\ a \in Seq(Responses)
  BY FinalsOfAppend
<1>2. /\ Len(q) \in Nat \ {0} /\ Len(t) = Len(q) - 1 /\ q[1].sid = r.sid
      /\ \A k \in 1 .. Len(t) : t[k] = q[k + 1] /\ k + 1 \in 1 .. Len(q) /\ k + 1 > 1
      /\ t \in Seq(Requests) /\ 1 \in 1 .. Len(q)
  BY TailElements
<1> HIDE DEF a, t, n
<1>3. r.sid \in Sids
  BY DEF Responses
<1>4. r.sid = "37" => Finals(p) = {}
  BY <1>2 DEF Leftover, ExitFirst
<1>5. \A k \in 1 .. Len(t) : t[k].sid # "37"
  <2> SUFFICES ASSUME NEW k \in 1 .. Len(t), t[k].sid = "37" PROVE FALSE
    OBVIOUS
  <2>1. k + 1 \in 1 .. Len(q) /\ k + 1 > 1 /\ q[k + 1].sid = "37"
    BY <1>2
  <2> QED
    BY <2>1 DEF Leftover, ExitFirst
<1>6. ExitFirst(a, t)
  BY <1>1, <1>4, <1>5 DEF Leftover, ExitFirst
<1>7. BlockBehind(a, t) => BlockBehind(p, q)
  <2>1. ASSUME NEW i \in Finals(a), NEW j \in Finals(a), i < j, a[j].sid = "36"
        PROVE  BlockBehind(p, q)
    <3>1. i \in Finals(p)
      BY <1>1, <2>1
    <3>2. CASE j \in Finals(p)
      BY <1>1, <2>1, <3>1, <3>2 DEF BlockBehind
    <3>3. CASE j = n
      BY <1>1, <1>2, <2>1, <3>1, <3>3 DEF BlockBehind
    <3> QED
      BY <1>1, <3>2, <3>3
  <2>2. ASSUME NEW k \in 1 .. Len(t), t[k].sid = "36"
        PROVE  BlockBehind(p, q)
    <3>1. k + 1 \in 1 .. Len(q) /\ k + 1 > 1 /\ q[k + 1].sid = "36"
      BY <1>2, <2>2
    <3> QED
      BY <3>1 DEF BlockBehind
  <2> QED
    BY <2>1, <2>2 DEF BlockBehind
<1>8. BlockBehind(p, q) => after = mode /\ mode # "IDLE" /\ r.sid # "37" /\ ~ OkStart(r)
  <2>1. BlockBehind(p, q) => mode # "IDLE" /\ r.sid # "37"
    BY <1>2 DEF Leftover, BlockStuck
  <2> QED
    BY <1>3, <2>1 DEF OkStart, Sids, Starts
<1>9. OneStart(a, after)
  <2> SUFFICES ASSUME NEW i \in Finals(a), OkStart(a[i])
               PROVE  /\ after = ModeOf(a[i].sid)
                      /\ \A j \in Finals(a) : OkStart(a[j]) => j = i
    BY DEF OneStart
  <2>1. \A s : ModeOf(s) # "IDLE"
    BY DEF ModeOf
  <2>2. CASE i \in Finals(p)
    <3>1. a[i] = p[i] /\ OkStart(p[i])
      BY <1>1, <2>2
    <3>2. /\ mode = ModeOf(p[i].sid)
          /\ \A j \in Finals(p) : OkStart(p[j]) => j = i
      BY <2>2, <3>1 DEF Leftover, OneStart
    <3>3. after = mode /\ ~ OkStart(r)
      BY <1>3, <1>4, <2>1, <2>2, <3>2 DEF Sids, Starts, OkStart
    <3> QED
      BY <1>1, <3>1, <3>2, <3>3
  <2>3. CASE i = n
    <3>1. OkStart(r)
      BY <1>1, <2>3
    <3>2. mode = "IDLE" /\ after = ModeOf(r.sid)
      BY <3>1 DEF OkStart
    <3>3. \A j \in Finals(p) : ~ OkStart(p[j])
      BY <2>1, <3>2 DEF Leftover, OneStart
    <3> QED
      BY <1>1, <2>3, <3>2, <3>3
  <2> QED
    BY <1>1, <2>2, <2>3
<1>10. BlockStuck(a, t, after)
  <2> SUFFICES ASSUME BlockBehind(a, t)
               PROVE  /\ after # "IDLE"
                      /\ \A i \in Finals(a) : a[i].sid # "37" /\ ~ OkStart(a[i])
                      /\ \A k \in 1 .. Len(t) : t[k].sid # "37"
    BY DEF BlockStuck
  <2>1. BlockBehind(p, q)
    BY <1>7
  <2>2. \A i \in Finals(p) : p[i].sid # "37" /\ ~ OkStart(p[i])
    BY <2>1 DEF Leftover, BlockStuck
  <2> QED
    BY <1>1, <1>5, <1>8, <2>1, <2>2
<1>11. AllAnswered(t, after)
  <2> SUFFICES ASSUME NEW k \in 1 .. Len(t), t[k].sid = "36", t[k].bytes = <<>>
               PROVE  after # "DOWNLOAD"
    BY DEF AllAnswered
  <2>1. k + 1 \in 1 .. Len(q) /\ k + 1 > 1 /\ q[k + 1].sid = "36" /\ q[k + 1].bytes = <<>>
    BY <1>2
  <2>2. BlockBehind(p, q)
    BY <2>1 DEF BlockBehind
  <2>3. mode # "DOWNLOAD"
    BY <2>1 DEF Leftover, AllAnswered
  <2> QED
    BY <1>8, <2>2, <2>3
<1>12. FinalFollows(a, t)
  BY <1>1 DEF FinalFollows
<1>13. Several(p, q) => Several(a, t)
  <2>1. ASSUME NEW i \in Finals(p) PROVE Several(a, t)
    BY <1>1 DEF Several
  <2>2. CASE Len(q) > 1
    <3>1. Len(t) # 0
      BY <1>2, <2>2
    <3>2. t # <<>>
      BY <3>1, EmptySeq
    <3> QED
      BY <1>1, <3>2 DEF Several
  <2> QED
    BY <2>1, <2>2 DEF Several
<1>14. StartFirst(p, q) => StartFirst(a, t)
  <2>1. ASSUME NEW i \in Finals(p), p[i].sid \in Starts, \A j \in Finals(p) : i <= j
        PROVE  StartFirst(a, t)
    BY <1>1, <2>1 DEF StartFirst
  <2>2. CASE Finals(p) = {} /\ q[1].sid \in Starts
    BY <1>1, <1>2, <2>2 DEF StartFirst
  <2> QED
    BY <2>1, <2>2 DEF StartFirst
<1> QED
  BY <1>6, <1>9, <1>10, <1>11, <1>12, <1>13, <1>14 DEF Leftover, a, t

\* A RESPONSE_PENDING leaves the queue.
LEMMA PendingTaken ==
  ASSUME NEW p \in Seq(Responses), p # <<>>, NEW q \in Seq(Requests), ~ Final(Head(p))
  PROVE  /\ Several(p, q) => Several(Tail(p), q)
         /\ StartFirst(p, q) => StartFirst(Tail(p), q)
<1> DEFINE t == Tail(p)
<1>1. /\ \A i \in Finals(p) : i = 1 \/ (i - 1 \in Finals(t) /\ t[i - 1] = p[i])
      /\ \A i \in Finals(t) : i + 1 \in Finals(p) /\ i \in Nat \ {0} /\ t[i] = p[i + 1]
      /\ Finals(p) \subseteq Nat \ {0}
  BY FinalsOfTail
<1>2. 1 \notin Finals(p)
  BY TailElements DEF Finals
<1> HIDE DEF t
<1>3. \A i \in Finals(p) : i - 1 \in Finals(t) /\ t[i - 1] = p[i]
  BY <1>1, <1>2
<1>4. Several(p, q) => Several(t, q)
  <2>1. ASSUME NEW i \in Finals(p), NEW j \in Finals(p), i < j PROVE Several(t, q)
    <3>1. i - 1 \in Finals(t) /\ j - 1 \in Finals(t) /\ i - 1 < j - 1
      BY <1>1, <1>3, <2>1
    <3> QED
      BY <3>1 DEF Several
  <2> QED
    BY <1>3, <2>1 DEF Several
<1>5. StartFirst(p, q) => StartFirst(t, q)
  <2>1. ASSUME NEW i \in Finals(p), p[i].sid \in Starts, \A j \in Finals(p) : i <= j
        PROVE  StartFirst(t, q)
    <3>1. i - 1 \in Finals(t) /\ t[i - 1].sid \in Starts
      BY <1>3, <2>1
    <3>2. ASSUME NEW j \in Finals(t) PROVE i - 1 <= j
      <4>1. j + 1 \in Finals(p) /\ j \in Nat /\ i \in Nat /\ i <= j + 1
        BY <1>1, <2>1
      <4> QED
        BY <4>1
    <3> QED
      BY <3>1, <3>2 DEF StartFirst
  <2>2. Finals(p) = {} => Finals(t) = {}
    BY <1>1
  <2> QED
    BY <2>1, <2>2 DEF StartFirst
<1> QED
  BY <1>4, <1>5 DEF t

\* A call takes the positive answer to another call's transfer start for its own:
\* the next answer is one to a transfer start too, and the transfer it trusts in
\* is not touched by what is left in flight.
LEMMA StartTaken ==
  ASSUME NEW p \in Seq(Responses), p # <<>>, NEW q \in Seq(Requests), NEW mode,
         Leftover(p, q, mode), Final(Head(p)), OkStart(Head(p)), Several(p, q)
  PROVE  /\ mode = ModeOf(Head(p).sid)
         /\ StartFirst(Tail(p), q)
         /\ \A i \in Finals(Tail(p)) : Tail(p)[i].sid # "37" /\ ~ OkStart(Tail(p)[i])
         /\ \A k \in 1 .. Len(q) : q[k].sid # "37"
<1> DEFINE t == Tail(p)
<1>1. /\ \A i \in Finals(p) : i = 1 \/ i - 1 \in Finals(t)
      /\ \A i \in Finals(t) : /\ i + 1 \in Finals(p) /\ i \in Nat /\ 1 < i + 1
                              /\ t[i] = p[i + 1]
      /\ Finals(p) \subseteq Nat \ {0}
  <2>1. /\ \A i \in Finals(p) : i = 1 \/ i - 1 \in Finals(t)
        /\ \A i \in Finals(t) : i + 1 \in Finals(p) /\ i \in Nat \ {0} /\ t[i] = p[i + 1]
        /\ Finals(p) \subseteq Nat \ {0}
    BY FinalsOfTail
  <2> HIDE DEF t
  <2> QED
    BY <2>1
<1>2. 1 \in Finals(p) /\ Head(p) = p[1]
  BY TailElements DEF Finals
<1>3. /\ \A i \in Finals(t) : t[i].sid \in Sids
      /\ \A k \in 1 .. Len(q) : q[k].sid \in Sids
  <2>1. ASSUME NEW i \in Finals(t) PROVE t[i].sid \in Sids
    <3>1. i \in 1 .. Len(t) /\ t \in Seq(Responses)
      BY TailElements DEF Finals
    <3> HIDE DEF t
    <3>2. t[i] \in Responses
      BY <3>1
    <3> QED
      BY <3>2 DEF Responses
  <2>2. \A r \in Requests : r.sid \in Sids
    BY RequestSids
  <2> HIDE DEF t
  <2> QED
    BY <2>1, <2>2
<1> HIDE DEF t
<1>4. mode = ModeOf(Head(p).sid) /\ \A j \in Finals(p) : OkStart(p[j]) => j = 1
  BY <1>2 DEF Leftover, OneStart
<1>5. \A i \in Finals(t) : ~ OkStart(t[i])
  BY <1>1, <1>4
<1>6. ~ BlockBehind(p, q)
  BY <1>2 DEF Leftover, BlockStuck
<1>7. \A i \in Finals(t) : t[i].sid \in Starts
  <2> SUFFICES ASSUME NEW i \in Finals(t) PROVE t[i].sid \in Starts
    OBVIOUS
  <2>1. i + 1 \in Finals(p) /\ 1 < i + 1 /\ t[i] = p[i + 1]
    BY <1>1
  <2>2. t[i].sid # "37"
    BY <1>2, <2>1 DEF Leftover, ExitFirst
  <2>3. t[i].sid # "36"
    BY <1>2, <1>6, <2>1 DEF BlockBehind
  <2> QED
    BY <1>3, <2>2, <2>3 DEF Sids, Starts
<1>8. \A k \in 1 .. Len(q) : q[k].sid \in Starts
  BY <1>2, <1>3, <1>6 DEF Leftover, ExitFirst, BlockBehind, Sids, Starts
<1>9. StartFirst(t, q)
  <2>1. CASE Finals(t) # {}
    <3>1. Finals(t) \subseteq Nat
      BY <1>1
    <3>2. PICK i \in Finals(t) : \A j \in Finals(t) : i <= j
      BY <2>1, <3>1, LeastElement
    <3> QED
      BY <1>7, <3>2 DEF StartFirst
  <2>2. CASE Finals(t) = {}
    <3>1. q # <<>> /\ Len(q) \in Nat
      <4>1. Finals(p) \subseteq {1}
        BY <1>1, <2>2
      <4>2. ~ \E i, j \in Finals(p) : i < j
        BY <4>1
      <4>3. q = <<>> => Len(q) = 0
        BY EmptySeq
      <4> QED
        BY <4>2, <4>3 DEF Several
    <3>2. Len(q) \in Nat \ {0}
      BY <3>1, EmptySeq
    <3>3. 1 \in 1 .. Len(q)
      BY <3>2
    <3> QED
      BY <1>8, <2>2, <3>1, <3>3 DEF StartFirst
  <2> QED
    BY <2>1, <2>2
<1> QED
  BY <1>4, <1>5, <1>7, <1>8, <1>9 DEF t, Starts

\* The first answer is that to a transfer start.
LEMMA HeadIsStart ==
  ASSUME NEW p \in Seq(Responses), p # <<>>, NEW q \in Seq(Requests),
         StartFirst(p, q), Final(Head(p))
  PROVE  Head(p).sid \in Starts
<1>1. 1 \in Finals(p) /\ Head(p) = p[1] /\ Finals(p) \subseteq Nat \ {0}
  BY TailElements DEF Finals
<1>2. PICK i \in Finals(p) : p[i].sid \in Starts /\ \A j \in Finals(p) : i <= j
  BY <1>1 DEF StartFirst
<1>3. i = 1
  <2>1. i <= 1 /\ i \in Nat \ {0}
    BY <1>1, <1>2
  <2> QED
    BY <2>1
<1> QED
  BY <1>1, <1>2, <1>3

----------------------------------------------------------------------------
(* The invariant *)

PduInv == reqs \in Seq(Requests) /\ resps \in Seq(Responses)

\* The variables of a call fit the request it waits for.
CallInv ==
  /\ TypeOK
  /\ result \in Seq(Byte)
  /\ pc # "idle" => /\ outcome = "none" /\ job \in FittingJobs
                    /\ job.kind = "upload" => Len(result) = pos
  /\ pc \in Starts => pc = StartSid(job) /\ pos = 0 /\ block_sn = 1 /\ result = <<>>
  /\ pc \in {"36", "37"} => pc = NextRequest(pos, block_sn).sid

\* The request the call waits for, and the bytes it has sent or collected.
Own == IF pc \in Starts THEN StartRequest(job) ELSE NextRequest(pos, block_sn)
Moved == IF job.kind = "download" THEN SubSeq(job.bytes, 1, pos) ELSE result
Block(bytes) == IF job.kind = "download" THEN Chunk(pos) ELSE bytes

\* The ECU's transfer is the call's: n bytes of it were moved, bytes.
Session(n, sn, bytes) ==
  /\ xfer.mode = ModeOf(StartSid(job))
  /\ xfer.address = job.address
  /\ xfer.total_length = job.length
  /\ xfer.transferred = n
  /\ xfer.block_seq = sn
  /\ image = bytes

Contents ==
  IF job.kind = "download"
  THEN \A k \in 1 .. job.length : data[job.address + k - 1] = job.bytes[k]
  ELSE SubSeq(result, 1, job.length) = Ecu!uds_flash_read(job.address, job.length)

\* Before the ECU handles the request the call waits for, and after it answered
\* it positively.
Asked ==
  /\ pc = "36" => Session(pos, block_sn, Moved)
  /\ pc = "37" => Contents
Granted(bytes) ==
  /\ pc \in Starts => Session(0, 1, <<>>)
  /\ pc = "36" => Session(pos + Len(Block(bytes)), NextSn(block_sn), Moved \o Block(bytes))
  /\ pc = "37" => Contents

\* A call that started with nothing in flight gets its own answers.
SyncInv ==
  clear /\ pc # "idle" =>
    /\ \A i \in Finals(resps) : /\ i = Len(resps) /\ reqs = <<>>
                                /\ resps[i].sid = pc
                                /\ resps[i].ok => Granted(resps[i].bytes)
    /\ reqs # <<>> => reqs = <<Own>> /\ Asked

DoneInv == clear /\ outcome = "ok" => pc = "idle" /\ reqs = <<>> /\ Contents

\* Any other call is about to find out, as long as no PDU is lost.
StaleCall ==
  /\ outcome # "ok"
  /\ pc # "idle" => \/ pc \in Starts /\ Several(resps, reqs)
                    \/ pc = "36" /\ StartFirst(resps, reqs)
StaleInv ==
  ~ lost => Leftover(resps, reqs, xfer.mode) /\ (~ clear => StaleCall)

IInv == EcuInv /\ PduInv /\ CallInv /\ SyncInv /\ DoneInv /\ StaleInv

----------------------------------------------------------------------------
(* Parts of a job *)

\* Two adjacent slices.
LEMMA SlicesJoin ==
  ASSUME NEW S, NEW s \in Seq(S), NEW m \in Nat, NEW n \in Nat, m <= n, n <= Len(s)
  PROVE  /\ SubSeq(s, 1, m) \in Seq(S) /\ Len(SubSeq(s, 1, m)) = m
         /\ SubSeq(s, m + 1, n) \in Seq(S) /\ Len(SubSeq(s, m + 1, n)) = n - m
         /\ SubSeq(s, 1, m) \o SubSeq(s, m + 1, n) = SubSeq(s, 1, n)
<1>1. /\ SubSeq(s, 1, m) \in Seq(S) /\ Len(SubSeq(s, 1, m)) = m
      /\ \A i \in 1 .. m : SubSeq(s, 1, m)[i] = s[i]
  OBVIOUS
<1>2. /\ SubSeq(s, m + 1, n) \in Seq(S) /\ Len(SubSeq(s, m + 1, n)) = n - m
      /\ \A i \in 1 .. n - m : SubSeq(s, m + 1, n)[i] = s[m + i]
  OBVIOUS
<1>3. /\ SubSeq(s, 1, n) \in Seq(S) /\ Len(SubSeq(s, 1, n)) = n
      /\ \A i \in 1 .. n : SubSeq(s, 1, n)[i] = s[i]
  OBVIOUS
<1> DEFINE a == SubSeq(s, 1, m)
           b == SubSeq(s, m + 1, n)
           c == SubSeq(s, 1, n)
<1>4. a \in Seq(S) /\ b \in Seq(S) /\ c \in Seq(S) /\ Len(a) = m /\ Len(b) = n - m /\ Len(c) = n
  BY <1>1, <1>2, <1>3
<1>5. /\ \A i \in 1 .. m : a[i] = s[i]
      /\ \A i \in 1 .. n - m : b[i] = s[m + i]
      /\ \A i \in 1 .. n : c[i] = s[i]
  BY <1>1, <1>2, <1>3
<1> HIDE DEF a, b, c
<1> DEFINE d == a \o b
<1>6. /\ d \in Seq(S) /\ Len(d) = n
      /\ \A i \in 1 .. n : d[i] = IF i <= m THEN a[i] ELSE b[i - m]
  BY <1>4, ConcatProperties
<1> HIDE DEF d
<1>7. ASSUME NEW i \in 1 .. n PROVE d[i] = c[i]
  <2>1. CASE i <= m
    BY <1>5, <1>6, <2>1
  <2>2. CASE ~ (i <= m)
    <3>1. i - m \in 1 .. n - m /\ m + (i - m) = i
      BY <2>2
    <3>2. d[i] = b[i - m]
      BY <1>6, <2>2
    <3>3. b[i - m] = s[i]
      BY <1>5, <3>1
    <3> QED
      BY <1>5, <3>2, <3>3
  <2> QED
    BY <2>1, <2>2
<1>8. d = c
  BY <1>4, <1>6, <1>7, SeqEqual
<1> QED
  BY <1>4, <1>8 DEF a, b, c, d

\* The next chunk of a download is not empty and continues what was sent.
LEMMA ChunkFacts ==
  ASSUME job \in Jobs, job.kind = "download", NEW p \in Nat, p < job.length
  PROVE  /\ Chunk(p) \in Seq(Byte) /\ Chunk(p) # <<>> /\ Len(Chunk(p)) \in Nat
         /\ SubSeq(job.bytes, 1, p) \o Chunk(p) = SubSeq(job.bytes, 1, p + Len(Chunk(p)))
         /\ p + Len(Chunk(p)) <= job.length
<1>1. /\ job.bytes \in [1 .. job.length -> Byte] /\ job.length \in Nat
      /\ chunk_size \in Nat \ {0}
  BY ProgrammerAssumption, EcuConstants DEF chunk_size, EcuTh!SizesAssumption
<1>2. job.bytes \in Seq(Byte) /\ Len(job.bytes) = job.length
  BY <1>1
<1> DEFINE to == IF p + chunk_size < job.length THEN p + chunk_size ELSE job.length
<1>3. to \in Nat /\ p < to /\ to <= job.length
  BY <1>1
<1>4. Chunk(p) = SubSeq(job.bytes, p + 1, to)
  BY DEF Chunk
<1> HIDE DEF to
<1>5. /\ Chunk(p) \in Seq(Byte) /\ Len(Chunk(p)) = to - p
      /\ SubSeq(job.bytes, 1, p) \o Chunk(p) = SubSeq(job.bytes, 1, to)
  BY <1>2, <1>3, <1>4, SlicesJoin
<1>6. Len(Chunk(p)) # 0 /\ p + Len(Chunk(p)) = to /\ Len(Chunk(p)) \in Nat
  BY <1>3, <1>5
<1>7. Chunk(p) # <<>>
  BY <1>6, EmptySeq
<1> QED
  BY <1>3, <1>5, <1>6, <1>7

\* The request after p bytes.
LEMMA NextRequestFacts ==
  ASSUME job \in Jobs, NEW p \in Nat, NEW sn \in 1 .. SeqMax
  PROVE  /\ NextRequest(p, sn) \in Requests
         /\ p >= job.length => NextRequest(p, sn) = ExitRequest
         /\ p < job.length => /\ NextRequest(p, sn).sid = "36" /\ NextRequest(p, sn).sn = sn
                              /\ NextRequest(p, sn).bytes \in Seq(Byte)
                              /\ NextRequest(p, sn)
                                   = Request("36", sn, NextRequest(p, sn).bytes)
                              /\ job.kind = "download" =>
                                   /\ NextRequest(p, sn).bytes = Chunk(p)
                                   /\ NextRequest(p, sn).bytes # <<>>
         /\ NextRequest(p, sn).sid \in {"36", "37"}
<1>1. job.length \in Nat
  BY ProgrammerAssumption
<1>2. CASE p >= job.length
  BY <1>1, <1>2 DEF NextRequest, ExitRequest, Requests, Request
<1>3. CASE p < job.length
  <2> DEFINE b == IF job.kind = "download" THEN Chunk(p) ELSE <<>>
  <2>1. b \in Seq(Byte) /\ (job.kind = "download" => b = Chunk(p) /\ b # <<>>)
    BY <1>3, ChunkFacts
  <2>2. NextRequest(p, sn) = Request("36", sn, b)
    BY <1>1, <1>3 DEF NextRequest
  <2> HIDE DEF b
  <2>3. Request("36", sn, b) \in Requests
    BY <2>1 DEF Requests, BlockRequests
  <2>4. Request("36", sn, b).sid = "36" /\ Request("36", sn, b).sn = sn
        /\ Request("36", sn, b).bytes = b
    BY DEF Request
  <2> QED
    BY <1>1, <1>3, <2>1, <2>2, <2>3, <2>4
<1> QED
  BY <1>1, <1>2, <1>3

----------------------------------------------------------------------------
(* The invariant holds initially and after every step. *)

\* No call, no PDU, an erased flash.
LEMMA InitInv == Init => IInv
<1> SUFFICES ASSUME Init PROVE IInv
  OBVIOUS
<1>1. EcuInv
  BY EcuSame, EcuConstants, EcuTh!InitInv DEF Init, EcuInv
<1>2. reqs = <<>> /\ resps = <<>> /\ Len(reqs) = 0 /\ Len(resps) = 0 /\ Finals(resps) = {}
  BY EmptySeq DEF Init, Finals
<1>3. PduInv
  BY <1>2, EmptySeq DEF PduInv
<1>4. CallInv
  BY ProgrammerAssumption, EcuConstants, EmptySeq
     DEF Init, CallInv, TypeOK, Starts, EcuTh!SizesAssumption
<1>5. StaleInv
  BY <1>2 DEF Init, StaleInv, Leftover, ExitFirst, OneStart, BlockStuck, BlockBehind,
              AllAnswered, FinalFollows, StaleCall
<1>6. SyncInv /\ DoneInv
  BY DEF Init, SyncInv, DoneInv
<1> QED
  BY <1>1, <1>3, <1>4, <1>5, <1>6 DEF IInv

\* Nothing happens to the ECU.
LEMMA EcuUnchanged == EcuInv /\ UNCHANGED ecuVars => EcuInv'
BY DEF EcuInv, ecuVars, EcuTh!IInv, EcuTh!TypeOK, EcuTh!WindowInRegion, EcuTh!DownloadContents,
       EcuTh!UploadServed, EcuTh!BlocksInOrder, EcuTh!Window

\* A call that ends with an exception leaves whatever it left in the queues.
LEMMA FailedInv ==
  ASSUME IInv, PduInv', UNCHANGED <<ecuVars, clear>>, Finish("error"),
         ~ lost' => Leftover(resps', reqs', xfer.mode)
  PROVE  IInv'
<1>1. EcuInv'
  BY EcuUnchanged DEF IInv
<1>2. CallInv'
  BY DEF IInv, CallInv, Finish, TypeOK, Starts
<1>3. SyncInv' /\ DoneInv'
  BY DEF Finish, SyncInv, DoneInv
<1>4. StaleInv'
  BY DEF Finish, StaleInv, StaleCall, ecuVars
<1> QED
  BY <1>1, <1>2, <1>3, <1>4 DEF IInv

\* recv() times out.
LEMMA TimeoutInv == IInv /\ Timeout => IInv'
<1> SUFFICES ASSUME IInv, Timeout PROVE IInv'
  OBVIOUS
<1>1. UNCHANGED <<ecuVars, clear>> /\ Finish("error") /\ UNCHANGED <<reqs, resps, lost>>
  BY DEF Timeout, Finish
<1>2. PduInv' /\ (~ lost' => Leftover(resps', reqs', xfer.mode))
  BY <1>1 DEF IInv, PduInv, StaleInv
<1> QED
  BY <1>1, <1>2, FailedInv

\* download() or upload() is called.
LEMMA StartJobInv ==
  ASSUME IInv, NEW j \in Jobs, StartJob(j)
  PROVE  IInv'
<1>1. /\ UNCHANGED <<ecuVars, resps, lost>> /\ resps \in Seq(Responses)
      /\ reqs \in Seq(Requests)
      /\ job' = j /\ pos' = 0 /\ block_sn' = 1 /\ result' = <<>>
      /\ clear' = (reqs = <<>> /\ resps = <<>>)
  BY DEF StartJob, IInv, PduInv
<1>2. EcuInv' /\ xfer' = xfer
  BY <1>1, EcuUnchanged DEF IInv, ecuVars
<1>3. 1 \in 1 .. SeqMax
  BY EcuConstants DEF EcuTh!SizesAssumption
<1>4. CASE ~ Fits(j)
  <2>1. outcome' = "error" /\ pc' = "idle" /\ UNCHANGED <<reqs, attempts>>
    BY <1>4 DEF StartJob
  <2>2. PduInv'
    BY <1>1, <2>1 DEF PduInv
  <2>3. CallInv'
    BY <1>1, <1>3, <2>1, EmptySeq DEF IInv, CallInv, TypeOK, Starts
  <2>4. SyncInv' /\ DoneInv'
    BY <2>1 DEF SyncInv, DoneInv
  <2>5. StaleInv'
    BY <1>1, <1>2, <2>1 DEF IInv, StaleInv, StaleCall
  <2> QED
    BY <1>2, <2>2, <2>3, <2>4, <2>5 DEF IInv
<1>5. CASE Fits(j)
  <2> DEFINE r == StartRequest(j)
  <2>1. reqs' = Append(reqs, r) /\ pc' = r.sid /\ attempts' = 0 /\ outcome' = "none"
    BY <1>5 DEF StartJob, Send
  <2>2. r.sid = StartSid(j) /\ r \in Requests /\ StartSid(j) \in Starts /\ j \in FittingJobs
    BY <1>5, RequestParsed DEF StartSid, Starts, Requests, StartRequests, FittingJobs
  <2> HIDE DEF r
  <2>3. PduInv'
    BY <1>1, <2>1, <2>2, AppendElements DEF PduInv
  <2>4. pc' \in Starts /\ pc' # "idle" /\ pc' \notin {"36", "37"} /\ pc' \in {"idle", "34", "35", "36", "37"}
    BY <2>1, <2>2 DEF Starts
  <2>5. CallInv'
    BY <1>1, <1>3, <2>1, <2>2, <2>4, EmptySeq, ProgrammerAssumption DEF CallInv, TypeOK
  <2>6. SyncInv'
    <3> SUFFICES ASSUME clear'
                 PROVE  /\ Finals(resps') = {}
                        /\ reqs' = <<Own>>' /\ Asked'
      BY DEF SyncInv
    <3>1. reqs = <<>> /\ resps' = <<>>
      BY <1>1
    <3>2. Len(resps') = 0
      BY <3>1, EmptySeq
    <3>3. Finals(resps') = {}
      BY <3>2 DEF Finals
    <3>4. reqs' = <<r>>
      BY <2>1, <3>1
    <3>5. Own' = r
      BY <1>1, <2>4 DEF Own, r
    <3>6. Asked'
      BY <2>4 DEF Asked
    <3> QED
      BY <3>3, <3>4, <3>5, <3>6
  <2>7. DoneInv'
    BY <2>1 DEF DoneInv
  <2>8. StaleInv'
    <3> SUFFICES ASSUME ~ lost
                 PROVE  Leftover(resps', reqs', xfer'.mode) /\ (~ clear' => StaleCall')
      BY <1>1 DEF StaleInv
    <3>1. Leftover(resps, reqs, xfer.mode)
      BY DEF IInv, StaleInv
    <3>2. Leftover(resps, Append(reqs, r), xfer.mode)
      BY <1>1, <2>2, <3>1, LeftoverSend DEF Starts
    <3>3. ASSUME ~ clear' PROVE Several(resps', reqs')
      <4>0. Append(reqs, r) # <<>> /\ Len(Append(reqs, r)) = Len(reqs) + 1 /\ Len(reqs) \in Nat
        BY <1>1, <2>2, AppendElements
      <4>1. CASE reqs # <<>>
        <5>1. Len(reqs) # 0
          BY <1>1, <4>1, EmptySeq
        <5>2. Len(reqs') > 1
          BY <2>1, <4>0, <5>1
        <5> QED
          BY <5>2 DEF Several
      <4>2. CASE reqs = <<>>
        <5>1. resps # <<>> /\ Final(resps[Len(resps)])
          BY <1>1, <3>1, <3>3, <4>2 DEF Leftover, FinalFollows
        <5>2. Len(resps) \in Nat \ {0}
          BY <1>1, <5>1, EmptySeq
        <5>3. Len(resps) \in Finals(resps)
          BY <5>1, <5>2 DEF Finals
        <5> QED
          BY <1>1, <2>1, <4>0, <5>3 DEF Several
      <4> QED
        BY <4>1, <4>2
    <3>4. outcome' # "ok"
      BY <2>1
    <3> QED
      BY <1>1, <1>2, <2>1, <2>4, <3>2, <3>3, <3>4 DEF StaleCall
  <2> QED
    BY <1>2, <2>3, <2>5, <2>6, <2>7, <2>8 DEF IInv
<1> QED
  BY <1>4, <1>5

\* What a step of the bus leaves alone.
LEMMA CallUnchanged ==
  ASSUME UNCHANGED <<ecuVars, callVars>>
  PROVE  /\ Contents' <=> Contents
         /\ Asked' <=> Asked
         /\ Own' = Own
         /\ \A b : Granted(b)' <=> Granted(b)
         /\ CallInv => CallInv'
         /\ EcuInv => EcuInv'
<1> USE DEF ecuVars, callVars
<1>1. Contents' <=> Contents
  BY DEF Contents, Ecu!uds_flash_read
<1>2. Moved' = Moved /\ \A b : Block(b)' = Block(b)
  BY DEF Moved, Block, Chunk
<1>3. \A n, sn, b : Session(n, sn, b)' <=> Session(n, sn, b)
  BY DEF Session
<1>4. Asked' <=> Asked
  BY <1>1, <1>2 DEF Asked, Session
<1>5. \A b : Granted(b)' <=> Granted(b)
  BY <1>1, <1>2 DEF Granted, Session
<1>6. Own' = Own
  BY DEF Own, NextRequest, Chunk
<1>7. CallInv => CallInv'
  BY DEF CallInv, TypeOK, NextRequest, Chunk
<1>8. EcuInv => EcuInv'
  BY EcuUnchanged
<1> QED
  BY <1>1, <1>4, <1>5, <1>6, <1>7, <1>8

\* The bus loses a request or a response.
LEMMA LosePduInv == IInv /\ LosePdu => IInv'
<1> SUFFICES ASSUME IInv, LosePdu PROVE IInv'
  OBVIOUS
<1>1. /\ UNCHANGED <<ecuVars, callVars>> /\ UNCHANGED clear /\ lost'
      /\ UNCHANGED <<pc, outcome>>
      /\ resps \in Seq(Responses) /\ reqs \in Seq(Requests)
      /\ \/ reqs # <<>> /\ reqs' = Tail(reqs) /\ resps' = resps
         \/ resps # <<>> /\ resps' = Tail(resps) /\ reqs' = reqs
  <2>1. resps \in Seq(Responses) /\ reqs \in Seq(Requests)
    BY DEF IInv, PduInv
  <2> QED
    BY <2>1 DEF LosePdu, callVars
<1>2. PduInv'
  <2>1. reqs # <<>> => Tail(reqs) \in Seq(Requests)
    BY <1>1, TailElements
  <2>2. resps # <<>> => Tail(resps) \in Seq(Responses)
    BY <1>1, TailElements
  <2>3. reqs' \in Seq(Requests) /\ resps' \in Seq(Responses)
    BY <1>1, <2>1, <2>2
  <2> QED
    BY <2>3 DEF PduInv
<1>3. StaleInv'
  BY <1>1 DEF StaleInv
<1>4. DoneInv'
  <2>1. (reqs = <<>> => reqs' = <<>>) /\ (Contents' <=> Contents)
    BY <1>1, CallUnchanged
  <2> QED
    BY <1>1, <2>1 DEF IInv, DoneInv
<1>5. SyncInv'
  <2> SUFFICES ASSUME clear, pc # "idle"
               PROVE  /\ \A i \in Finals(resps') :
                           /\ i = Len(resps') /\ reqs' = <<>>
                           /\ resps'[i].sid = pc
                           /\ resps'[i].ok => Granted(resps[i].bytes)'
                      /\ reqs' # <<>> => reqs' = <<Own>>' /\ Asked'
    BY <1>1 DEF SyncInv
  <2>1. /\ \A i \in Finals(resps) : /\ i = Len(resps) /\ reqs = <<>>
                                    /\ resps[i].sid = pc
                                    /\ resps[i].ok => Granted(resps[i].bytes)
        /\ reqs # <<>> => reqs = <<Own>> /\ Asked
    BY DEF IInv, SyncInv
  <2>2. /\ Asked' <=> Asked
        /\ Own' = Own
        /\ \A b : Granted(b)' <=> Granted(b)
    BY <1>1, CallUnchanged
  <2>3. CASE reqs # <<>> /\ reqs' = Tail(reqs) /\ resps' = resps
    <3>1. reqs' = <<>>
      BY <2>1, <2>3
    <3>2. Finals(resps') = {}
      BY <2>1, <2>3
    <3> QED
      BY <3>1, <3>2
  <2>4. CASE resps # <<>> /\ resps' = Tail(resps) /\ reqs' = reqs
    <3>1. ASSUME NEW i \in Finals(resps')
          PROVE  /\ i = Len(resps') /\ reqs' = <<>> /\ resps'[i].sid = pc
                 /\ resps'[i].ok => Granted(resps[i].bytes)'
      <4>1. i + 1 \in Finals(resps) /\ i \in Nat /\ resps'[i] = resps[i + 1]
        BY <1>1, <2>4, FinalsOfTail
      <4>2. /\ i + 1 = Len(resps) /\ reqs = <<>> /\ resps[i + 1].sid = pc
            /\ resps[i + 1].ok => Granted(resps[i + 1].bytes)
        BY <2>1, <4>1
      <4>3. i = Len(resps')
        BY <1>1, <2>4, <4>1, <4>2, TailElements
      <4>4. resps'[i].ok => Granted(resps[i].bytes)'
        BY <2>2, <4>1, <4>2
      <4> QED
        BY <2>4, <4>1, <4>2, <4>3, <4>4
    <3> QED
      BY <2>1, <2>2, <2>4, <3>1
  <2> QED
    BY <1>1, <2>3, <2>4
<1> QED
  BY <1>1, <1>2, <1>3, <1>4, <1>5, CallUnchanged DEF IInv

\* The ECU announces a later answer.
LEMMA ResponsePendingInv == IInv /\ ResponsePending => IInv'
<1> SUFFICES ASSUME IInv, ResponsePending PROVE IInv'
  OBVIOUS
<1> DEFINE r == [sid |-> Head(reqs).sid, ok |-> FALSE,
                 nrc |-> "RESPONSE_PENDING", bytes |-> <<>>]
<1>1. /\ UNCHANGED <<ecuVars, callVars>> /\ UNCHANGED <<clear, lost, reqs>>
      /\ UNCHANGED <<pc, outcome, xfer>>
      /\ resps \in Seq(Responses) /\ reqs \in Seq(Requests) /\ reqs # <<>>
      /\ resps' = Append(resps, r)
  BY DEF ResponsePending, callVars, ecuVars, IInv, PduInv
<1>2. r \in Responses /\ ~ Final(r)
  <2>1. Head(reqs) \in Requests
    BY <1>1, TailElements
  <2>2. Head(reqs).sid \in Sids
    BY <2>1, RequestSids
  <2> QED
    BY <2>2, EmptySeq DEF Responses, Answers, Final
<1> HIDE DEF r
<1>3. PduInv'
  BY <1>1, <1>2, AppendElements DEF PduInv
<1>4. StaleInv'
  <2> SUFFICES ASSUME ~ lost
               PROVE  Leftover(resps', reqs', xfer'.mode) /\ (~ clear' => StaleCall')
    BY <1>1 DEF StaleInv
  <2>1. Leftover(resps, reqs, xfer.mode) /\ (~ clear => StaleCall)
    BY DEF IInv, StaleInv
  <2>2. /\ Leftover(resps', reqs, xfer.mode)
        /\ Several(resps, reqs) => Several(resps', reqs)
        /\ StartFirst(resps, reqs) => StartFirst(resps', reqs)
    BY <1>1, <1>2, <2>1, LeftoverPending
  <2> QED
    BY <1>1, <2>1, <2>2 DEF StaleCall
<1>5. DoneInv' /\ SyncInv'
  <2>1. /\ Asked' <=> Asked
        /\ Own' = Own
        /\ Contents' <=> Contents
    BY <1>1, CallUnchanged
  <2>2. clear /\ pc # "idle" => Finals(resps') = {} /\ reqs = <<Own>> /\ Asked
    <3> SUFFICES ASSUME clear, pc # "idle"
                 PROVE  Finals(resps') = {} /\ reqs = <<Own>> /\ Asked
      OBVIOUS
    <3>1. Finals(resps) = {} /\ reqs = <<Own>> /\ Asked
      BY <1>1 DEF IInv, SyncInv
    <3>2. Finals(resps') = Finals(resps) \cup {}
      BY <1>1, <1>2, FinalsOfAppend
    <3> QED
      BY <3>1, <3>2
  <2>3. SyncInv'
    BY <1>1, <2>1, <2>2 DEF SyncInv
  <2>4. DoneInv'
    BY <1>1, <2>1 DEF IInv, DoneInv
  <2> QED
    BY <2>3, <2>4
<1> QED
  BY <1>1, <1>3, <1>4, <1>5, CallUnchanged DEF IInv

\* What a response of the ECU says.
LEMMA ResponseFacts ==
  ASSUME EcuInv, NEW r \in Requests, EcuHandles(r)
  PROVE  /\ EcuInv'
         /\ ecuReply' = Ecu!NoReply =>
              r.sid = "36" /\ r.bytes = <<>> /\ xfer.mode = "DOWNLOAD" /\ xfer'.mode = xfer.mode
         /\ Response(r).sid = r.sid
         /\ ecuReply' # Ecu!NoReply => Response(r) \in Responses /\ Final(Response(r))
         /\ Response(r).ok <=> ecuReply' = Ecu!Positive
         /\ r.sid \in Starts => \/ /\ Response(r).ok /\ xfer.mode = "IDLE"
                                   /\ xfer'.mode = ModeOf(r.sid)
                                \/ ~ Response(r).ok /\ xfer'.mode = xfer.mode
         /\ r.sid = "36" => xfer'.mode = xfer.mode
<1>1. EcuInv' /\ ecuReply' \in Ecu!Replies
      /\ (ecuReply' = Ecu!NoReply =>
             r.sid = "36" /\ r.bytes = <<>> /\ xfer.mode = "DOWNLOAD" /\ xfer'.mode = xfer.mode)
      /\ (r.sid \in Starts => \/ /\ ecuReply' = Ecu!Positive /\ xfer.mode = "IDLE"
                                 /\ xfer'.mode = ModeOf(r.sid)
                              \/ ecuReply' # Ecu!Positive /\ xfer'.mode = xfer.mode)
      /\ (r.sid = "36" => xfer'.mode = xfer.mode)
  <2>1. CASE r \in StartRequests
    <3>1. PICK j \in FittingJobs : r = StartRequest(j)
      BY <2>1 DEF StartRequests
    <3>2. r.sid = StartSid(j) /\ r.sid # "36"
      BY <3>1, RequestParsed DEF FittingJobs, StartSid
    <3>3. /\ EcuInv'
          /\ ecuReply' \in Ecu!Replies \ {Ecu!NoReply}
          /\ ecuReply' = Ecu!Positive =>
               /\ xfer.mode = "IDLE"
               /\ xfer' = [mode |-> ModeOf(StartSid(j)), address |-> j.address,
                           total_length |-> j.length, transferred |-> 0, block_seq |-> 1]
          /\ ecuReply' # Ecu!Positive => UNCHANGED <<xfer, image>>
      <4>1. EcuHandles(StartRequest(j))
        BY <3>1
      <4> QED
        BY <4>1, StartHandled
    <3> QED
      BY <3>2, <3>3
  <2>2. CASE r \in BlockRequests
    <3>1. PICK sn \in 1 .. SeqMax, bytes \in Seq(Byte) : r = Request("36", sn, bytes)
      BY <2>2 DEF BlockRequests
    <3>2. r.sid = "36" /\ r.bytes = bytes
      BY <3>1 DEF Request
    <3>3. EcuHandles(Request("36", sn, bytes))
      BY <3>1
    <3>4. /\ EcuInv'
          /\ ecuReply' \in Ecu!Replies
          /\ ecuReply' = Ecu!NoReply => bytes = <<>> /\ xfer.mode = "DOWNLOAD"
          /\ xfer'.mode = xfer.mode
      BY <3>3, BlockHandled
    <3> QED
      BY <3>2, <3>4 DEF Starts
  <2>3. CASE r = ExitRequest
    <3>1. r.sid = "37"
      BY <2>3 DEF ExitRequest, Request
    <3>2. EcuInv' /\ ecuReply' \in Ecu!Replies \ {Ecu!NoReply}
      BY <2>3, ExitHandled
    <3> QED
      BY <3>1, <3>2 DEF Starts
  <2> QED
    BY <2>1, <2>2, <2>3 DEF Requests
<1>2. Response(r).sid = r.sid /\ (Response(r).ok <=> ecuReply' = Ecu!Positive)
  BY DEF Response
<1>3. ASSUME ecuReply' # Ecu!NoReply PROVE Response(r) \in Responses /\ Final(Response(r))
  <2> DEFINE b == IF r.sid = "36" /\ ecuReply' = Ecu!Positive /\ xfer.mode = "UPLOAD"
                  THEN SubSeq(image', Len(image) + 1, Len(image')) ELSE <<>>
  <2>1. b \in Seq(Byte)
    <3>1. image \in Seq(Byte) /\ image' \in Seq(Byte)
      BY <1>1 DEF EcuInv, EcuTh!IInv, EcuTh!TypeOK
    <3>2. SubSeq(image', Len(image) + 1, Len(image')) \in Seq(Byte)
      BY <3>1
    <3> QED
      BY <3>2, EmptySeq
  <2>2. r.sid \in Sids
    BY RequestSids
  <2>3. ecuReply' # "RESPONSE_PENDING"
    BY <1>1 DEF Ecu!Replies, Ecu!Nrcs, Ecu!NoReply, Ecu!Positive
  <2>4. Response(r) = [sid |-> r.sid, ok |-> ecuReply' = Ecu!Positive, nrc |-> ecuReply',
                       bytes |-> b]
    BY DEF Response
  <2> HIDE DEF b
  <2> QED
    BY <1>1, <2>1, <2>2, <2>3, <2>4 DEF Responses, Answers, Final
<1> QED
  BY <1>1, <1>2, <1>3

\* The last part of a concatenation.
LEMMA SliceOfLast ==
  ASSUME NEW S, NEW s \in Seq(S), NEW t \in Seq(S)
  PROVE  SubSeq(s \o t, Len(s) + 1, Len(s \o t)) = t
<1> DEFINE tail == SubSeq(s \o t, Len(s) + 1, Len(s) + Len(t))
<1>1. Len(s \o t) = Len(s) + Len(t)
  OBVIOUS
<1>2. Len(tail) = Len(t) /\ \A i \in 1 .. Len(t) : tail[i] = t[i]
  BY FieldSlices
<1>3. tail \in Seq(S)
  BY <1>1
<1> HIDE DEF tail
<1>4. tail = t
  BY <1>2, <1>3, SeqEqual
<1> QED
  BY <1>1, <1>4 DEF tail

\* A positive answer to the request a call waits for does what the call asked.
LEMMA OwnAnswered ==
  ASSUME EcuInv, CallInv, pc # "idle", Asked, EcuHandles(Own), UNCHANGED callVars,
         ecuReply' = Ecu!Positive, NEW answer, answer = Response(Own).bytes
  PROVE  Granted(answer)'
<1>1. /\ job \in Jobs /\ job \in FittingJobs /\ Fits(job)
      /\ job.kind \in {"download", "upload"} /\ job.length \in Nat
      /\ pos \in Nat /\ block_sn \in 1 .. SeqMax /\ result \in Seq(Byte)
      /\ UNCHANGED <<job, pc, pos, block_sn, result>>
  BY ProgrammerAssumption DEF CallInv, TypeOK, FittingJobs, callVars
<1>2. CASE pc \in Starts
  <2>1. Own = StartRequest(job) /\ pc' \in Starts /\ pc' # "36" /\ pc' # "37"
    BY <1>1, <1>2 DEF Own, Starts
  <2>2. EcuHandles(StartRequest(job))
    BY <2>1
  <2>3. /\ xfer' = [mode |-> ModeOf(StartSid(job)), address |-> job.address,
                    total_length |-> job.length, transferred |-> 0, block_seq |-> 1]
        /\ image' = <<>>
    BY <1>1, <2>2, StartHandled
  <2>4. Session(0, 1, <<>>)'
    BY <1>1, <2>3 DEF Session
  <2> QED
    BY <2>1, <2>4 DEF Granted
<1>3. CASE pc = "36"
  <2>1. pos < job.length /\ Own = NextRequest(pos, block_sn)
    <3>1. NextRequest(pos, block_sn).sid = "36" /\ Own = NextRequest(pos, block_sn)
      BY <1>3 DEF CallInv, Own, Starts
    <3>2. ExitRequest.sid = "37"
      BY DEF ExitRequest, Request
    <3> QED
      BY <1>1, <3>1, <3>2, NextRequestFacts
  <2> DEFINE bytes == Own.bytes
  <2>2. /\ Own = Request("36", block_sn, bytes) /\ bytes \in Seq(Byte)
        /\ Own.sid = "36"
        /\ job.kind = "download" => bytes = Chunk(pos)
    BY <1>1, <2>1, NextRequestFacts
  <2> HIDE DEF bytes
  <2>3. Session(pos, block_sn, Moved)
    BY <1>3 DEF Asked
  <2>4. EcuHandles(Request("36", block_sn, bytes))
    BY <2>2
  <2>5. PICK b \in Seq(Byte) :
           /\ xfer.mode = "DOWNLOAD" => b = bytes
           /\ image' = image \o b
           /\ xfer'.mode = xfer.mode
           /\ xfer'.address = xfer.address
           /\ xfer'.total_length = xfer.total_length
           /\ xfer'.transferred = xfer.transferred + Len(b)
           /\ xfer'.block_seq = NextSn(xfer.block_seq)
    BY <2>2, <2>4, BlockHandled
  <2>6. Session(pos + Len(b), NextSn(block_sn), Moved \o b)'
    BY <1>1, <2>3, <2>5 DEF Session, Moved, NextSn
  <2>7. Block(answer)' = b
    <3>1. CASE job.kind = "download"
      <4>1. xfer.mode = "DOWNLOAD"
        BY <2>3, <3>1 DEF Session, ModeOf, StartSid
      <4>2. b = Chunk(pos)
        BY <2>2, <2>5, <3>1, <4>1
      <4> QED
        BY <1>1, <3>1, <4>2 DEF Block, Chunk
    <3>2. CASE job.kind # "download"
      <4>1. xfer.mode = "UPLOAD"
        BY <2>3, <3>2 DEF Session, ModeOf, StartSid
      <4>2. answer = SubSeq(image', Len(image) + 1, Len(image'))
        BY <2>2, <4>1 DEF Response
      <4>3. image \in Seq(Byte)
        BY DEF EcuInv, EcuTh!IInv, EcuTh!TypeOK
      <4>4. answer = b
        BY <2>5, <4>2, <4>3, SliceOfLast
      <4> QED
        BY <1>1, <3>2, <4>4 DEF Block
    <3> QED
      BY <3>1, <3>2
  <2>8. Granted(answer)'
    BY <1>1, <1>3, <2>6, <2>7 DEF Granted, Starts, Session
  <2> QED
    BY <2>8
<1>4. CASE pc = "37"
  <2>1. Own = ExitRequest
    <3>1. NextRequest(pos, block_sn).sid = "37" /\ Own = NextRequest(pos, block_sn)
      BY <1>4 DEF CallInv, Own, Starts
    <3> QED
      BY <1>1, <3>1, NextRequestFacts
  <2>2. EcuHandles(ExitRequest)
    BY <2>1
  <2>3. data' = data
    BY <2>2, ExitHandled
  <2>4. Contents
    BY <1>4 DEF Asked
  <2>5. Contents'
    BY <1>1, <2>3, <2>4 DEF Contents, Ecu!uds_flash_read
  <2> QED
    BY <1>1, <1>4, <2>5 DEF Granted, Starts
<1> QED
  BY <1>2, <1>3, <1>4 DEF CallInv, TypeOK, Starts

\* The ECU takes a request and answers it.
LEMMA EcuRunInv == IInv /\ ecusim_run => IInv'
<1> SUFFICES ASSUME IInv, ecusim_run PROVE IInv'
  OBVIOUS
<1> DEFINE r == Head(reqs)
<1>1. /\ UNCHANGED callVars /\ UNCHANGED <<clear, lost, pc, outcome>>
      /\ resps \in Seq(Responses) /\ reqs \in Seq(Requests) /\ reqs # <<>>
      /\ reqs' = Tail(reqs) /\ EcuHandles(r)
      /\ resps' = IF ecuReply' = Ecu!NoReply THEN resps ELSE Append(resps, Response(r))
  BY DEF ecusim_run, callVars, IInv, PduInv
<1>2. r \in Requests /\ Tail(reqs) \in Seq(Requests)
  BY <1>1, TailElements
<1> HIDE DEF r
<1>3. /\ EcuInv'
      /\ ecuReply' = Ecu!NoReply =>
           r.sid = "36" /\ r.bytes = <<>> /\ xfer.mode = "DOWNLOAD" /\ xfer'.mode = xfer.mode
      /\ Response(r).sid = r.sid
      /\ ecuReply' # Ecu!NoReply => Response(r) \in Responses /\ Final(Response(r))
      /\ Response(r).ok <=> ecuReply' = Ecu!Positive
      /\ r.sid \in Starts => \/ /\ Response(r).ok /\ xfer.mode = "IDLE"
                                /\ xfer'.mode = ModeOf(r.sid)
                             \/ ~ Response(r).ok /\ xfer'.mode = xfer.mode
      /\ r.sid = "36" => xfer'.mode = xfer.mode
  BY <1>1, <1>2, ResponseFacts DEF IInv
<1>4. PduInv'
  BY <1>1, <1>2, <1>3, AppendElements DEF PduInv
<1>5. CallInv'
  BY <1>1 DEF IInv, CallInv, TypeOK, NextRequest, Chunk, callVars
<1>6. DoneInv'
  BY <1>1 DEF IInv, DoneInv
<1>7. StaleInv'
  <2> SUFFICES ASSUME ~ lost
               PROVE  Leftover(resps', reqs', xfer'.mode) /\ (~ clear' => StaleCall')
    BY <1>1 DEF StaleInv
  <2>1. Leftover(resps, reqs, xfer.mode) /\ (~ clear => StaleCall)
    BY DEF IInv, StaleInv
  <2>2. ecuReply' # Ecu!NoReply
    <3> SUFFICES ASSUME ecuReply' = Ecu!NoReply PROVE FALSE
      OBVIOUS
    <3>1. reqs[1] = r /\ 1 \in 1 .. Len(reqs)
      BY <1>1, TailElements DEF r
    <3> QED
      BY <1>3, <2>1, <3>1 DEF Leftover, AllAnswered
  <2>3. PICK a : a = Response(r)
    OBVIOUS
  <2>4. PICK after : after = xfer'.mode
    OBVIOUS
  <2>5. /\ a \in Responses /\ Final(a) /\ a.sid = Head(reqs).sid
        /\ a.sid \in Starts => \/ a.ok /\ xfer.mode = "IDLE" /\ after = ModeOf(a.sid)
                               \/ ~ a.ok /\ after = xfer.mode
        /\ a.sid = "36" => after = xfer.mode
        /\ resps' = Append(resps, a)
    BY <1>1, <1>3, <2>2, <2>3, <2>4 DEF r
  <2>6. /\ Leftover(resps', reqs', after)
        /\ Several(resps, reqs) => Several(resps', reqs')
        /\ StartFirst(resps, reqs) => StartFirst(resps', reqs')
    BY <1>1, <2>1, <2>5, LeftoverAnswer
  <2> QED
    BY <1>1, <2>1, <2>4, <2>6 DEF StaleCall
<1>8. SyncInv'
  <2> SUFFICES ASSUME clear, pc # "idle"
               PROVE  /\ \A i \in Finals(resps') :
                           /\ i = Len(resps') /\ reqs' = <<>>
                           /\ resps'[i].sid = pc
                           /\ resps'[i].ok => Granted(resps[i].bytes)'
                      /\ reqs' # <<>> => reqs' = <<Own>>' /\ Asked'
    BY <1>1 DEF SyncInv
  <2>1. Finals(resps) = {} /\ reqs = <<Own>> /\ Asked
    BY <1>1 DEF IInv, SyncInv
  <2>2. reqs' = <<>> /\ r = Own
    BY <1>1, <2>1 DEF r
  <2>3. CASE ecuReply' = Ecu!NoReply
    BY <1>1, <2>1, <2>2, <2>3
  <2>4. CASE ecuReply' # Ecu!NoReply
    <3>1. PICK a : a = Response(r)
      OBVIOUS
    <3>2. a \in Responses /\ Final(a) /\ a.sid = r.sid /\ resps' = Append(resps, a)
      BY <1>1, <1>3, <2>4, <3>1
    <3>3. r.sid = pc
      <4>1. CASE pc \in Starts
        <5>1. Own = StartRequest(job) /\ pc = StartSid(job) /\ job \in Jobs /\ Fits(job)
          BY <1>1, <4>1 DEF IInv, CallInv, Own, FittingJobs
        <5> QED
          BY <2>2, <5>1, RequestParsed DEF StartSid
      <4>2. CASE pc \in {"36", "37"}
        BY <2>2, <4>2 DEF IInv, CallInv, Own, Starts
      <4> QED
        BY <4>1, <4>2 DEF IInv, CallInv, TypeOK, Starts
    <3>4. a.ok => Granted(a.bytes)'
      <4> SUFFICES ASSUME a.ok PROVE Granted(a.bytes)'
        OBVIOUS
      <4>1. ecuReply' = Ecu!Positive /\ EcuHandles(Own) /\ a.bytes = Response(Own).bytes
        BY <1>1, <1>3, <2>2, <3>1
      <4>2. PICK answer : answer = a.bytes
        OBVIOUS
      <4>3. Granted(answer)'
        BY <1>1, <2>1, <4>1, <4>2, OwnAnswered DEF IInv
      <4> QED
        BY <4>2, <4>3
    <3>5. Finals(resps') = {Len(resps')} /\ resps'[Len(resps')] = a
      <4>1. Finals(resps') = {} \cup {Len(resps) + 1}
        BY <1>1, <2>1, <3>2, FinalsOfAppend
      <4> QED
        BY <1>1, <3>2, <4>1, AppendElements
    <3> QED
      BY <2>2, <3>2, <3>3, <3>4, <3>5
  <2> QED
    BY <2>3, <2>4
<1> QED
  BY <1>3, <1>4, <1>5, <1>6, <1>7, <1>8 DEF IInv

\* Once the whole length is moved, flash and data agree.
LEMMA AllMoved ==
  ASSUME EcuInv, job \in Jobs, NEW p \in Nat, p >= job.length, NEW sn,
         NEW r \in Seq(Byte),
         Session(p, sn, IF job.kind = "download" THEN SubSeq(job.bytes, 1, p) ELSE r)
  PROVE  IF job.kind = "download"
         THEN \A k \in 1 .. job.length : data[job.address + k - 1] = job.bytes[k]
         ELSE SubSeq(r, 1, job.length) = Ecu!uds_flash_read(job.address, job.length)
<1> DEFINE n == job.length
           a == job.address
<1>1. n \in Nat \ {0} /\ a \in Nat /\ job.kind \in {"download", "upload"}
      /\ (job.kind = "download" => job.bytes \in [1 .. n -> Byte])
  BY ProgrammerAssumption
<1>2. /\ xfer.mode = ModeOf(StartSid(job)) /\ xfer.mode # "IDLE"
      /\ xfer.address = a /\ xfer.total_length = n /\ xfer.transferred = p
      /\ image = IF job.kind = "download" THEN SubSeq(job.bytes, 1, p) ELSE r
  BY DEF Session, ModeOf
<1>3. /\ EcuTh!TypeOK /\ EcuTh!WindowInRegion
      /\ EcuTh!DownloadContents /\ EcuTh!UploadServed
  BY DEF EcuInv, EcuTh!IInv
<1>4. p = n /\ a + n <= FlashSize
  <2>1. xfer.transferred <= xfer.total_length /\ xfer.address + xfer.total_length <= FlashSize
    BY <1>2, <1>3, EcuConstants, EcuTh!NoWrap
  <2> QED
    BY <1>1, <1>2, <2>1
<1> HIDE DEF n, a
<1>5. CASE job.kind = "download"
  <2>1. xfer.mode = "DOWNLOAD"
    BY <1>2, <1>5 DEF ModeOf, StartSid
  <2>2. ASSUME NEW k \in 1 .. n PROVE data[a + k - 1] = job.bytes[k]
    <3>1. /\ a + k - 1 \in EcuTh!Cells /\ a + k - 1 \in EcuTh!Window
          /\ (a + k - 1) - xfer.address + 1 = k
          /\ (a + k - 1) - xfer.address < xfer.transferred
      <4>1. k \in Nat /\ 1 <= k /\ k <= n /\ FlashSize \in Nat
        BY <1>1, EcuConstants DEF EcuTh!SizesAssumption
      <4> QED
        BY <1>1, <1>2, <1>4, <4>1 DEF EcuTh!Cells, EcuTh!Window
    <3>2. data[a + k - 1] = image[(a + k - 1) - xfer.address + 1]
      BY <1>3, <2>1, <3>1 DEF EcuTh!DownloadContents
    <3>3. image[k] = job.bytes[k]
      <4>1. image = SubSeq(job.bytes, 1, n)
        BY <1>2, <1>4, <1>5
      <4>2. job.bytes \in Seq(Byte) /\ Len(job.bytes) = n
        BY <1>1, <1>5
      <4> QED
        BY <1>1, <4>1, <4>2
    <3> QED
      BY <3>1, <3>2, <3>3
  <2> QED
    BY <1>5, <2>2 DEF n, a
<1>6. CASE job.kind # "download"
  <2>1. xfer.mode = "UPLOAD" /\ image = r
    BY <1>2, <1>6 DEF ModeOf, StartSid
  <2>2. Len(r) = n /\ \A k \in 1 .. n : r[k] = data[a + k - 1]
    BY <1>2, <1>3, <1>4, <2>1 DEF EcuTh!UploadServed
  <2>3. r = [k \in 1 .. n |-> data[a + k - 1]]
    BY <1>1, <2>2
  <2>4. SubSeq(r, 1, n) = r
    <3> DEFINE c == SubSeq(r, 1, n)
    <3>1. c \in Seq(Byte) /\ Len(c) = n /\ \A k \in 1 .. n : c[k] = r[k]
      BY <1>1, <2>2
    <3> HIDE DEF c
    <3>2. c = r
      BY <2>2, <3>1, SeqEqual
    <3> QED
      BY <3>2 DEF c
  <2> QED
    BY <1>6, <2>3, <2>4 DEF Ecu!uds_flash_read, n, a
<1> QED
  BY <1>5, <1>6

\* A start stays the first answer under way when a request joins the queue.
LEMMA StartStaysFirst ==
  ASSUME NEW p, NEW q \in Seq(Requests), NEW r \in Requests, StartFirst(p, q)
  PROVE  StartFirst(p, Append(q, r))
<1>1. CASE \E i \in Finals(p) : p[i].sid \in Starts /\ \A j \in Finals(p) : i <= j
  BY <1>1 DEF StartFirst
<1>2. CASE Finals(p) = {} /\ q # <<>> /\ q[1].sid \in Starts
  <2>1. 1 \in 1 .. Len(q)
    BY <1>2, TailElements
  <2>2. Append(q, r)[1] = q[1] /\ Append(q, r) # <<>>
    BY <2>1, AppendElements
  <2> QED
    BY <1>2, <2>2 DEF StartFirst
<1> QED
  BY <1>1, <1>2 DEF StartFirst

\* An answer is taken that moves the call on to its next request: if it is the
\* call's own, the ECU's transfer is as far as the call, and otherwise it was the
\* answer to another call's transfer start, with another such answer behind it.
LEMMA NextSent ==
  ASSUME IInv, pc # "idle", resps # <<>>, Final(Head(resps)), Expected(Head(resps)),
         resps' = Tail(resps), UNCHANGED <<ecuVars, lost, clear, job, outcome>>,
         NEW p \in Nat, NEW sn \in 1 .. SeqMax, NEW res \in Seq(Byte),
         pos' = p, block_sn' = sn, result' = res, Send(NextRequest(p, sn)),
         Len(res) <= p, job.kind = "upload" => Len(res) = p,
         clear => Session(p, sn, IF job.kind = "download" THEN SubSeq(job.bytes, 1, p)
                                 ELSE res),
         ~ clear /\ ~ lost => pc \in Starts /\ p = 0
  PROVE  IInv'
<1>1. /\ job \in FittingJobs /\ job \in Jobs /\ outcome = "none"
      /\ job.kind \in {"download", "upload"} /\ job.length \in Nat \ {0}
      /\ resps \in Seq(Responses) /\ reqs \in Seq(Requests)
      /\ UNCHANGED <<data, xfer, image>>
  BY ProgrammerAssumption DEF IInv, CallInv, PduInv, FittingJobs, ecuVars
<1> DEFINE r == NextRequest(p, sn)
<1>2. /\ r \in Requests /\ r.sid \in {"36", "37"}
      /\ r.sid = "37" => p >= job.length
      /\ r.sid = "36" /\ job.kind = "download" => r.bytes # <<>>
      /\ p < job.length => r.sid = "36"
  <2>1. p < job.length \/ p >= job.length
    BY <1>1
  <2> QED
    BY <1>1, <2>1, NextRequestFacts DEF ExitRequest, Request
<1>3. NextRequest(pos, block_sn)' = r
  BY DEF NextRequest, Chunk
<1> HIDE DEF r
<1>4. /\ reqs' = Append(reqs, r) /\ pc' = r.sid /\ attempts' = 0
      /\ pc' \in {"36", "37"} /\ pc' \notin Starts /\ pc' # "idle"
  BY <1>2 DEF Send, r, Starts
<1>5. Tail(resps) \in Seq(Responses)
  BY <1>1, TailElements
<1>6. EcuInv'
  BY EcuUnchanged DEF IInv
<1>7. PduInv'
  BY <1>1, <1>2, <1>4, <1>5, AppendElements DEF PduInv
<1>8. CallInv'
  <2>1. TypeOK'
    BY <1>1, <1>4, ProgrammerAssumption DEF TypeOK
  <2>2. job' \in FittingJobs'
    BY <1>1 DEF FittingJobs, Fits
  <2> QED
    BY <1>1, <1>3, <1>4, <2>1, <2>2 DEF CallInv
<1>9. DoneInv'
  BY <1>1 DEF DoneInv
<1>10. clear => reqs = <<>> /\ Tail(resps) = <<>> /\ Finals(Tail(resps)) = {}
  <2> SUFFICES ASSUME clear PROVE reqs = <<>> /\ Tail(resps) = <<>> /\ Finals(Tail(resps)) = {}
    OBVIOUS
  <2>1. 1 \in Finals(resps)
    BY <1>1, TailElements DEF Finals
  <2>2. 1 = Len(resps) /\ reqs = <<>>
    BY <2>1 DEF IInv, SyncInv
  <2>3. Len(Tail(resps)) = 0
    BY <1>1, <2>2, TailElements
  <2> QED
    BY <1>5, <2>2, <2>3, EmptySeq DEF Finals
<1>11. SyncInv'
  <2> SUFFICES ASSUME clear
               PROVE  /\ Finals(resps') = {}
                      /\ reqs' = <<Own>>' /\ Asked'
    BY DEF SyncInv
  <2>1. reqs' = <<r>> /\ Own' = r
    BY <1>3, <1>4, <1>10 DEF Own
  <2>2. Session(pos, block_sn, Moved)'
    <3>1. Moved' = IF job.kind = "download" THEN SubSeq(job.bytes, 1, p) ELSE res
      BY DEF Moved
    <3>2. StartSid(job)' = StartSid(job)
      BY DEF StartSid
    <3> QED
      BY <1>1, <3>1, <3>2 DEF Session
  <2>3. ASSUME pc' = "37" PROVE Contents'
    <3>1. p >= job.length
      BY <1>2, <1>4, <2>3
    <3>2. IF job.kind = "download"
          THEN \A k \in 1 .. job.length : data[job.address + k - 1] = job.bytes[k]
          ELSE SubSeq(res, 1, job.length) = Ecu!uds_flash_read(job.address, job.length)
      BY <1>1, <3>1, AllMoved DEF IInv
    <3>3. Ecu!uds_flash_read(job.address, job.length)' = Ecu!uds_flash_read(job.address, job.length)
      BY <1>1 DEF Ecu!uds_flash_read
    <3> QED
      BY <1>1, <3>2, <3>3 DEF Contents
  <2> QED
    BY <1>10, <2>1, <2>2, <2>3 DEF Asked
<1>12. StaleInv'
  <2> SUFFICES ASSUME ~ lost
               PROVE  Leftover(Tail(resps), Append(reqs, r), xfer.mode)
                      /\ (~ clear => StaleCall')
    BY <1>1, <1>4 DEF StaleInv
  <2>1. Leftover(resps, reqs, xfer.mode) /\ (~ clear => StaleCall)
    BY DEF IInv, StaleInv
  <2>2. Leftover(Tail(resps), reqs, xfer.mode)
    BY <1>1, <2>1, LeftoverTail
  <2>3. CASE clear
    <3>1. xfer.mode = ModeOf(StartSid(job))
      BY <2>3 DEF Session
    <3>2. r.sid = "36" /\ r.bytes = <<>> => xfer.mode # "DOWNLOAD"
      BY <1>1, <1>2, <3>1 DEF ModeOf, StartSid
    <3>3. Leftover(Tail(resps), Append(reqs, r), xfer.mode)
      BY <1>1, <1>2, <1>5, <1>10, <2>2, <2>3, <3>2, LeftoverSend
    <3> QED
      BY <2>3, <3>3
  <2>4. CASE ~ clear
    <3>1. pc \in Starts /\ p = 0 /\ pc = StartSid(job) /\ Several(resps, reqs)
      BY <2>1, <2>4 DEF IInv, CallInv, StaleCall, Starts
    <3>2. OkStart(Head(resps)) /\ Head(resps).sid = pc
      BY <3>1 DEF OkStart, Expected
    <3>3. /\ xfer.mode = ModeOf(pc)
          /\ StartFirst(Tail(resps), reqs)
          /\ \A i \in Finals(Tail(resps)) : /\ Tail(resps)[i].sid # "37"
                                            /\ ~ OkStart(Tail(resps)[i])
          /\ \A k \in 1 .. Len(reqs) : reqs[k].sid # "37"
      BY <1>1, <2>1, <3>1, <3>2, StartTaken
    <3>4. r.sid = "36" /\ xfer.mode # "IDLE"
      BY <1>1, <1>2, <3>1, <3>3 DEF ModeOf
    <3>5. r.bytes = <<>> => xfer.mode # "DOWNLOAD"
      BY <1>1, <1>2, <3>1, <3>3, <3>4 DEF ModeOf, StartSid
    <3>6. Leftover(Tail(resps), Append(reqs, r), xfer.mode)
      BY <1>1, <1>2, <1>5, <2>2, <3>3, <3>4, <3>5, LeftoverSend
    <3>7. StartFirst(Tail(resps), Append(reqs, r))
      BY <1>1, <1>2, <3>3, StartStaysFirst
    <3>8. StaleCall'
      BY <1>1, <1>4, <3>4, <3>7 DEF StaleCall
    <3> QED
      BY <3>6, <3>8
  <2> QED
    BY <2>3, <2>4
<1> QED
  BY <1>6, <1>7, <1>8, <1>9, <1>11, <1>12 DEF IInv

\* What the answer taken says of a call.
LEMMA AnswerTaken ==
  ASSUME IInv, pc # "idle", resps # <<>>, Final(Head(resps)), Expected(Head(resps))
  PROVE  /\ job \in Jobs /\ Head(resps) \in Responses
         /\ clear => reqs = <<>> /\ Granted(Head(resps).bytes)
         /\ ~ clear /\ ~ lost => pc \in Starts
<1>1. /\ job \in Jobs /\ resps \in Seq(Responses) /\ reqs \in Seq(Requests)
  BY DEF IInv, CallInv, PduInv, FittingJobs
<1>2. Head(resps) = resps[1] /\ Head(resps) \in Responses /\ 1 \in Finals(resps)
  BY <1>1, TailElements DEF Finals
<1>3. clear => reqs = <<>> /\ Granted(Head(resps).bytes)
  BY <1>2 DEF IInv, SyncInv, Expected
<1>4. ASSUME ~ clear, ~ lost, pc \notin Starts PROVE FALSE
  <2>1. pc = "36" /\ StartFirst(resps, reqs)
    BY <1>4 DEF IInv, StaleInv, StaleCall
  <2>2. Head(resps).sid \in Starts
    BY <1>1, <2>1, HeadIsStart
  <2> QED
    BY <1>4, <2>2 DEF Expected
<1> QED
  BY <1>1, <1>2, <1>3, <1>4

\* The transfer has started: the first block is sent, or the end.
LEMMA AfterStartInv ==
  ASSUME IInv, pc # "idle", resps # <<>>, Final(Head(resps)), Expected(Head(resps)),
         resps' = Tail(resps), UNCHANGED <<ecuVars, lost, clear>>, AfterStart
  PROVE  IInv'
<1>1. /\ pc \in Starts /\ pos = 0 /\ block_sn = 1 /\ result = <<>>
      /\ UNCHANGED <<job, pos, block_sn, result, outcome>>
      /\ Send(NextRequest(0, 1))
  BY DEF AfterStart, Starts, IInv, CallInv
<1>2. 1 \in 1 .. SeqMax /\ <<>> \in Seq(Byte) /\ Len(<<>>) = 0
  BY EcuConstants, EmptySeq DEF EcuTh!SizesAssumption
<1>3. clear => Session(0, 1, <<>>)
  BY <1>1, AnswerTaken DEF Granted
<1>4. SubSeq(job.bytes, 1, 0) = <<>>
  OBVIOUS
<1>5. PICK res : res = <<>>
  OBVIOUS
<1>6. /\ res \in Seq(Byte) /\ Len(res) <= 0 /\ Len(res) = 0
      /\ pos' = 0 /\ block_sn' = 1 /\ result' = res
  BY <1>1, <1>2, <1>5
<1>8. (IF job.kind = "download" THEN SubSeq(job.bytes, 1, 0) ELSE res) = <<>>
  BY <1>4, <1>5
<1>9. clear => Session(0, 1, IF job.kind = "download" THEN SubSeq(job.bytes, 1, 0)
                             ELSE res)
  BY <1>3, <1>8
<1>7. UNCHANGED <<ecuVars, lost, clear, job, outcome>>
  BY <1>1
<1> QED
  BY <1>1, <1>2, <1>6, <1>7, <1>9, NextSent

\* A block was transferred: the next one is sent, or the end.
LEMMA AfterBlockInv ==
  ASSUME IInv, pc # "idle", resps # <<>>, Final(Head(resps)), Expected(Head(resps)),
         resps' = Tail(resps), UNCHANGED <<ecuVars, lost, clear>>,
         AfterBlock(Head(resps))
  PROVE  IInv'
<1>1. /\ pc = "36" /\ job \in Jobs /\ Head(resps).bytes \in Seq(Byte)
      /\ pos \in Nat /\ block_sn \in 1 .. SeqMax /\ result \in Seq(Byte)
      /\ Len(result) <= pos /\ (job.kind = "upload" => Len(result) = pos)
      /\ job.kind \in {"download", "upload"} /\ job.length \in Nat
      /\ pc = NextRequest(pos, block_sn).sid
  BY AnswerTaken, ProgrammerAssumption DEF AfterBlock, IInv, CallInv, TypeOK, Responses
<1>2. PICK b : b = Head(resps).bytes
  OBVIOUS
<1>3. PICK p : p = pos + Len(Block(b))
  OBVIOUS
<1>4. PICK res : res = IF job.kind = "upload" THEN result \o b ELSE result
  OBVIOUS
<1>5. PICK sn : sn = NextSn(block_sn)
  OBVIOUS
<1>6. sn \in 1 .. SeqMax
  BY <1>1, <1>5, EcuConstants DEF NextSn, EcuTh!SizesAssumption
<1>7. pos' = p /\ block_sn' = sn /\ result' = res /\ Send(NextRequest(p, sn))
      /\ UNCHANGED <<ecuVars, lost, clear, job, outcome>>
  BY <1>2, <1>3, <1>4, <1>5 DEF AfterBlock, Block
<1>8. pos < job.length
  BY <1>1, NextRequestFacts DEF ExitRequest, Request
<1>9. clear => Session(p, sn, Moved \o Block(b))
  BY <1>1, <1>2, <1>3, <1>5, AnswerTaken DEF Granted, Starts
<1>10. ~ clear /\ ~ lost => pc \in Starts /\ p = 0
  BY <1>1, AnswerTaken DEF Starts
<1>11. CASE job.kind = "download"
  <2>1. /\ Len(Chunk(pos)) \in Nat
        /\ SubSeq(job.bytes, 1, pos) \o Chunk(pos) = SubSeq(job.bytes, 1, pos + Len(Chunk(pos)))
    BY <1>1, <1>8, <1>11, ChunkFacts
  <2>2. p = pos + Len(Chunk(pos)) /\ res = result /\ Moved = SubSeq(job.bytes, 1, pos)
        /\ Block(b) = Chunk(pos)
    BY <1>3, <1>4, <1>11 DEF Block, Moved
  <2>3. p \in Nat /\ res \in Seq(Byte) /\ Len(res) <= p
    BY <1>1, <2>1, <2>2
  <2>4. clear => Session(p, sn, IF job.kind = "download" THEN SubSeq(job.bytes, 1, p)
                                ELSE res)
    BY <1>9, <1>11, <2>1, <2>2
  <2>5. job.kind = "upload" => Len(res) = p
    BY <1>11
  <2> QED
    BY <1>6, <1>7, <1>10, <2>3, <2>4, <2>5, NextSent
<1>12. CASE job.kind = "upload"
  <2>1. p = pos + Len(b) /\ res = result \o b /\ Moved = result /\ Block(b) = b
    BY <1>3, <1>4, <1>12 DEF Block, Moved
  <2>2. p \in Nat /\ res \in Seq(Byte) /\ Len(res) = p
    BY <1>1, <1>2, <1>12, <2>1, ConcatProperties
  <2>3. clear => Session(p, sn, IF job.kind = "download" THEN SubSeq(job.bytes, 1, p)
                                ELSE res)
    BY <1>9, <1>12, <2>1
  <2>4. Len(res) <= p
    BY <2>2
  <2> QED
    BY <1>6, <1>7, <1>10, <2>2, <2>3, <2>4, NextSent
<1> QED
  BY <1>1, <1>11, <1>12

\* The transfer is over: the call returns.
LEMMA AfterExitInv ==
  ASSUME IInv, pc # "idle", resps # <<>>, Final(Head(resps)), Expected(Head(resps)),
         resps' = Tail(resps), UNCHANGED <<ecuVars, lost, clear>>, AfterExit
  PROVE  IInv'
<1>1. /\ pc = "37" /\ outcome' = "ok" /\ pc' = "idle"
      /\ UNCHANGED <<reqs, job, pos, block_sn, result, attempts>>
      /\ resps \in Seq(Responses) /\ reqs \in Seq(Requests)
      /\ UNCHANGED <<data, xfer>>
  BY DEF AfterExit, Finish, IInv, PduInv, ecuVars
<1>2. EcuInv'
  BY EcuUnchanged DEF IInv
<1>3. PduInv'
  BY <1>1, TailElements DEF PduInv
<1>4. CallInv'
  BY <1>1 DEF IInv, CallInv, TypeOK, Starts
<1>5. SyncInv'
  BY <1>1 DEF SyncInv
<1>6. DoneInv'
  <2>1. clear => reqs = <<>> /\ Contents
    BY <1>1, AnswerTaken DEF Granted
  <2>2. Contents' <=> Contents
    BY <1>1 DEF Contents, Ecu!uds_flash_read
  <2> QED
    BY <1>1, <2>1, <2>2 DEF DoneInv
<1>7. StaleInv'
  <2>1. ~ lost => clear
    BY <1>1, AnswerTaken DEF Starts
  <2>2. ~ lost => Leftover(Tail(resps), reqs, xfer.mode)
    BY <1>1, LeftoverTail DEF IInv, StaleInv
  <2> QED
    BY <1>1, <2>1, <2>2 DEF StaleInv
<1> QED
  BY <1>2, <1>3, <1>4, <1>5, <1>6, <1>7 DEF IInv

\* The client takes a response: a RESPONSE_PENDING makes it wait on, any other
\* ends the call or moves it on.
LEMMA RequestInv == IInv /\ _request => IInv'
<1> SUFFICES ASSUME IInv, _request PROVE IInv'
  OBVIOUS
<1>1. /\ pc # "idle" /\ resps # <<>> /\ resps' = Tail(resps)
      /\ UNCHANGED <<ecuVars, lost, clear>>
      /\ resps \in Seq(Responses) /\ reqs \in Seq(Requests)
      /\ UNCHANGED <<data, xfer, image>>
  BY DEF _request, IInv, PduInv, ecuVars
<1>2. ~ lost => Leftover(Tail(resps), reqs, xfer.mode)
  BY <1>1, LeftoverTail DEF IInv, StaleInv
<1>3. Tail(resps) \in Seq(Responses)
  BY <1>1, TailElements
<1>4. CASE Finish("error")
  <2>1. reqs' = reqs
    BY <1>4 DEF Finish
  <2>2. PduInv' /\ (~ lost' => Leftover(resps', reqs', xfer.mode))
    BY <1>1, <1>2, <1>3, <2>1 DEF PduInv
  <2>3. UNCHANGED <<ecuVars, clear>>
    BY <1>1
  <2> QED
    BY <1>4, <2>2, <2>3, FailedInv
<1>5. CASE /\ ~ Final(Head(resps)) /\ attempts < MaxPending
           /\ attempts' = attempts + 1
           /\ UNCHANGED <<reqs, job, pc, pos, block_sn, result, outcome>>
  <2>1. EcuInv'
    BY <1>1, EcuUnchanged DEF IInv
  <2>2. PduInv'
    BY <1>1, <1>3, <1>5 DEF PduInv
  <2>3. CallInv'
    BY <1>5, ProgrammerAssumption DEF IInv, CallInv, TypeOK, NextRequest, Chunk
  <2>4. Contents' <=> Contents
    BY <1>1, <1>5 DEF Contents, Ecu!uds_flash_read
  <2>5. DoneInv'
    BY <1>1, <1>5, <2>4 DEF IInv, DoneInv
  <2>6. /\ Several(resps, reqs) => Several(Tail(resps), reqs)
        /\ StartFirst(resps, reqs) => StartFirst(Tail(resps), reqs)
    BY <1>1, <1>5, PendingTaken
  <2>7. StaleInv'
    BY <1>1, <1>2, <1>5, <2>6 DEF IInv, StaleInv, StaleCall
  <2>8. SyncInv'
    <3> SUFFICES ASSUME clear
                 PROVE  /\ \A i \in Finals(resps') :
                             /\ i = Len(resps') /\ reqs' = <<>>
                             /\ resps'[i].sid = pc
                             /\ resps'[i].ok => Granted(resps[i].bytes)'
                        /\ reqs' # <<>> => reqs' = <<Own>>' /\ Asked'
      BY <1>1, <1>5 DEF SyncInv
    <3>1. /\ \A i \in Finals(resps) : /\ i = Len(resps) /\ reqs = <<>>
                                      /\ resps[i].sid = pc
                                      /\ resps[i].ok => Granted(resps[i].bytes)
          /\ reqs # <<>> => reqs = <<Own>> /\ Asked
      BY <1>1 DEF IInv, SyncInv
    <3>2. /\ Moved' = Moved /\ \A b : Block(b)' = Block(b)
          /\ StartSid(job)' = StartSid(job)
      BY <1>5 DEF Moved, Block, Chunk, StartSid
    <3>3. (Asked' <=> Asked) /\ \A b : Granted(b)' <=> Granted(b)
      BY <1>1, <1>5, <2>4, <3>2 DEF Asked, Granted, Session
    <3>4. Own' = Own
      BY <1>5 DEF Own, NextRequest, Chunk
    <3>5. ASSUME NEW i \in Finals(resps')
          PROVE  /\ i = Len(resps') /\ reqs' = <<>> /\ resps'[i].sid = pc
                 /\ resps'[i].ok => Granted(resps[i].bytes)'
      <4>1. i + 1 \in Finals(resps) /\ i \in Nat /\ resps'[i] = resps[i + 1]
        BY <1>1, FinalsOfTail
      <4>2. /\ i + 1 = Len(resps) /\ reqs = <<>> /\ resps[i + 1].sid = pc
            /\ resps[i + 1].ok => Granted(resps[i + 1].bytes)
        BY <3>1, <4>1
      <4>3. i = Len(resps')
        BY <1>1, <4>1, <4>2, TailElements
      <4>4. resps'[i].ok => Granted(resps[i].bytes)'
        BY <3>3, <4>1, <4>2
      <4> QED
        BY <1>5, <4>1, <4>2, <4>3, <4>4
    <3> QED
      BY <1>5, <3>1, <3>3, <3>4, <3>5
  <2> QED
    BY <2>1, <2>2, <2>3, <2>5, <2>7, <2>8 DEF IInv
<1>6. CASE /\ Final(Head(resps)) /\ Expected(Head(resps))
           /\ AfterStart \/ AfterBlock(Head(resps)) \/ AfterExit
  BY <1>1, <1>6, AfterStartInv, AfterBlockInv, AfterExitInv
<1> QED
  BY <1>4, <1>5, <1>6 DEF _request, Final

\* Every step keeps the invariant.
LEMMA NextInv == IInv /\ [Next]_vars => IInv'
<1> SUFFICES ASSUME IInv, [Next]_vars PROVE IInv'
  OBVIOUS
<1>1. ASSUME NEW j \in Jobs, StartJob(j) PROVE IInv'
  BY <1>1, StartJobInv
<1>2. CASE UNCHANGED vars
  <2>1. UNCHANGED <<ecuVars, callVars>> /\ UNCHANGED <<reqs, resps, lost, clear, xfer>>
        /\ UNCHANGED <<pc, outcome>>
    BY <1>2 DEF vars, ecuVars, callVars
  <2>2. /\ Contents' <=> Contents
        /\ Asked' <=> Asked
        /\ Own' = Own
        /\ \A b : Granted(b)' <=> Granted(b)
        /\ CallInv' /\ EcuInv'
    BY <2>1, CallUnchanged DEF IInv
  <2>3. PduInv' /\ DoneInv'
    BY <2>1, <2>2 DEF IInv, PduInv, DoneInv
  <2>4. StaleInv'
    BY <2>1 DEF IInv, StaleInv, StaleCall
  <2>5. SyncInv'
    BY <2>1, <2>2 DEF IInv, SyncInv
  <2> QED
    BY <2>2, <2>3, <2>4, <2>5 DEF IInv
<1> QED
  BY <1>1, <1>2, RequestInv, TimeoutInv, EcuRunInv, LosePduInv, ResponsePendingInv DEF Next

\* The invariant holds of every reachable state.
LEMMA Invariance == Spec => []IInv
BY InitInv, NextInv, PTL DEF Spec

----------------------------------------------------------------------------
(* A clean bus.  The call's answer is always under way: either the ECU     *)
(* still has to handle the request, in a state in which it grants it, or   *)
(* the last response is the positive answer.  The turns of the loop and    *)
(* the responses queued are at most the disturbances and that answer.      *)

Undisturbed == bus = "clean" /\ disturbed <= MaxPending

Waiting ==
  \/ /\ reqs # <<>>
     /\ pc \in Starts => xfer.mode = "IDLE"
     /\ pc = "37" => xfer.mode # "IDLE"
     /\ attempts + Len(resps) <= disturbed
  \/ /\ reqs = <<>> /\ resps # <<>>
     /\ Final(resps[Len(resps)]) /\ resps[Len(resps)].ok
     /\ pc = "37" => xfer.mode = "IDLE"
     /\ attempts + Len(resps) <= disturbed + 1

CleanInv ==
  /\ disturbed \in Nat
  /\ Undisturbed =>
       /\ clear
       /\ pc = "idle" => reqs = <<>> /\ resps = <<>> /\ xfer.mode = "IDLE"
       /\ pc # "idle" => Waiting
       /\ outcome = "error" => ~ Fits(job)

\* The ECU grants the request of a call whose transfer is as far as the call.
LEMMA OwnGranted ==
  ASSUME JobsAccepted, EcuInv, CallInv, pc # "idle", Asked, EcuHandles(Own),
         pc \in Starts => xfer.mode = "IDLE",
         pc = "37" => xfer.mode # "IDLE"
  PROVE  /\ ecuReply' = Ecu!Positive
         /\ pc = "37" => xfer'.mode = "IDLE"
<1>1. /\ job \in Jobs /\ job \in FittingJobs /\ Fits(job)
      /\ job.kind \in {"download", "upload"} /\ job.length \in Nat
      /\ pos \in Nat /\ block_sn \in 1 .. SeqMax
      /\ pc \in {"34", "35", "36", "37"}
  BY ProgrammerAssumption DEF CallInv, TypeOK, FittingJobs
<1>2. CASE pc \in Starts
  <2>1. EcuHandles(StartRequest(job)) /\ Accepted(job) /\ pc # "37"
    BY <1>1, <1>2 DEF Own, Starts, JobsAccepted
  <2> QED
    BY <1>1, <1>2, <2>1, StartHandled
<1>3. CASE pc = "36"
  <2> DEFINE b == NextRequest(pos, block_sn).bytes
  <2>1. pos < job.length
    BY <1>1, <1>3, NextRequestFacts DEF CallInv, ExitRequest, Request
  <2>2. /\ b \in Seq(Byte) /\ Own = Request("36", block_sn, b)
        /\ job.kind = "download" => b = Chunk(pos) /\ b # <<>>
    BY <1>1, <1>3, <2>1, NextRequestFacts DEF Own, Starts
  <2> HIDE DEF b
  <2>3. /\ xfer.mode = ModeOf(StartSid(job)) /\ xfer.total_length = job.length
        /\ xfer.transferred = pos /\ xfer.block_seq = block_sn
    BY <1>3 DEF Asked, Session
  <2>4. xfer.mode # "IDLE" /\ (xfer.mode = "DOWNLOAD" => job.kind = "download")
    BY <2>3 DEF ModeOf, StartSid
  <2>5. xfer.mode = "DOWNLOAD" =>
          b # <<>> /\ Len(b) <= xfer.total_length - xfer.transferred
    <3> SUFFICES ASSUME xfer.mode = "DOWNLOAD"
                 PROVE  b # <<>> /\ Len(b) <= job.length - pos
      BY <2>3
    <3>1. b = Chunk(pos) /\ b # <<>>
      BY <2>2, <2>4
    <3>2. Len(Chunk(pos)) \in Nat /\ pos + Len(Chunk(pos)) <= job.length
      BY <1>1, <2>1, <2>4, ChunkFacts
    <3> QED
      BY <1>1, <3>1, <3>2
  <2>6. EcuHandles(Request("36", block_sn, b))
    BY <2>2
  <2>7. ecuReply' = Ecu!Positive
    BY <2>1, <2>2, <2>3, <2>4, <2>5, <2>6, BlockHandled
  <2> QED
    BY <1>3, <2>7
<1>4. CASE pc = "37"
  <2>1. Own = ExitRequest
    BY <1>1, <1>4, NextRequestFacts DEF CallInv, Own, Starts
  <2>2. EcuHandles(ExitRequest)
    BY <2>1
  <2> QED
    BY <1>4, <2>2, ExitHandled
<1> QED
  BY <1>1, <1>2, <1>3, <1>4 DEF Starts

\* The initial state: no PDU in flight, no transfer.
LEMMA CleanInit == Init => CleanInv
BY DEF Init, CleanInv, Ecu!Init, Ecu!uds_xfer_init

\* A call starts with nothing in flight and an idle ECU.
LEMMA CleanStart ==
  ASSUME IInv, CleanInv, NEW j \in Jobs, StartJob(j)
  PROVE  CleanInv'
<1>1. /\ pc = "idle" /\ job' = j /\ UNCHANGED <<xfer, resps, bus, disturbed>>
      /\ clear' = (reqs = <<>> /\ resps = <<>>)
      /\ reqs \in Seq(Requests) /\ resps \in Seq(Responses)
  BY DEF StartJob, ecuVars, IInv, PduInv
<1> SUFFICES ASSUME Undisturbed'
             PROVE  /\ clear'
                    /\ pc' = "idle" => reqs' = <<>> /\ resps' = <<>> /\ xfer'.mode = "IDLE"
                    /\ pc' # "idle" => Waiting'
                    /\ outcome' = "error" => ~ Fits(job')
  BY <1>1 DEF CleanInv, Fits
<1>2. reqs = <<>> /\ resps = <<>> /\ xfer.mode = "IDLE" /\ disturbed \in Nat
  BY <1>1 DEF CleanInv, Undisturbed
<1>3. CASE ~ Fits(j)
  BY <1>1, <1>2, <1>3 DEF StartJob
<1>4. CASE Fits(j)
  <2> DEFINE r == StartRequest(j)
  <2>1. reqs' = Append(reqs, r) /\ pc' = r.sid /\ attempts' = 0 /\ outcome' = "none"
    BY <1>4 DEF StartJob, Send
  <2>2. r.sid \in Starts /\ r \in Requests
    BY <1>4, RequestParsed DEF StartSid, Starts, Requests, StartRequests, FittingJobs
  <2> HIDE DEF r
  <2>3. reqs' # <<>>
    BY <1>1, <2>1, <2>2, AppendElements
  <2>4. Len(resps') = 0
    BY <1>1, <1>2
  <2>5. Waiting'
    BY <1>1, <1>2, <2>1, <2>2, <2>3, <2>4 DEF Waiting, Starts
  <2> QED
    BY <1>1, <1>2, <2>1, <2>2, <2>5 DEF Starts
<1> QED
  BY <1>3, <1>4

\* A call sends the next request of a transfer that is active.
LEMMA CleanSend ==
  ASSUME IInv, CleanInv, Undisturbed, clear, xfer.mode # "IDLE", outcome # "error",
         UNCHANGED <<xfer, bus, disturbed, clear, outcome>>, resps' = <<>>,
         NEW r \in Requests, r.sid \in {"36", "37"}, Send(r)
  PROVE  CleanInv'
<1>1. /\ reqs' = Append(reqs, r) /\ pc' = r.sid /\ attempts' = 0
      /\ reqs \in Seq(Requests) /\ disturbed \in Nat
  BY DEF Send, IInv, PduInv, CleanInv
<1>2. reqs' # <<>>
  BY <1>1, AppendElements
<1>3. Len(resps') = 0
  OBVIOUS
<1>4. Waiting'
  BY <1>1, <1>2, <1>3 DEF Waiting, Starts
<1> QED
  BY <1>1, <1>4 DEF CleanInv

\* The client takes a response: a RESPONSE_PENDING is within the limit, and a
\* final response is the positive answer.
LEMMA CleanRequest == IInv /\ CleanInv /\ _request => CleanInv'
<1> SUFFICES ASSUME IInv, CleanInv, _request PROVE CleanInv'
  OBVIOUS
<1>1. /\ pc # "idle" /\ resps # <<>> /\ resps' = Tail(resps)
      /\ UNCHANGED <<xfer, bus, disturbed, clear>>
      /\ resps \in Seq(Responses) /\ reqs \in Seq(Requests)
      /\ disturbed \in Nat /\ attempts \in Nat /\ outcome = "none"
  BY ProgrammerAssumption
     DEF _request, ecuVars, IInv, PduInv, CallInv, TypeOK, CleanInv
<1>2. CASE ~ Undisturbed
  BY <1>1, <1>2 DEF CleanInv, Undisturbed
<1>3. CASE Undisturbed
  <2>1. clear /\ Waiting /\ disturbed <= MaxPending /\ MaxPending \in Nat
    BY <1>1, <1>3, ProgrammerAssumption DEF CleanInv, Undisturbed
  <2>2. /\ Len(resps) \in Nat \ {0} /\ Len(Tail(resps)) = Len(resps) - 1
        /\ \A i \in 1 .. Len(resps) - 1 : Tail(resps)[i] = resps[i + 1]
        /\ Head(resps) = resps[1] /\ Tail(resps) \in Seq(Responses)
    BY <1>1, TailElements
  <2>3. CASE ~ Final(Head(resps))
    <3>1. reqs = <<>> => Len(resps) - 1 \in Nat \ {0}
      BY <2>1, <2>2, <2>3 DEF Waiting
    <3>2. attempts < MaxPending
      BY <1>1, <2>1, <2>2, <3>1 DEF Waiting
    <3>3. /\ attempts' = attempts + 1
          /\ UNCHANGED <<reqs, job, pc, outcome>>
      BY <1>1, <2>1, <2>3, <3>2 DEF _request, Final
    <3>4. Waiting'
      <4>1. CASE reqs # <<>>
        <5>1. attempts' + Len(resps') <= disturbed'
          BY <1>1, <2>1, <2>2, <3>3, <4>1 DEF Waiting
        <5> QED
          BY <1>1, <2>1, <3>3, <4>1, <5>1 DEF Waiting
      <4>2. CASE reqs = <<>>
        <5>1. attempts' + Len(resps') <= disturbed' + 1
          BY <1>1, <2>1, <2>2, <3>3, <4>2 DEF Waiting
        <5>2. Len(Tail(resps)) \in 1 .. Len(resps) - 1 /\ Len(Tail(resps)) # 0
          BY <2>2, <3>1, <4>2
        <5>3. Tail(resps)[Len(Tail(resps))] = resps[Len(resps)]
          BY <2>2, <5>2
        <5>4. Tail(resps) # <<>>
          BY <5>2, EmptySeq
        <5> QED
          BY <1>1, <2>1, <3>3, <4>2, <5>1, <5>3, <5>4 DEF Waiting
      <4> QED
        BY <4>1, <4>2
    <3> QED
      BY <1>1, <2>1, <3>3, <3>4 DEF CleanInv
  <2>4. CASE Final(Head(resps))
    <3>1. 1 \in Finals(resps)
      BY <2>2, <2>4 DEF Finals
    <3>2. Len(resps) = 1 /\ reqs = <<>> /\ Head(resps).sid = pc
      BY <1>1, <2>1, <2>2, <3>1 DEF IInv, SyncInv
    <3>3. Head(resps).ok /\ (pc = "37" => xfer.mode = "IDLE")
      BY <2>1, <2>2, <3>2 DEF Waiting
    <3>4. Expected(Head(resps))
      BY <3>2, <3>3 DEF Expected
    <3>5. resps' = <<>>
      BY <1>1, <2>2, <3>2, EmptySeq
    <3>6. job \in Jobs /\ Granted(Head(resps).bytes)
      BY <1>1, <2>1, <2>4, <3>4, AnswerTaken
    <3>7. AfterStart \/ AfterBlock(Head(resps)) \/ AfterExit
      BY <2>4, <3>4 DEF _request, Final
    <3>8. pc # "37" => xfer.mode # "IDLE"
      <4>1. pc \in {"34", "35", "36", "37"}
        BY <1>1 DEF IInv, CallInv, TypeOK
      <4> QED
        BY <3>6, <4>1 DEF Granted, Session, ModeOf, Starts
    <3>9. CASE AfterStart
      <4>1. 1 \in 1 .. SeqMax
        BY EcuConstants DEF EcuTh!SizesAssumption
      <4>2. NextRequest(0, 1) \in Requests /\ NextRequest(0, 1).sid \in {"36", "37"}
        BY <3>6, <4>1, NextRequestFacts
      <4>3. pc # "37" /\ Send(NextRequest(0, 1)) /\ UNCHANGED outcome
        BY <3>9 DEF AfterStart
      <4> QED
        BY <1>1, <1>3, <2>1, <3>5, <3>8, <4>2, <4>3, CleanSend
    <3>10. CASE AfterBlock(Head(resps))
      <4> DEFINE r == NextRequest(pos', NextSn(block_sn))
      <4>1. pc = "36" /\ Send(r) /\ UNCHANGED outcome
        BY <3>10 DEF AfterBlock
      <4>2. NextSn(block_sn) \in 1 .. SeqMax
        <5>1. block_sn \in 1 .. SeqMax
          BY DEF IInv, CallInv, TypeOK
        <5> QED
          BY <5>1, EcuConstants DEF NextSn, EcuTh!SizesAssumption
      <4>3. pos' \in Nat
        BY RequestInv DEF IInv, CallInv, TypeOK
      <4>4. r \in Requests /\ r.sid \in {"36", "37"}
        BY <3>6, <4>2, <4>3, NextRequestFacts
      <4> HIDE DEF r
      <4> QED
        BY <1>1, <1>3, <2>1, <3>5, <3>8, <4>1, <4>4, CleanSend
    <3>11. CASE AfterExit
      <4>1. pc = "37" /\ pc' = "idle" /\ outcome' = "ok" /\ UNCHANGED reqs
        BY <3>11 DEF AfterExit, Finish
      <4> QED
        BY <1>1, <2>1, <3>2, <3>3, <3>5, <4>1 DEF CleanInv
    <3> QED
      BY <3>7, <3>9, <3>10, <3>11
  <2> QED
    BY <2>3, <2>4
<1> QED
  BY <1>2, <1>3

\* recv() does not time out before the answer.
LEMMA CleanTimeout == IInv /\ CleanInv /\ Timeout => CleanInv'
<1> SUFFICES ASSUME IInv, CleanInv, Timeout PROVE CleanInv'
  OBVIOUS
<1>1. ~ Undisturbed
  BY DEF Timeout, CleanInv, Undisturbed, Waiting
<1> QED
  BY <1>1 DEF Timeout, CleanInv, Undisturbed

\* The ECU answers the call's request positively.
LEMMA CleanEcuRun ==
  ASSUME JobsAccepted, IInv, CleanInv, ecusim_run
  PROVE  CleanInv'
<1>1. /\ UNCHANGED callVars /\ UNCHANGED <<bus, disturbed, clear, pc, outcome, job, attempts>>
      /\ resps \in Seq(Responses) /\ reqs \in Seq(Requests) /\ reqs # <<>>
      /\ reqs' = Tail(reqs) /\ EcuHandles(Head(reqs))
      /\ resps' = IF ecuReply' = Ecu!NoReply THEN resps
                  ELSE Append(resps, Response(Head(reqs)))
      /\ disturbed \in Nat /\ attempts \in Nat
  BY ProgrammerAssumption
     DEF ecusim_run, callVars, IInv, PduInv, CallInv, TypeOK, CleanInv
<1>2. CASE ~ Undisturbed
  BY <1>1, <1>2 DEF CleanInv, Undisturbed
<1>3. CASE Undisturbed
  <2>1. /\ clear /\ pc # "idle" /\ Waiting /\ outcome = "none"
        /\ pc \in Starts => xfer.mode = "IDLE"
        /\ pc = "37" => xfer.mode # "IDLE"
        /\ attempts + Len(resps) <= disturbed
    BY <1>1, <1>3 DEF CleanInv, Waiting, IInv, CallInv
  <2>2. reqs = <<Own>> /\ Asked
    BY <1>1, <2>1 DEF IInv, SyncInv
  <2>3. Head(reqs) = Own /\ Tail(reqs) = <<>>
    BY <2>2
  <2>4. EcuHandles(Own)
    BY <1>1, <2>3
  <2>5. ecuReply' = Ecu!Positive /\ (pc = "37" => xfer'.mode = "IDLE")
    BY <2>1, <2>2, <2>4, OwnGranted DEF IInv
  <2>6. ecuReply' # Ecu!NoReply
    BY <2>5 DEF Ecu!Positive, Ecu!NoReply
  <2>7. Own \in Requests
    BY <1>1, <2>3, TailElements
  <2>8. Response(Own) \in Responses /\ Final(Response(Own)) /\ Response(Own).ok
    BY <2>4, <2>5, <2>6, <2>7, ResponseFacts DEF IInv
  <2>9. resps' = Append(resps, Response(Own)) /\ reqs' = <<>>
    BY <1>1, <2>3, <2>6
  <2> DEFINE a == Response(Own)
  <2> HIDE DEF a
  <2>10. resps' = Append(resps, a) /\ a \in Responses /\ Final(a) /\ a.ok
    BY <2>8, <2>9 DEF a
  <2>11. /\ resps' # <<>> /\ Len(resps') = Len(resps) + 1 /\ Len(resps) \in Nat
         /\ resps'[Len(resps')] = a
    BY <1>1, <2>10, AppendElements
  <2>12. attempts' + Len(resps') <= disturbed' + 1
    BY <1>1, <2>1, <2>11
  <2>13. Waiting'
    BY <1>1, <2>5, <2>9, <2>10, <2>11, <2>12 DEF Waiting
  <2> QED
    BY <1>1, <2>1, <2>13 DEF CleanInv
<1> QED
  BY <1>2, <1>3

\* RESPONSE_PENDING comes before the answer.
LEMMA CleanPending == IInv /\ CleanInv /\ ResponsePending => CleanInv'
<1> SUFFICES ASSUME IInv, CleanInv, ResponsePending PROVE CleanInv'
  OBVIOUS
<1>1. /\ UNCHANGED <<xfer, bus, clear, pc, outcome, job, attempts, reqs>> /\ reqs # <<>>
      /\ disturbed' = disturbed + 1 /\ disturbed \in Nat /\ attempts \in Nat
      /\ MaxPending \in Nat
      /\ resps \in Seq(Responses)
      /\ Len(resps') = Len(resps) + 1
  BY ProgrammerAssumption
     DEF ResponsePending, Disturb, ecuVars, callVars, IInv, PduInv, CallInv, TypeOK, CleanInv
<1> SUFFICES ASSUME Undisturbed'
             PROVE  clear /\ pc # "idle" /\ Waiting' /\ (outcome = "error" => ~ Fits(job))
  BY <1>1 DEF CleanInv, Fits
<1>2. Undisturbed
  BY <1>1 DEF Undisturbed
<1>3. /\ clear /\ pc # "idle" /\ Waiting /\ (outcome = "error" => ~ Fits(job))
  BY <1>1, <1>2 DEF CleanInv
<1>4. attempts' + Len(resps') <= disturbed'
  BY <1>1, <1>3 DEF Waiting
<1> QED
  BY <1>1, <1>3, <1>4 DEF Waiting

\* Every step keeps the clean bus's invariant.
LEMMA CleanNext ==
  ASSUME JobsAccepted, IInv, CleanInv, [Next]_vars
  PROVE  CleanInv'
<1>1. ASSUME NEW j \in Jobs, StartJob(j) PROVE CleanInv'
  BY <1>1, CleanStart
<1>2. CASE LosePdu
  BY <1>2 DEF LosePdu, Disturb, CleanInv, Undisturbed
<1>3. CASE UNCHANGED vars
  BY <1>3 DEF vars, ecuVars, callVars, CleanInv, Undisturbed, Waiting, Fits
<1> QED
  BY <1>1, <1>2, <1>3, CleanRequest, CleanTimeout, CleanEcuRun, CleanPending DEF Next

----------------------------------------------------------------------------
(* Theorems *)

\* The variables of UdsFlashService and of _request stay in their ranges: the
\* block counter is never 0 and attempts never passes _MAX_PENDING_RETRIES.
THEOREM ProgrammerTypeCorrect == Spec => []TypeOK
<1>1. IInv => TypeOK
  BY DEF IInv, CallInv
<1> QED
  BY <1>1, Invariance, PTL

\* A call that returns did what it was asked to, if its answers were its own.
LEMMA Returned ==
  ASSUME IInv, outcome = "ok", Trusted
  PROVE  Contents
BY DEF IInv, DoneInv, StaleInv, StaleCall, Trusted

\* A download() that returns has put the job's bytes at the job's address,
\* whatever happened to earlier calls, their requests and their responses.
THEOREM DownloadsOk == Spec => []DownloadOk
<1>1. IInv => DownloadOk
  BY Returned DEF DownloadOk, Contents
<1> QED
  BY <1>1, Invariance, PTL

\* An upload() that returns has read the flash contents of the range asked for.
THEOREM UploadsOk == Spec => []UploadOk
<1>1. IInv => UploadOk
  BY Returned DEF UploadOk, Contents
<1> QED
  BY <1>1, Invariance, PTL
\* On a clean bus no download() or upload() fails that the device accepts: the
\* two sides agree on every field, every block and every counter, and each call
\* leaves the ECU ready for the next.
THEOREM CleanJobsSucceed ==
  ASSUME JobsAccepted
  PROVE  Spec => []CleanJobSucceeds
<1>1. IInv /\ CleanInv /\ [Next]_vars => CleanInv'
  BY CleanNext
<1>2. CleanInv => CleanJobSucceeds
  BY DEF CleanInv, CleanJobSucceeds, Undisturbed
<1> QED
  BY <1>1, <1>2, CleanInit, Invariance, PTL DEF Spec
============================================================================
