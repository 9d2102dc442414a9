-------------------------- MODULE TesterServicesProofs --------------------------
(***************************************************************************)
(* Theorems about TesterServices, for any identifiers, trouble codes,      *)
(* values, timings, calls and number of disturbances: the types, that the  *)
(* ECU is only ever driven as EcuServer allows, that on a clean bus every  *)
(* call is answered, and that what a call returns is true of the ECU.      *)
(*                                                                         *)
(* The last is not inductive.  Inv adds the types of what is in flight and *)
(* the invariants of the ECU.  StepInv follows the one request that counts *)
(* while the two sides are in step: it is on its way behind suppressed     *)
(* ones, or lost, or its answer is on its way behind RESPONSE_PENDING      *)
(* ones, and that answer is true of the ECU (RightAnswer).                 *)
(***************************************************************************)
EXTENDS TesterServices, SetInduction, SequenceTheorems, FiniteSetTheorems, TLAPS

----------------------------------------------------------------------------
(* Concatenation: the recursion of FlattenSeq *)

\* f holds the concatenations of the first 1 .. n of the sequences s.
Concatenates(f, s, n) ==
  f = [i \in 1 .. n |-> IF i = 1 THEN s[i] ELSE f[i - 1] \o s[i]]

Joined(s) == CHOOSE f : Concatenates(f, s, Len(s))

\* FlattenSeq is the longest of the concatenations.
LEMMA FlattenJoined ==
  ASSUME NEW s, Len(s) # 0
  PROVE  FlattenSeq(s) = Joined(s)[Len(s)]
BY DEF FlattenSeq, Joined, Concatenates

\* The recursion can be unfolded: such a function exists.
LEMMA ConcatenationExists ==
  ASSUME NEW s
  PROVE  \A n \in Nat : \E f : Concatenates(f, s, n)
<1> DEFINE T == {n \in Nat : \E f : Concatenates(f, s, n)}
<1>1. 0 \in T
  <2>1. Concatenates([i \in 1 .. 0 |-> 0], s, 0)
    BY DEF Concatenates
  <2> QED
    BY <2>1
<1>2. ASSUME NEW n \in Nat, n \in T PROVE n + 1 \in T
  <2>1. PICK f : Concatenates(f, s, n)
    BY <1>2
  <2> DEFINE g == [i \in 1 .. n + 1 |-> IF i = 1 THEN s[i] ELSE f[i - 1] \o s[i]]
  <2>2. \A i \in 1 .. n : g[i] = f[i]
    <3> SUFFICES ASSUME NEW i \in 1 .. n PROVE g[i] = f[i]
      OBVIOUS
    <3>1. f[i] = IF i = 1 THEN s[i] ELSE f[i - 1] \o s[i]
      BY <2>1 DEF Concatenates
    <3> QED
      BY <3>1
  <2>3. ASSUME NEW i \in 1 .. n + 1
        PROVE  (IF i = 1 THEN s[i] ELSE f[i - 1] \o s[i])
                 = (IF i = 1 THEN s[i] ELSE g[i - 1] \o s[i])
    <3>1. i # 1 => i - 1 \in 1 .. n
      OBVIOUS
    <3> HIDE DEF g
    <3> QED
      BY <2>2, <3>1
  <2>4. Concatenates(g, s, n + 1)
    BY <2>3 DEF Concatenates
  <2> HIDE DEF g
  <2> QED
    BY <2>4
<1> HIDE DEF T
<1>3. \A n \in Nat : n \in T
  BY <1>1, <1>2, InductiveSet
<1> QED
  BY <1>3 DEF T

\* Concatenating one more sequence.
LEMMA JoinedStep ==
  ASSUME NEW S, NEW s \in Seq(Seq(S)), NEW i \in 1 .. Len(s)
  PROVE  Joined(s)[i] = IF i = 1 THEN s[i] ELSE Joined(s)[i - 1] \o s[i]
<1>1. Len(s) \in Nat
  OBVIOUS
<1>2. \E f : Concatenates(f, s, Len(s))
  BY <1>1, ConcatenationExists
<1>3. Concatenates(Joined(s), s, Len(s))
  BY <1>2 DEF Joined
<1> QED
  BY <1>3 DEF Concatenates

\* The concatenations are sequences of the same elements.
LEMMA JoinedType ==
  ASSUME NEW S, NEW s \in Seq(Seq(S)), NEW i \in 1 .. Len(s)
  PROVE  Joined(s)[i] \in Seq(S)
<1> DEFINE T == {n \in Nat : n + 1 \in 1 .. Len(s) => Joined(s)[n + 1] \in Seq(S)}
<1>1. ASSUME NEW n \in Nat, n + 1 \in 1 .. Len(s)
      PROVE  /\ s[n + 1] \in Seq(S)
             /\ Joined(s)[n + 1] = IF n = 0 THEN s[n + 1] ELSE Joined(s)[n] \o s[n + 1]
  <2>1. s[n + 1] \in Seq(S) /\ (n + 1) - 1 = n /\ (n + 1 = 1 <=> n = 0)
    BY <1>1
  <2> QED
    BY <1>1, <2>1, JoinedStep
<1>2. 0 \in T
  BY <1>1
<1>3. ASSUME NEW n \in Nat, n \in T PROVE n + 1 \in T
  <2> SUFFICES ASSUME (n + 1) + 1 \in 1 .. Len(s) PROVE Joined(s)[(n + 1) + 1] \in Seq(S)
    OBVIOUS
  <2>1. n + 1 \in Nat /\ n + 1 # 0 /\ n + 1 \in 1 .. Len(s)
    OBVIOUS
  <2>2. Joined(s)[n + 1] \in Seq(S)
    BY <1>3, <2>1
  <2>3. /\ s[(n + 1) + 1] \in Seq(S)
        /\ Joined(s)[(n + 1) + 1] = Joined(s)[n + 1] \o s[(n + 1) + 1]
    BY <1>1, <2>1
  <2> QED
    BY <2>2, <2>3
<1> HIDE DEF T
<1>4. \A n \in Nat : n \in T
  BY <1>2, <1>3, InductiveSet
<1>5. i - 1 \in Nat /\ (i - 1) + 1 = i
  OBVIOUS
<1> QED
  BY <1>4, <1>5 DEF T

\* What FlattenSeq returns is a sequence of the same elements.
LEMMA FlattenType ==
  ASSUME NEW S, NEW s \in Seq(Seq(S))
  PROVE  FlattenSeq(s) \in Seq(S)
<1>1. CASE Len(s) = 0
  <2>1. s = <<>>
    BY <1>1
  <2> QED
    BY <1>1, <2>1 DEF FlattenSeq
<1>2. CASE Len(s) # 0
  <2>1. Len(s) \in 1 .. Len(s)
    BY <1>2
  <2> QED
    BY <1>2, <2>1, FlattenJoined, JoinedType
<1> QED
  BY <1>1, <1>2

\* A longer concatenation starts with the shorter ones.
LEMMA JoinedGrow ==
  ASSUME NEW S, NEW s \in Seq(Seq(S)), NEW k \in 1 .. Len(s), NEW m \in k .. Len(s)
  PROVE  /\ Len(Joined(s)[k]) <= Len(Joined(s)[m])
         /\ \A j \in 1 .. Len(Joined(s)[k]) : Joined(s)[m][j] = Joined(s)[k][j]
<1> DEFINE Starts(n) ==
      /\ Len(Joined(s)[k]) <= Len(Joined(s)[n])
      /\ \A j \in 1 .. Len(Joined(s)[k]) : Joined(s)[n][j] = Joined(s)[k][j]
    T == {n \in Nat : k + n \in 1 .. Len(s) => Starts(k + n)}
<1>1. Joined(s)[k] \in Seq(S)
  BY JoinedType
<1>2. 0 \in T
  BY <1>1
<1> HIDE DEF Starts
<1>3. ASSUME NEW n \in Nat, n \in T PROVE n + 1 \in T
  <2> SUFFICES ASSUME k + (n + 1) \in 1 .. Len(s) PROVE Starts(k + (n + 1))
    OBVIOUS
  <2> DEFINE p == k + n
  <2>1. p \in 1 .. Len(s) /\ p + 1 \in 1 .. Len(s) /\ k + (n + 1) = p + 1
    OBVIOUS
  <2>2. Starts(p)
    BY <1>3, <2>1
  <2> HIDE DEF p
  <2>3. p + 1 # 1 /\ (p + 1) - 1 = p
    BY <2>1
  <2>4. Joined(s)[p + 1] = Joined(s)[p] \o s[p + 1]
    BY <2>1, <2>3, JoinedStep
  <2>5. Joined(s)[p] \in Seq(S) /\ s[p + 1] \in Seq(S)
    BY <2>1, JoinedType
  <2>6. Starts(p + 1)
    <3> DEFINE a == Joined(s)[k]
               b == Joined(s)[p]
               c == s[p + 1]
    <3>1. /\ a \in Seq(S) /\ b \in Seq(S) /\ c \in Seq(S)
          /\ Joined(s)[p + 1] = b \o c
      BY <1>1, <2>4, <2>5
    <3>2. Len(a) <= Len(b) /\ \A j \in 1 .. Len(a) : b[j] = a[j]
      BY <2>2 DEF Starts
    <3> HIDE DEF a, b, c
    <3>3. Len(a) <= Len(b \o c) /\ \A j \in 1 .. Len(a) : (b \o c)[j] = a[j]
      BY <3>1, <3>2
    <3> QED
      BY <3>1, <3>3 DEF Starts, a
  <2> QED
    BY <2>1, <2>6
<1> HIDE DEF T
<1>4. \A n \in Nat : n \in T
  BY <1>2, <1>3, InductiveSet
<1>5. m - k \in Nat /\ k + (m - k) = m /\ m \in 1 .. Len(s)
  OBVIOUS
<1> QED
  BY <1>4, <1>5 DEF T, Starts

\* off gives the places of the sequences s in the sequence flat.
Placed(flat, s, off) ==
  /\ off \in [0 .. Len(s) -> Nat]
  /\ off[0] = 0 /\ off[Len(s)] = Len(flat)
  /\ \A k \in 1 .. Len(s) :
       /\ off[k] = off[k - 1] + Len(s[k])
       /\ \A j \in 1 .. Len(s[k]) : flat[off[k - 1] + j] = s[k][j]

\* Two sequences, one after the other.
LEMMA Joining ==
  ASSUME NEW S, NEW u \in Seq(S), NEW v \in Seq(S)
  PROVE  /\ u \o v \in Seq(S) /\ Len(u \o v) = Len(u) + Len(v) /\ Len(v) \in Nat
         /\ \A i \in 1 .. Len(u) + Len(v) :
              (u \o v)[i] = IF i <= Len(u) THEN u[i] ELSE v[i - Len(u)]
<1>1. Len(v) \in Nat
  OBVIOUS
<1> QED
  BY <1>1, ConcatProperties, Zenon

\* Where the second starts.
LEMMA JoiningSecond ==
  ASSUME NEW S, NEW u \in Seq(S), NEW v \in Seq(S)
  PROVE  \A j \in 1 .. Len(v) : (u \o v)[Len(u) + j] = v[j]
<1> SUFFICES ASSUME NEW j \in 1 .. Len(v) PROVE (u \o v)[Len(u) + j] = v[j]
  OBVIOUS
<1>1. \A i \in 1 .. Len(u) + Len(v) :
        (u \o v)[i] = IF i <= Len(u) THEN u[i] ELSE v[i - Len(u)]
  BY Joining, Zenon
<1>2. /\ Len(u) + j \in 1 .. Len(u) + Len(v)
      /\ ~ Len(u) + j <= Len(u)
      /\ (Len(u) + j) - Len(u) = j
  OBVIOUS
<1> QED
  BY <1>1, <1>2, Zenon

\* FlattenSeq puts one sequence after the other.
LEMMA FlattenPlaces ==
  ASSUME NEW S, NEW s \in Seq(Seq(S))
  PROVE  \E off : Placed(FlattenSeq(s), s, off)
<1> DEFINE P(k) == Joined(s)[k]
           off == [k \in 0 .. Len(s) |-> IF k = 0 THEN 0 ELSE Len(P(k))]
<1>1. \A k \in 1 .. Len(s) : P(k) \in Seq(S) /\ s[k] \in Seq(S)
  BY JoinedType
<1>2. off \in [0 .. Len(s) -> Nat] /\ off[0] = 0
  BY <1>1
<1>3. CASE Len(s) = 0
  <2>1. s = <<>> /\ FlattenSeq(s) = <<>>
    BY <1>3 DEF FlattenSeq
  <2>2. off[Len(s)] = Len(FlattenSeq(s))
    BY <1>2, <1>3, <2>1
  <2> HIDE DEF off
  <2>3. Placed(FlattenSeq(s), s, off)
    BY <1>2, <1>3, <2>2 DEF Placed
  <2> QED
    BY <2>3
<1>4. CASE Len(s) # 0
  <2>1. Len(s) \in 1 .. Len(s) /\ FlattenSeq(s) = P(Len(s))
    BY <1>4, FlattenJoined
  <2>2. off[Len(s)] = Len(FlattenSeq(s))
    BY <2>1
  <2>3. ASSUME NEW k \in 1 .. Len(s)
        PROVE  /\ off[k] = off[k - 1] + Len(s[k])
               /\ \A j \in 1 .. Len(s[k]) : P(k)[off[k - 1] + j] = s[k][j]
    <3>1. CASE k = 1
      <4>1. P(k) = s[k]
        BY <3>1, JoinedStep
      <4>2. off[k - 1] = 0 /\ off[k] = Len(s[k])
        BY <3>1, <4>1
      <4>3. Len(s[k]) \in Nat
        BY <1>1
      <4>4. ASSUME NEW j \in 1 .. Len(s[k]) PROVE P(k)[off[k - 1] + j] = s[k][j]
        <5> HIDE DEF off, P
        <5>1. off[k - 1] + j = j
          BY <4>2, <4>3
        <5> QED
          BY <4>1, <5>1, Zenon
      <4>5. off[k] = off[k - 1] + Len(s[k])
        BY <4>2, <4>3
      <4> QED
        BY <4>4, <4>5, Zenon
    <3>2. CASE k # 1
      <4>1. P(k) = P(k - 1) \o s[k]
        BY <3>2, JoinedStep
      <4>2. k - 1 \in 1 .. Len(s)
        BY <3>2
      <4>3. off[k] = Len(P(k)) /\ off[k - 1] = Len(P(k - 1))
        BY <4>2
      <4>4. P(k - 1) \in Seq(S) /\ s[k] \in Seq(S)
        BY <1>1, <4>2
      <4> HIDE DEF off, P
      <4>5. Len(P(k)) = Len(P(k - 1)) + Len(s[k])
        BY <4>1, <4>4, Joining, Zenon
      <4>6. \A j \in 1 .. Len(s[k]) : P(k)[Len(P(k - 1)) + j] = s[k][j]
        <5>1. \A j \in 1 .. Len(s[k]) : (P(k - 1) \o s[k])[Len(P(k - 1)) + j] = s[k][j]
          BY <4>4, JoiningSecond, Zenon
        <5> QED
          BY <4>1, <5>1, Zenon
      <4> QED
        BY <4>3, <4>5, <4>6, Zenon
    <3> QED
      BY <3>1, <3>2
  <2>4. ASSUME NEW k \in 1 .. Len(s), NEW j \in 1 .. Len(s[k])
        PROVE  FlattenSeq(s)[off[k - 1] + j] = s[k][j]
    <3>1. /\ off[k] = Len(P(k)) /\ off[k - 1] \in Nat
          /\ s[k] \in Seq(S)
      BY <1>1, <1>2
    <3>2. off[k - 1] + j \in 1 .. Len(P(k))
      <4> HIDE DEF off, P
      <4>1. Len(s[k]) \in Nat /\ Len(P(k)) = off[k - 1] + Len(s[k])
        BY <2>3, <3>1
      <4> QED
        BY <3>1, <4>1
    <3>3. Len(s) \in k .. Len(s)
      OBVIOUS
    <3>4. P(Len(s))[off[k - 1] + j] = P(k)[off[k - 1] + j]
      BY <3>2, <3>3, JoinedGrow, ZenonT(60)
    <3> HIDE DEF off, P
    <3> QED
      BY <2>1, <2>3, <3>4
  <2> HIDE DEF off, P
  <2>5. Placed(FlattenSeq(s), s, off)
    BY <1>2, <2>2, <2>3, <2>4 DEF Placed
  <2> QED
    BY <2>5
<1> QED
  BY <1>3, <1>4

----------------------------------------------------------------------------
(* Sequences of bytes *)

\* What holds of all elements holds of those left after the first.
LEMMA TailKeeps ==
  ASSUME NEW S, NEW s \in Seq(S), s # <<>>
  PROVE  /\ Head(s) = s[1] /\ Head(s) \in S /\ Len(s) \in Nat \ {0}
         /\ Tail(s) \in Seq(S) /\ Len(Tail(s)) = Len(s) - 1
         /\ \A i \in 1 .. Len(Tail(s)) : Tail(s)[i] = s[i + 1] /\ i + 1 \in 1 .. Len(s)
OBVIOUS

\* ... and after one more is appended.
LEMMA AppendKeeps ==
  ASSUME NEW S, NEW s \in Seq(S), NEW x \in S
  PROVE  /\ Append(s, x) \in Seq(S) /\ Len(Append(s, x)) = Len(s) + 1
         /\ Append(s, x) # <<>>
         /\ Append(s, x)[Len(s) + 1] = x
         /\ \A i \in 1 .. Len(s) : Append(s, x)[i] = s[i]
OBVIOUS

\* Bytes appended to three.
LEMMA AfterThree ==
  ASSUME NEW s \in Seq(Nat), NEW a \in Nat, NEW b \in Nat, NEW c \in Nat
  PROVE  LET r == <<a, b, c>> \o s IN
         /\ r \in Seq(Nat) /\ Len(r) = Len(s) + 3 /\ Len(s) \in Nat
         /\ r[1] = a /\ r[2] = b /\ r[3] = c
         /\ SubSeq(r, 4, Len(r)) = s
<1>1. PICK r : r = <<a, b, c>> \o s
  OBVIOUS
<1>2. /\ r \in Seq(Nat) /\ Len(r) = Len(s) + 3 /\ Len(s) \in Nat
      /\ r[1] = a /\ r[2] = b /\ r[3] = c
  BY <1>1
<1>3. \A i \in 1 .. Len(s) : r[i + 3] = s[i]
  BY <1>1, SMTT(30)
<1>4. PICK t : t = SubSeq(r, 4, Len(r))
  OBVIOUS
<1>5. t \in Seq(Nat) /\ Len(t) = Len(s)
  BY <1>2, <1>4, SMTT(30)
<1>6. \A i \in 1 .. Len(s) : t[i] = r[i + 3]
  BY <1>2, <1>4
<1>7. t = s
  <2>1. \A i \in 1 .. Len(t) : t[i] = s[i]
    BY <1>3, <1>5, <1>6
  <2> QED
    BY <1>5, <2>1, SeqEqual
<1> QED
  BY <1>1, <1>2, <1>4, <1>7

\* Two bytes hold a number.
LEMMA TwoBytesHold ==
  ASSUME NEW n \in Nat
  PROVE  \E a, b \in Nat : TwoBytes(n) = <<a, b>> /\ Word(a, b) = n
<1>1. \E a, b \in Nat : a = n \div 256 /\ b = n % 256 /\ a * 256 + b = n
  OBVIOUS
<1> QED
  BY <1>1 DEF TwoBytes, Word

\* The bytes of the response to a session change.
LEMMA SessionBytes ==
  ASSUME NEW n \in Nat
  PROVE  \E a, b, c, d \in Nat :
           /\ <<80, n>> \o TwoBytes(P2) \o TwoBytes(P2Star \div 10) = <<80, n, a, b, c, d>>
           /\ Word(a, b) = P2
           /\ Word(c, d) * 10 = P2Star
<1>1. P2 \in Nat /\ P2Star \div 10 \in Nat /\ (P2Star \div 10) * 10 = P2Star
  <2>1. P2 \in Nat /\ P2Star \in Nat /\ P2Star % 10 = 0
    BY ServicesAssumption
  <2> QED
    BY <2>1
<1>2. PICK a \in Nat, b \in Nat : TwoBytes(P2) = <<a, b>> /\ Word(a, b) = P2
  BY <1>1, TwoBytesHold
<1>3. PICK c \in Nat, d \in Nat :
        TwoBytes(P2Star \div 10) = <<c, d>> /\ Word(c, d) = P2Star \div 10
  BY <1>1, TwoBytesHold
<1>4. PICK x \in Nat : x = 80
  OBVIOUS
<1>5. <<x, n>> \o <<a, b>> = <<x, n, a, b>>
  <2>1. PICK u : u = <<x, n>> \o <<a, b>>
    OBVIOUS
  <2>2. u \in Seq(Nat) /\ Len(u) = 4 /\ u[1] = x /\ u[2] = n /\ u[3] = a /\ u[4] = b
    BY <2>1
  <2>3. u = <<x, n, a, b>>
    BY <2>2
  <2> QED
    BY <2>1, <2>3
<1>6. <<x, n, a, b>> \o <<c, d>> = <<x, n, a, b, c, d>>
  <2>1. PICK u : u = <<x, n, a, b>> \o <<c, d>>
    OBVIOUS
  <2>2. u \in Seq(Nat) /\ Len(u) = 6 /\ u[1] = x /\ u[2] = n /\ u[3] = a /\ u[4] = b
    BY <2>1
  <2>3. u[5] = c /\ u[6] = d
    BY <2>1
  <2>4. u = <<x, n, a, b, c, d>>
    BY <2>2, <2>3
  <2> QED
    BY <2>1, <2>4
<1>7. <<80, n>> \o TwoBytes(P2) \o TwoBytes(P2Star \div 10) = <<80, n, a, b, c, d>>
  BY <1>2, <1>3, <1>4, <1>5, <1>6, Zenon
<1>8. Word(c, d) * 10 = P2Star
  BY <1>1, <1>3
<1> QED
  BY <1>2, <1>7, <1>8

\* ... and of that with the number of trouble codes.
LEMMA CountBytes ==
  ASSUME NEW n \in Nat
  PROVE  \E a, b \in Nat :
           <<89, 1, 255, 1>> \o TwoBytes(n) = <<89, 1, 255, 1, a, b>> /\ Word(a, b) = n
<1>1. PICK a \in Nat, b \in Nat : TwoBytes(n) = <<a, b>> /\ Word(a, b) = n
  BY TwoBytesHold
<1>2. PICK x \in Nat, y \in Nat, z \in Nat : x = 89 /\ y = 1 /\ z = 255
  OBVIOUS
<1>3. <<x, y, z, y>> \o <<a, b>> = <<x, y, z, y, a, b>>
  <2>1. PICK u : u = <<x, y, z, y>> \o <<a, b>>
    OBVIOUS
  <2>2. u \in Seq(Nat) /\ Len(u) = 6 /\ u[1] = x /\ u[2] = y /\ u[3] = z /\ u[4] = y
    BY <2>1
  <2>3. u[5] = a /\ u[6] = b
    BY <2>1
  <2>4. u = <<x, y, z, y, a, b>>
    BY <2>2, <2>3
  <2> QED
    BY <2>1, <2>4
<1> QED
  BY <1>1, <1>2, <1>3, Zenon

----------------------------------------------------------------------------
(* Reading the records of a response back *)

\* The places of the sequences in a concatenation come one after the other.
LEMMA PlacesOrdered ==
  ASSUME NEW S, NEW s \in Seq(Seq(S)), NEW flat, NEW off, Placed(flat, s, off)
  PROVE  \A m \in 0 .. Len(s) : \A k \in 0 .. m : off[k] <= off[m]
<1>1. Len(s) \in Nat /\ off \in [0 .. Len(s) -> Nat]
  BY DEF Placed
<1>2. ASSUME NEW k \in 1 .. Len(s)
      PROVE  off[k - 1] \in Nat /\ off[k] \in Nat /\ off[k - 1] <= off[k]
  <2>1. off[k] = off[k - 1] + Len(s[k])
    BY DEF Placed
  <2>2. k - 1 \in 0 .. Len(s) /\ k \in 0 .. Len(s)
    OBVIOUS
  <2>3. off[k - 1] \in Nat /\ off[k] \in Nat
    BY <1>1, <2>2
  <2>4. Len(s[k]) \in Nat
    OBVIOUS
  <2> QED
    BY <2>1, <2>3, <2>4
<1> DEFINE T == {m \in Nat : m \in 0 .. Len(s) => \A k \in 0 .. m : off[k] <= off[m]}
<1>3. 0 \in T
  <2>1. off[0] \in Nat
    BY <1>1
  <2>2. \A k \in 0 .. 0 : k = 0
    OBVIOUS
  <2> QED
    BY <2>1, <2>2
<1>4. ASSUME NEW m \in Nat, m \in T PROVE m + 1 \in T
  <2> SUFFICES ASSUME m + 1 \in 0 .. Len(s), NEW k \in 0 .. m + 1
               PROVE  off[k] <= off[m + 1]
    OBVIOUS
  <2>1. m \in 0 .. Len(s) /\ m + 1 \in 1 .. Len(s) /\ (m + 1) - 1 = m
    BY <1>1
  <2>2. off[m] \in Nat /\ off[m + 1] \in Nat /\ off[m] <= off[m + 1]
    BY <1>2, <2>1
  <2>3. CASE k = m + 1
    BY <2>2, <2>3
  <2>4. CASE k # m + 1
    <3>1. k \in 0 .. m /\ k \in 0 .. Len(s)
      BY <2>1, <2>4
    <3>2. off[k] <= off[m] /\ off[k] \in Nat
      BY <1>1, <1>4, <2>1, <3>1
    <3> QED
      BY <2>2, <3>2
  <2> QED
    BY <2>3, <2>4
<1> HIDE DEF T
<1>5. \A m \in Nat : m \in T
  BY <1>3, <1>4, InductiveSet
<1> QED
  BY <1>1, <1>5 DEF T

\* Every element of a concatenation is in one of them.
LEMMA PlaceFound ==
  ASSUME NEW S, NEW s \in Seq(Seq(S)), NEW flat, NEW off, Placed(flat, s, off),
         NEW p \in 1 .. off[Len(s)]
  PROVE  \E k \in 1 .. Len(s) : off[k - 1] < p /\ p <= off[k]
<1>1. Len(s) \in Nat /\ off \in [0 .. Len(s) -> Nat] /\ off[0] = 0
  BY DEF Placed
<1> DEFINE T == {m \in Nat : m \in 0 .. Len(s) /\ p <= off[m] =>
                   \E k \in 1 .. Len(s) : off[k - 1] < p /\ p <= off[k]}
<1>2. 0 \in T
  BY <1>1
<1>3. ASSUME NEW m \in Nat, m \in T PROVE m + 1 \in T
  <2> SUFFICES ASSUME m + 1 \in 0 .. Len(s), p <= off[m + 1]
               PROVE  \E k \in 1 .. Len(s) : off[k - 1] < p /\ p <= off[k]
    OBVIOUS
  <2>1. m \in 0 .. Len(s) /\ m + 1 \in 1 .. Len(s) /\ (m + 1) - 1 = m
    BY <1>1
  <2>2. off[m] \in Nat
    BY <1>1, <2>1
  <2>3. CASE p <= off[m]
    BY <1>3, <2>1, <2>3
  <2>4. CASE off[m] < p
    BY <2>1, <2>4
  <2> QED
    BY <2>2, <2>3, <2>4
<1> HIDE DEF T
<1>4. \A m \in Nat : m \in T
  BY <1>2, <1>3, InductiveSet
<1>5. Len(s) \in 0 .. Len(s) /\ p <= off[Len(s)]
  BY <1>1
<1> QED
  BY <1>1, <1>4, <1>5 DEF T

MultipleOfFour(x) == \E h \in Nat : x = 4 * h
ByFour(s) == \A k \in 1 .. Len(s) : Len(s[k]) = 0 \/ Len(s[k]) = 4

\* Records of four bytes, or none, start at multiples of four.
LEMMA PlacesByFour ==
  ASSUME NEW S, NEW s \in Seq(Seq(S)), NEW flat, NEW off, Placed(flat, s, off),
         ByFour(s)
  PROVE  \A m \in 0 .. Len(s) : MultipleOfFour(off[m])
<1>1. Len(s) \in Nat /\ off \in [0 .. Len(s) -> Nat] /\ off[0] = 0
  BY DEF Placed
<1> DEFINE T == {m \in Nat : m \in 0 .. Len(s) => \E h \in Nat : off[m] = 4 * h}
<1>2. 0 \in T
  <2>1. off[0] = 4 * 0
    BY <1>1
  <2> QED
    BY <2>1
<1>3. ASSUME NEW m \in Nat, m \in T PROVE m + 1 \in T
  <2> SUFFICES ASSUME m + 1 \in 0 .. Len(s) PROVE \E h \in Nat : off[m + 1] = 4 * h
    OBVIOUS
  <2>1. m \in 0 .. Len(s) /\ m + 1 \in 1 .. Len(s) /\ (m + 1) - 1 = m
    BY <1>1
  <2>2. PICK h \in Nat : off[m] = 4 * h
    BY <1>3, <2>1
  <2>3. off[m + 1] = off[m] + Len(s[m + 1])
    BY <2>1 DEF Placed
  <2>4. PICK len \in {0, 4} : len = Len(s[m + 1])
    BY <2>1 DEF ByFour
  <2>5. off[m + 1] = 4 * h + len
    BY <2>2, <2>3, <2>4
  <2>6. PICK g \in Nat : 4 * h + len = 4 * g
    <3>1. 4 * h + 0 = 4 * h /\ 4 * h + 4 = 4 * (h + 1) /\ h + 1 \in Nat
      OBVIOUS
    <3> QED
      BY <2>4, <3>1
  <2>7. off[m + 1] = 4 * g
    BY <2>5, <2>6
  <2> HIDE DEF T
  <2> QED
    BY <2>7
<1> HIDE DEF T
<1>4. \A m \in Nat : m \in T
  BY <1>2, <1>3, InductiveSet
<1> QED
  BY <1>1, <1>4 DEF T, MultipleOfFour

\* A code of three bytes and its status.
LEMMA FourBytes ==
  ASSUME NEW t \in Seq(Nat), Len(t) = 3, NEW x \in Nat
  PROVE  /\ Append(t, x) \in Seq(Nat) /\ Len(Append(t, x)) = 4
         /\ \A j \in 1 .. 3 : Append(t, x)[j] = t[j]
         /\ Append(t, x)[4] = x
<1>1. PICK u : u = Append(t, x)
  OBVIOUS
<1>2. u \in Seq(Nat) /\ Len(u) = Len(t) + 1 /\ u[Len(t) + 1] = x
  BY <1>1, AppendKeeps, ZenonT(60)
<1>3. \A j \in 1 .. 3 : u[j] = t[j]
  BY <1>1
<1>4. Len(u) = 4 /\ u[4] = x
  <2>1. Len(t) + 1 = 4
    OBVIOUS
  <2> QED
    BY <1>2, <2>1
<1> QED
  BY <1>1, <1>2, <1>3, <1>4

\* The three bytes from some place on.
LEMMA CodeRead ==
  ASSUME NEW bytes \in Seq(Nat), NEW q \in Nat, q + 4 <= Len(bytes),
         NEW t \in Seq(Nat), Len(t) = 3, \A j \in 1 .. 3 : bytes[q + j] = t[j]
  PROVE  SubSeq(bytes, q + 1, q + 3) = t
<1>1. PICK u : u = SubSeq(bytes, q + 1, q + 3)
  OBVIOUS
<1>2. ASSUME NEW j \in q + 1 .. q + 3 PROVE bytes[j] \in Nat
  <2>1. Len(bytes) \in Nat
    OBVIOUS
  <2>2. j \in 1 .. Len(bytes)
    BY <2>1
  <2> QED
    BY <2>2, ElementOfSeq
<1>3. u \in Seq(Nat) /\ Len(u) = 3
  BY <1>1, <1>2
<1>4. \A j \in 1 .. 3 : u[j] = bytes[q + j]
  BY <1>1, <1>2
<1>5. u = t
  BY <1>3, <1>4, SeqEqual
<1> QED
  BY <1>1, <1>5

Elements(records) == {records[i] : i \in DOMAIN records}
CodesWithStatus(codeOf, statusOf, codes) ==
  {[code |-> codeOf[i], status |-> statusOf[i]] : i \in codes}

RecordsOf(n, codeOf, statusOf, codes) ==
  [i \in 1 .. n |-> IF i \in codes THEN Append(codeOf[i], statusOf[i]) ELSE <<>>]

\* What _parse_dtc_records reads from the records of some trouble codes are those
\* codes and their status.
LEMMA RecordsParsed ==
  ASSUME NEW n \in Nat, NEW codeOf \in [1 .. n -> Nat \X Nat \X Nat],
         NEW statusOf \in [1 .. n -> Nat], NEW codes, codes \subseteq 1 .. n
  PROVE  Elements(_parse_dtc_records(FlattenSeq(RecordsOf(n, codeOf, statusOf, codes))))
           = CodesWithStatus(codeOf, statusOf, codes)
<1> SUFFICES ASSUME NEW recs, recs = [i \in 1 .. n |-> IF i \in codes
                                                      THEN Append(codeOf[i], statusOf[i])
                                                      ELSE <<>>],
                    NEW bytes, bytes = FlattenSeq(recs),
                    NEW records, records = _parse_dtc_records(bytes)
             PROVE  Elements(records) = CodesWithStatus(codeOf, statusOf, codes)
  BY DEF RecordsOf
<1>1. ASSUME NEW i \in 1 .. n
      PROVE  /\ codeOf[i] \in Seq(Nat) /\ Len(codeOf[i]) = 3
             /\ recs[i] \in Seq(Nat)
             /\ i \notin codes => Len(recs[i]) = 0
             /\ i \in codes =>
                  /\ Len(recs[i]) = 4
                  /\ \A j \in 1 .. 3 : recs[i][j] = codeOf[i][j]
                  /\ recs[i][4] = statusOf[i]
  <2>1. PICK a, b, c \in Nat : codeOf[i] = <<a, b, c>>
    <3>1. codeOf[i] \in Nat \X Nat \X Nat
      OBVIOUS
    <3> QED
      BY <3>1
  <2>2. PICK t : t = codeOf[i]
    OBVIOUS
  <2>3. t \in Seq(Nat) /\ Len(t) = 3
    BY <2>1, <2>2
  <2>4. PICK x \in Nat : x = statusOf[i]
    OBVIOUS
  <2>5. recs[i] = IF i \in codes THEN Append(t, x) ELSE <<>>
    BY <2>2, <2>4
  <2>6. /\ Append(t, x) \in Seq(Nat) /\ Len(Append(t, x)) = 4
        /\ \A j \in 1 .. 3 : Append(t, x)[j] = t[j]
        /\ Append(t, x)[4] = x
    BY <2>3, FourBytes
  <2>7. <<>> \in Seq(Nat) /\ Len(<<>>) = 0
    OBVIOUS
  <2>8. CASE i \in codes
    <3>1. recs[i] = Append(t, x)
      BY <2>5, <2>8
    <3> QED
      BY <2>2, <2>3, <2>4, <2>6, <2>8, <3>1
  <2>9. CASE i \notin codes
    <3>1. recs[i] = <<>>
      BY <2>5, <2>9
    <3> QED
      BY <2>2, <2>3, <2>7, <2>9, <3>1
  <2> QED
    BY <2>8, <2>9
<1>2. recs \in Seq(Seq(Nat)) /\ Len(recs) = n
  <2>1. recs = [i \in 1 .. n |-> recs[i]]
    OBVIOUS
  <2> QED
    BY <1>1, <2>1
<1>3. bytes \in Seq(Nat)
  BY <1>2, FlattenType
<1>4. PICK off : Placed(bytes, recs, off)
  BY <1>2, FlattenPlaces
<1>5. /\ off \in [0 .. n -> Nat] /\ off[0] = 0 /\ off[n] = Len(bytes)
      /\ \A k \in 1 .. n :
           /\ off[k] = off[k - 1] + Len(recs[k])
           /\ \A j \in 1 .. Len(recs[k]) : bytes[off[k - 1] + j] = recs[k][j]
  BY <1>2, <1>4, ZenonT(60) DEF Placed
<1>6. \A m \in 0 .. n : MultipleOfFour(off[m])
  <2>1. ByFour(recs)
    BY <1>1, <1>2 DEF ByFour
  <2> QED
    <3>1. \A m \in 0 .. Len(recs) : MultipleOfFour(off[m])
      BY <1>2, <1>4, <2>1, PlacesByFour
    <3> QED
      BY <1>2, <3>1
<1>7. \A m \in 0 .. n : \A k \in 0 .. m : off[k] <= off[m]
  BY <1>2, <1>4, PlacesOrdered
<1>8. /\ DOMAIN records = 1 .. Len(bytes) \div 4
      /\ \A i \in 1 .. Len(bytes) \div 4 :
           records[i] = [code |-> SubSeq(bytes, 4 * i - 3, 4 * i - 1), status |-> bytes[4 * i]]
  BY DEF _parse_dtc_records
<1>9. Len(bytes) \in Nat
  BY <1>3
<1>10. ASSUME NEW k \in codes, NEW h \in Nat, off[k - 1] = 4 * h
       PROVE  /\ off[k] = 4 * h + 4
              /\ h + 1 \in DOMAIN records
              /\ records[h + 1] = [code |-> codeOf[k], status |-> statusOf[k]]
  <2>1. k \in 1 .. n /\ k - 1 \in 0 .. n /\ k \in 0 .. n
    OBVIOUS
  <2>2. off[k] = 4 * h + 4
    BY <1>1, <1>5, <1>10, <2>1
  <2>3. off[k] <= Len(bytes)
    BY <1>5, <1>7, <2>1
  <2>4. 4 * (h + 1) <= Len(bytes)
    BY <2>2, <2>3
  <2>5. h + 1 \in 1 .. Len(bytes) \div 4
    BY <1>9, <2>4
  <2>6. /\ \A j \in 1 .. 3 : bytes[4 * h + j] = codeOf[k][j]
        /\ bytes[4 * h + 4] = statusOf[k]
    <3>1. Len(recs[k]) = 4
      BY <1>1, <1>10, <2>1
    <3>2. ASSUME NEW j \in 1 .. 4 PROVE bytes[4 * h + j] = recs[k][j]
      <4>1. j \in 1 .. Len(recs[k])
        BY <3>1
      <4>2. bytes[off[k - 1] + j] = recs[k][j]
        BY <1>5, <2>1, <4>1
      <4> QED
        BY <1>10, <4>2
    <3>3. (\A j \in 1 .. 3 : recs[k][j] = codeOf[k][j]) /\ recs[k][4] = statusOf[k]
      BY <1>1, <1>10, <2>1
    <3>4. 4 \in 1 .. 4 /\ \A j \in 1 .. 3 : j \in 1 .. 4
      OBVIOUS
    <3> QED
      BY <3>2, <3>3, <3>4
  <2>7. /\ 4 * (h + 1) = 4 * h + 4 /\ 4 * (h + 1) - 3 = 4 * h + 1
        /\ 4 * (h + 1) - 1 = 4 * h + 3
    OBVIOUS
  <2>8. SubSeq(bytes, 4 * h + 1, 4 * h + 3) = codeOf[k]
    <3>1. PICK q \in Nat : q = 4 * h
      OBVIOUS
    <3>2. q + 4 <= Len(bytes) /\ \A j \in 1 .. 3 : bytes[q + j] = codeOf[k][j]
      BY <2>2, <2>3, <2>6, <3>1
    <3>3. codeOf[k] \in Seq(Nat) /\ Len(codeOf[k]) = 3
      BY <1>1, <2>1
    <3>4. SubSeq(bytes, q + 1, q + 3) = codeOf[k]
      BY <1>3, <3>2, <3>3, CodeRead
    <3> QED
      BY <3>1, <3>4
  <2> QED
    <3>1. h + 1 \in DOMAIN records
      BY <1>8, <2>5
    <3>2. records[h + 1] = [code |-> SubSeq(bytes, 4 * (h + 1) - 3, 4 * (h + 1) - 1),
                            status |-> bytes[4 * (h + 1)]]
      BY <1>8, <2>5
    <3>3. records[h + 1] = [code |-> codeOf[k], status |-> statusOf[k]]
      BY <2>6, <2>7, <2>8, <3>2
    <3> QED
      BY <2>2, <3>1, <3>3
<1>11. ASSUME NEW k \in codes
       PROVE  \E i \in DOMAIN records :
                records[i] = [code |-> codeOf[k], status |-> statusOf[k]]
  <2>1. k - 1 \in 0 .. n
    OBVIOUS
  <2>2. PICK h \in Nat : off[k - 1] = 4 * h
    BY <1>6, <2>1 DEF MultipleOfFour
  <2> QED
    BY <1>10, <2>2
<1>12. ASSUME NEW i \in DOMAIN records
       PROVE  \E k \in codes : records[i] = [code |-> codeOf[k], status |-> statusOf[k]]
  <2>1. i \in Nat /\ i >= 1 /\ 4 * i <= Len(bytes)
    BY <1>8, <1>9
  <2>2. PICK p \in Nat : p = 4 * i
    BY <2>1
  <2>3. p \in 1 .. off[n]
    BY <1>5, <2>1, <2>2
  <2>4. PICK k \in 1 .. n : off[k - 1] < p /\ p <= off[k]
    BY <1>2, <1>4, <2>3, PlaceFound
  <2>5. k - 1 \in 0 .. n /\ off[k] = off[k - 1] + Len(recs[k])
    BY <1>5
  <2>6. PICK h \in Nat : off[k - 1] = 4 * h
    BY <1>6, <2>5 DEF MultipleOfFour
  <2>7. k \in codes
    <3>1. ASSUME k \notin codes PROVE FALSE
      <4>1. off[k] = 4 * h
        BY <1>1, <2>5, <2>6, <3>1
      <4> QED
        BY <2>4, <2>6, <4>1
    <3> QED
      BY <3>1
  <2>8. /\ off[k] = 4 * h + 4
        /\ records[h + 1] = [code |-> codeOf[k], status |-> statusOf[k]]
    BY <1>10, <2>6, <2>7
  <2>9. i = h + 1
    <3>1. 4 * h < 4 * i /\ 4 * i <= 4 * h + 4
      BY <2>2, <2>4, <2>6, <2>8
    <3> QED
      BY <2>1, <3>1
  <2> QED
    BY <2>7, <2>8, <2>9
<1> QED
  <2> DEFINE A == {records[i] : i \in DOMAIN records}
             B == {[code |-> codeOf[i], status |-> statusOf[i]] : i \in codes}
  <2>1. ASSUME NEW x \in A PROVE x \in B
    <3>1. PICK i \in DOMAIN records : x = records[i]
      OBVIOUS
    <3>2. PICK k \in codes : records[i] = [code |-> codeOf[k], status |-> statusOf[k]]
      BY <1>12
    <3>3. x = [code |-> codeOf[k], status |-> statusOf[k]]
      BY <3>1, <3>2
    <3> QED
      BY <3>3, Zenon
  <2>2. ASSUME NEW x \in B PROVE x \in A
    <3>1. PICK k \in codes : x = [code |-> codeOf[k], status |-> statusOf[k]]
      OBVIOUS
    <3>2. PICK i \in DOMAIN records : records[i] = [code |-> codeOf[k], status |-> statusOf[k]]
      BY <1>11
    <3>3. x = records[i]
      BY <3>1, <3>2
    <3> QED
      BY <3>3
  <2>3. A = B
    <3> HIDE DEF A, B
    <3> QED
      BY <2>1, <2>2
  <2> QED
    BY <2>3 DEF Elements, CodesWithStatus

----------------------------------------------------------------------------
(* Splitting the response to read() *)

\* Where the identifiers of list and their values val are in a response.
DidPlaces(list, val, flat, off) ==
  /\ Len(list) \in Nat \ {0}
  /\ flat \in Seq(Nat)
  /\ off \in [0 .. Len(list) -> Nat]
  /\ off[0] = 0 /\ off[Len(list)] = Len(flat)
  /\ \A k \in 1 .. Len(list) :
       /\ list[k] \in Nat \X Nat
       /\ val[list[k]] \in Seq(Nat)
       /\ off[k] = off[k - 1] + 2 + Len(val[list[k]])
       /\ flat[off[k - 1] + 1] = list[k][1]
       /\ flat[off[k - 1] + 2] = list[k][2]
       /\ \A j \in 1 .. Len(val[list[k]]) : flat[off[k - 1] + 2 + j] = val[list[k]][j]
  /\ \A m \in 0 .. Len(list) : \A k \in 0 .. m : off[k] <= off[m]

\* A function on 1 .. n is a sequence of its values.
LEMMA SeqOfFunction ==
  ASSUME NEW S, NEW n \in Nat, NEW f \in [1 .. n -> S]
  PROVE  f \in Seq(S) /\ Len(f) = n
OBVIOUS

\* Two sequences of bytes, one after the other.
LEMMA JoiningBytes ==
  ASSUME NEW u \in Seq(Nat), NEW v \in Seq(Nat)
  PROVE  /\ u \o v \in Seq(Nat) /\ Len(u \o v) = Len(u) + Len(v) /\ Len(v) \in Nat
         /\ \A i \in 1 .. Len(u) + Len(v) :
              (u \o v)[i] = IF i <= Len(u) THEN u[i] ELSE v[i - Len(u)]
BY Joining, Zenon

\* Two elements next to each other.
LEMMA TwoOfSeq ==
  ASSUME NEW w \in Seq(Nat), NEW j \in 1 .. Len(w), j + 1 \in 1 .. Len(w)
  PROVE  SubSeq(w, j, j + 1) = <<w[j], w[j + 1]>>
<1>1. PICK t : t = SubSeq(w, j, j + 1)
  OBVIOUS
<1>2. t \in Seq(Nat) /\ Len(t) = 2
  BY <1>1
<1>3. t[1] = w[j] /\ t[2] = w[j + 1]
  BY <1>1, SMTT(30)
<1>4. t = <<t[1], t[2]>>
  BY <1>2
<1> QED
  BY <1>1, <1>3, <1>4

\* The two bytes of an identifier.
LEMMA TwoOfPair ==
  ASSUME NEW d \in Nat \X Nat
  PROVE  \E u \in Seq(Nat) : u = d /\ Len(u) = 2
<1>1. PICK a, b \in Nat : d = <<a, b>>
  OBVIOUS
<1>2. <<a, b>> \in Seq(Nat) /\ Len(<<a, b>>) = 2
  OBVIOUS
<1> QED
  BY <1>1, <1>2

\* r is the identifier u and its value v.
DidRecord(r, u, v) ==
  /\ r \in Seq(Nat) /\ Len(r) = 2 + Len(v) /\ Len(v) \in Nat
  /\ r[1] = u[1] /\ r[2] = u[2]
  /\ \A j \in 1 .. Len(v) : 2 + j \in 1 .. Len(r) /\ r[2 + j] = v[j]

\* An identifier before its value.
LEMMA PairBefore ==
  ASSUME NEW u \in Seq(Nat), Len(u) = 2, NEW v \in Seq(Nat), NEW r, r = u \o v
  PROVE  DidRecord(r, u, v)
<1>1. r \in Seq(Nat) /\ Len(r) = 2 + Len(v) /\ Len(v) \in Nat
  <2>1. u \o v \in Seq(Nat) /\ Len(u \o v) = Len(u) + Len(v) /\ Len(v) \in Nat
    BY JoiningBytes, Zenon
  <2> QED
    BY <2>1, Zenon
<1>2. \A i \in 1 .. 2 + Len(v) : r[i] = IF i <= 2 THEN u[i] ELSE v[i - 2]
  <2>1. \A i \in 1 .. Len(u) + Len(v) :
          (u \o v)[i] = IF i <= Len(u) THEN u[i] ELSE v[i - Len(u)]
    BY JoiningBytes, Zenon
  <2> QED
    BY <2>1, Zenon
<1>3. r[1] = u[1] /\ r[2] = u[2]
  BY <1>1, <1>2
<1>4. ASSUME NEW j \in 1 .. Len(v) PROVE 2 + j \in 1 .. Len(r) /\ r[2 + j] = v[j]
  <2>1. 2 + j \in 1 .. 2 + Len(v) /\ ~ 2 + j <= 2 /\ (2 + j) - 2 = j
    BY <1>1
  <2> QED
    BY <1>1, <1>2, <2>1
<1> QED
  BY <1>1, <1>3, <1>4 DEF DidRecord

\* The identifiers and values are where FlattenSeq puts them.
LEMMA DidPlacesFound ==
  ASSUME NEW list \in Seq(Nat \X Nat), Len(list) # 0, NEW val,
         \A k \in 1 .. Len(list) : val[list[k]] \in Seq(Nat),
         NEW recs, recs = [k \in 1 .. Len(list) |-> list[k] \o val[list[k]]]
  PROVE  \E off : DidPlaces(list, val, FlattenSeq(recs), off)
<1>1. Len(list) \in Nat \ {0}
  OBVIOUS
<1>2. ASSUME NEW k \in 1 .. Len(list)
      PROVE  /\ list[k] \in Nat \X Nat
             /\ recs[k] \in Seq(Nat) /\ Len(recs[k]) = 2 + Len(val[list[k]])
             /\ Len(val[list[k]]) \in Nat
             /\ recs[k][1] = list[k][1] /\ recs[k][2] = list[k][2]
             /\ \A j \in 1 .. Len(val[list[k]]) :
                  2 + j \in 1 .. Len(recs[k]) /\ recs[k][2 + j] = val[list[k]][j]
  <2>1. list[k] \in Nat \X Nat
    BY ElementOfSeq
  <2>2. val[list[k]] \in Seq(Nat) /\ recs[k] = list[k] \o val[list[k]]
    OBVIOUS
  <2>3. PICK u \in Seq(Nat), v \in Seq(Nat), r \in {recs[k]} :
          /\ u = list[k] /\ Len(u) = 2 /\ v = val[list[k]] /\ r = recs[k]
          /\ r = u \o v
    BY <2>1, <2>2, TwoOfPair
  <2>4. r = u \o v
    BY <2>3
  <2>5. Len(u) = 2
    BY <2>3
  <2>6. DidRecord(r, u, v)
    BY <2>4, <2>5, PairBefore
  <2> QED
    BY <2>1, <2>3, <2>6 DEF DidRecord
<1>3. recs \in Seq(Seq(Nat)) /\ Len(recs) = Len(list)
  <2>1. PICK n \in Nat : n = Len(list)
    BY <1>1
  <2>2. PICK f : f = recs
    OBVIOUS
  <2>3. f \in [1 .. n -> Seq(Nat)]
    BY <1>2, <2>1, <2>2
  <2>4. f \in Seq(Seq(Nat)) /\ Len(f) = n
    BY <2>3, SeqOfFunction
  <2> QED
    BY <2>1, <2>2, <2>4
<1>4. PICK flat : flat = FlattenSeq(recs)
  OBVIOUS
<1>5. flat \in Seq(Nat)
  BY <1>3, <1>4, FlattenType
<1>6. PICK off : Placed(flat, recs, off)
  BY <1>3, <1>4, FlattenPlaces
<1>7. /\ off \in [0 .. Len(list) -> Nat] /\ off[0] = 0 /\ off[Len(list)] = Len(flat)
      /\ \A k \in 1 .. Len(list) :
           /\ off[k] = off[k - 1] + Len(recs[k])
           /\ \A j \in 1 .. Len(recs[k]) : flat[off[k - 1] + j] = recs[k][j]
  BY <1>3, <1>6 DEF Placed
<1>8. \A m \in 0 .. Len(list) : \A k \in 0 .. m : off[k] <= off[m]
  BY <1>3, <1>6, PlacesOrdered
<1>9. ASSUME NEW k \in 1 .. Len(list)
      PROVE  /\ list[k] \in Nat \X Nat
             /\ val[list[k]] \in Seq(Nat)
             /\ off[k] = off[k - 1] + 2 + Len(val[list[k]])
             /\ flat[off[k - 1] + 1] = list[k][1]
             /\ flat[off[k - 1] + 2] = list[k][2]
             /\ \A j \in 1 .. Len(val[list[k]]) : flat[off[k - 1] + 2 + j] = val[list[k]][j]
  <2>1. PICK p \in Nat : p = off[k - 1]
    <3>1. k - 1 \in 0 .. Len(list)
      OBVIOUS
    <3> QED
      BY <1>7, <3>1
  <2>2. /\ off[k] = p + Len(recs[k])
        /\ \A j \in 1 .. Len(recs[k]) : flat[p + j] = recs[k][j]
    BY <1>7, <2>1
  <2>3. PICK len \in Nat : len = Len(val[list[k]]) /\ Len(recs[k]) = 2 + len
    BY <1>2
  <2>4. off[k] = p + 2 + len
    <3>1. off[k] = p + (2 + len)
      BY <2>2, <2>3
    <3> QED
      BY <3>1
  <2>5. 1 \in 1 .. 2 + len /\ 2 \in 1 .. 2 + len
    OBVIOUS
  <2>6. flat[p + 1] = list[k][1] /\ flat[p + 2] = list[k][2]
    BY <1>2, <2>2, <2>3, <2>5
  <2>7. ASSUME NEW j \in 1 .. len PROVE flat[p + 2 + j] = val[list[k]][j]
    <3>1. p + (2 + j) = p + 2 + j
      OBVIOUS
    <3>2. 2 + j \in 1 .. Len(recs[k]) /\ recs[k][2 + j] = val[list[k]][j]
      BY <1>2, <2>3
    <3>3. flat[p + (2 + j)] = recs[k][2 + j]
      BY <2>2, <3>2
    <3> QED
      BY <3>1, <3>2, <3>3
  <2> QED
    BY <1>2, <2>1, <2>3, <2>4, <2>6, <2>7
<1>10. DidPlaces(list, val, flat, off)
  BY <1>1, <1>5, <1>7, <1>8, <1>9 DEF DidPlaces
<1> QED
  BY <1>4, <1>10

\* From there on, at is the first place of the two bytes d.
FirstAt(flat, from, d, at) ==
  /\ at \in from .. Len(flat) - 1
  /\ <<flat[at], flat[at + 1]>> = d
  /\ \A j \in from .. at - 1 : <<flat[j], flat[j + 1]>> # d

\* The first occurrence is what NextStart finds.
LEMMA NextFound ==
  ASSUME NEW flat \in Seq(Nat), NEW from \in Nat, NEW d, NEW at, FirstAt(flat, from, d, at)
  PROVE  NextStart(flat, from, d) = at
<1>0. /\ at \in from .. Len(flat) - 1
      /\ <<flat[at], flat[at + 1]>> = d
      /\ \A j \in from .. at - 1 : <<flat[j], flat[j + 1]>> # d
  BY DEF FirstAt
<1> DEFINE found == {j \in from .. Len(flat) - 1 : <<flat[j], flat[j + 1]>> = d}
<1>1. at \in found /\ found # {}
  BY <1>0
<1>2. Len(flat) \in Nat
  OBVIOUS
<1>3. \A k \in found : at <= k
  BY <1>0, <1>2
<1>4. \A k \in found : k \in Int
  OBVIOUS
<1>5. NextStart(flat, from, d) = CHOOSE j \in found : \A k \in found : j <= k
  BY <1>1 DEF NextStart
<1> HIDE DEF found
<1>6. PICK m : m = CHOOSE j \in found : \A k \in found : j <= k
  OBVIOUS
<1>7. m \in found /\ \A k \in found : m <= k
  BY <1>1, <1>3, <1>6
<1>8. m = at
  BY <1>1, <1>3, <1>4, <1>7
<1> QED
  BY <1>5, <1>6, <1>8

\* No value, with the first byte of the identifier after it, contains that
\* identifier.
Apart(list, val) ==
  \A i \in 1 .. Len(list) - 1 :
    \A j \in DOMAIN val[list[i]] :
      SubSeq(val[list[i]] \o list[i + 1], j, j + 1) # list[i + 1]

\* The byte after the byte j of a value v that the identifier u follows.
NextByte(v, u, j) == IF j = Len(v) THEN u[1] ELSE v[j + 1]

\* A value and the identifier after it, as they are in the response.
LEMMA ValueThenPair ==
  ASSUME NEW v \in Seq(Nat), NEW u \in Seq(Nat), Len(u) = 2, NEW j \in 1 .. Len(v)
  PROVE  SubSeq(v \o u, j, j + 1) = <<v[j], NextByte(v, u, j)>>
<1>1. PICK w : w = v \o u
  OBVIOUS
<1>2. w \in Seq(Nat) /\ Len(w) = Len(v) + 2 /\ Len(v) \in Nat
  <2>1. v \o u \in Seq(Nat) /\ Len(v \o u) = Len(v) + Len(u)
    BY JoiningBytes, Zenon
  <2>2. w \in Seq(Nat) /\ Len(w) = Len(v) + 2
    BY <1>1, <2>1, Zenon
  <2> QED
    BY <2>2
<1>3. \A i \in 1 .. Len(v) + 2 : w[i] = IF i <= Len(v) THEN v[i] ELSE u[i - Len(v)]
  <2>1. \A i \in 1 .. Len(v) + Len(u) :
          (v \o u)[i] = IF i <= Len(v) THEN v[i] ELSE u[i - Len(v)]
    BY JoiningBytes, Zenon
  <2> QED
    BY <1>1, <2>1, Zenon
<1>4. j \in 1 .. Len(v) + 2 /\ j + 1 \in 1 .. Len(v) + 2 /\ j <= Len(v)
  BY <1>2
<1>5. w[j] = v[j]
  BY <1>3, <1>4, Zenon
<1>6. w[j + 1] = NextByte(v, u, j)
  <2>1. CASE j = Len(v)
    <3>1. ~ j + 1 <= Len(v) /\ (j + 1) - Len(v) = 1
      BY <1>2, <2>1
    <3> QED
      BY <1>3, <1>4, <2>1, <3>1, Zenon DEF NextByte
  <2>2. CASE j # Len(v)
    <3>1. j + 1 <= Len(v)
      BY <1>2, <2>2
    <3> QED
      BY <1>3, <1>4, <2>2, <3>1, Zenon DEF NextByte
  <2> QED
    BY <2>1, <2>2
<1>7. SubSeq(w, j, j + 1) = <<w[j], w[j + 1]>>
  <2>1. j \in 1 .. Len(w) /\ j + 1 \in 1 .. Len(w)
    BY <1>2, <1>4
  <2> QED
    BY <1>2, <2>1, TwoOfSeq
<1> QED
  BY <1>1, <1>5, <1>6, <1>7, Zenon

\* start is where read() takes the identifiers of list to be in payload.
StartAt(start, list, payload, i) ==
  CASE i = 1 -> 1
    [] i = Len(list) + 1 -> Len(payload) + 1
    [] OTHER -> NextStart(payload, start[i - 1] + 2, list[i])

Starts(start, list, payload) ==
  start = [i \in 1 .. Len(list) + 1 |-> StartAt(start, list, payload, i)]

\* What read() returns when it starts the identifiers there.
Split(list, payload, start) ==
  LET whole == {i \in 1 .. Len(list) : start[i] + 1 <= Len(payload)}
      DidAt(i) == SubSeq(payload, start[i], start[i] + 1)
      Latest(d) == CHOOSE i \in whole : DidAt(i) = d /\ \A k \in whole : DidAt(k) = d => k <= i
  IN  [d \in {DidAt(i) : i \in whole} |->
         SubSeq(payload, start[Latest(d)] + 2, start[Latest(d) + 1] - 1)]

\* The two steps of read().
LEMMA ReadInSteps ==
  ASSUME NEW list, NEW resp
  PROVE  ReadDids(list, resp) = Split(list, Tail(resp), CHOOSE f : Starts(f, list, Tail(resp)))
BY DEF ReadDids, Split, Starts, StartAt

\* One identifier and its value in a response.
DidPlace(flat, u, v, p, q) ==
  /\ u \in Seq(Nat) /\ Len(u) = 2
  /\ v \in Seq(Nat)
  /\ p \in Nat /\ q \in Nat
  /\ q = p + 2 + Len(v)
  /\ q <= Len(flat)
  /\ flat[p + 1] = u[1] /\ flat[p + 2] = u[2]
  /\ \A j \in 1 .. Len(v) : flat[p + 2 + j] = v[j]

\* The identifiers are in their places.
LEMMA DidPlaceAt ==
  ASSUME NEW list, NEW val, NEW flat, NEW off, DidPlaces(list, val, flat, off),
         NEW k \in 1 .. Len(list)
  PROVE  DidPlace(flat, list[k], val[list[k]], off[k - 1], off[k])
<1>1. PICK n \in Nat : n = Len(list)
  BY DEF DidPlaces
<1>2. k \in 1 .. n /\ k - 1 \in 0 .. n /\ k \in 0 .. n
  BY <1>1
<1>3. /\ list[k] \in Nat \X Nat
      /\ val[list[k]] \in Seq(Nat)
      /\ off[k] = off[k - 1] + 2 + Len(val[list[k]])
      /\ flat[off[k - 1] + 1] = list[k][1]
      /\ flat[off[k - 1] + 2] = list[k][2]
      /\ \A j \in 1 .. Len(val[list[k]]) : flat[off[k - 1] + 2 + j] = val[list[k]][j]
  BY DEF DidPlaces
<1>4. off[k - 1] \in Nat /\ off[k] \in Nat /\ off[k] <= Len(flat)
  <2>1. off \in [0 .. n -> Nat] /\ off[n] = Len(flat)
    BY <1>1 DEF DidPlaces
  <2>2. \A m \in 0 .. n : \A i \in 0 .. m : off[i] <= off[m]
    BY <1>1 DEF DidPlaces
  <2>3. n \in 0 .. n /\ k \in 0 .. n
    BY <1>2
  <2> QED
    BY <1>2, <2>1, <2>2, <2>3
<1>5. list[k] \in Seq(Nat) /\ Len(list[k]) = 2
  BY <1>3, TwoOfPair
<1> QED
  BY <1>3, <1>4, <1>5 DEF DidPlace

\* The two bytes at j are in the value v, or overlap its end.
InValue(v, w, flat, j) ==
  \E m \in 1 .. Len(v) : SubSeq(v \o w, m, m + 1) = <<flat[j], flat[j + 1]>>

\* No two bytes of the value v, or over its end, are the identifier w.
Without(v, w) == \A m \in 1 .. Len(v) : SubSeq(v \o w, m, m + 1) # w

\* What the search meets before the next identifier is in the value.
LEMMA OnTheWay ==
  ASSUME NEW flat, NEW u, NEW v, NEW p, NEW q, DidPlace(flat, u, v, p, q),
         NEW w \in Seq(Nat), Len(w) = 2, flat[q + 1] = w[1],
         NEW j \in p + 1 + 2 .. (q + 1) - 1
  PROVE  InValue(v, w, flat, j)
<1>1. PICK len \in Nat : len = Len(v)
  BY DEF DidPlace
<1>2. p \in Nat /\ q \in Nat /\ q = p + 2 + len /\ v \in Seq(Nat)
  BY <1>1 DEF DidPlace
<1>3. \A i \in 1 .. len : flat[p + 2 + i] = v[i]
  BY <1>1 DEF DidPlace
<1>4. PICK m \in 1 .. len : j = p + 2 + m
  <2>1. j - p - 2 \in 1 .. len /\ j = p + 2 + (j - p - 2)
    BY <1>2
  <2> QED
    BY <2>1
<1>5. flat[j] = v[m]
  BY <1>3, <1>4
<1>6. flat[j + 1] = NextByte(v, w, m)
  <2>1. CASE m = len
    <3>1. j + 1 = q + 1
      BY <1>2, <1>4, <2>1
    <3>2. flat[j + 1] = w[1]
      BY <3>1
    <3> QED
      BY <1>1, <2>1, <3>2, Zenon DEF NextByte
  <2>2. CASE m # len
    <3>1. m + 1 \in 1 .. len /\ j + 1 = p + 2 + (m + 1)
      BY <1>2, <1>4, <2>2
    <3>2. flat[j + 1] = v[m + 1]
      BY <1>3, <3>1
    <3> QED
      BY <1>1, <2>2, <3>2, Zenon DEF NextByte
  <2> QED
    BY <2>1, <2>2
<1>7. m \in 1 .. Len(v)
  BY <1>1
<1>8. SubSeq(v \o w, m, m + 1) = <<v[m], NextByte(v, w, m)>>
  BY <1>2, <1>7, ValueThenPair
<1> QED
  BY <1>5, <1>6, <1>7, <1>8 DEF InValue

\* The search for the next identifier finds it where the ECU has put it.
LEMMA NextIsNext ==
  ASSUME NEW flat \in Seq(Nat), NEW u, NEW v, NEW p, NEW q, DidPlace(flat, u, v, p, q),
         NEW w, NEW x, NEW r, DidPlace(flat, w, x, q, r),
         Without(v, w)
  PROVE  NextStart(flat, p + 1 + 2, w) = q + 1
<1>1. /\ p \in Nat /\ q \in Nat /\ r \in Nat /\ p + 2 <= q /\ q + 2 <= r /\ r <= Len(flat)
      /\ Len(flat) \in Nat
  <2>1. PICK a \in Nat, b \in Nat, c \in Nat : a = Len(v) /\ b = Len(x) /\ c = Len(flat)
    BY DEF DidPlace
  <2>2. /\ p \in Nat /\ q \in Nat /\ r \in Nat /\ r <= c
        /\ q = p + 2 + a /\ r = q + 2 + b
    BY <2>1 DEF DidPlace
  <2> QED
    BY <2>1, <2>2
<1>2. w \in Seq(Nat) /\ Len(w) = 2 /\ flat[q + 1] = w[1] /\ flat[q + 2] = w[2]
  BY DEF DidPlace
<1>3. PICK from \in Nat, at \in Nat :
        from = p + 1 + 2 /\ at = q + 1 /\ at \in from .. Len(flat) - 1
  <2>1. p + 1 + 2 \in Nat /\ q + 1 \in p + 1 + 2 .. Len(flat) - 1
    BY <1>1
  <2> QED
    BY <2>1
<1>4. <<flat[at], flat[at + 1]>> = w
  <2>1. at = q + 1 /\ at + 1 = q + 2
    BY <1>1, <1>3
  <2>2. w = <<w[1], w[2]>>
    BY <1>2
  <2> QED
    BY <1>2, <2>1, <2>2
<1>5. ASSUME NEW j \in from .. at - 1 PROVE <<flat[j], flat[j + 1]>> # w
  <2>1. j \in p + 1 + 2 .. (q + 1) - 1
    BY <1>3
  <2>2. InValue(v, w, flat, j)
    BY <1>2, <2>1, OnTheWay
  <2> QED
    BY <2>2 DEF InValue, Without
<1>6. at \in from .. Len(flat) - 1
  BY <1>3
<1>7. \A j \in from .. at - 1 : <<flat[j], flat[j + 1]>> # w
  BY <1>5
<1>8. FirstAt(flat, from, w, at)
  BY <1>4, <1>6, <1>7 DEF FirstAt
<1>9. NextStart(flat, from, w) = at
  BY <1>8, NextFound
<1> QED
  BY <1>3, <1>9

\* read() starts the identifiers where the ECU has put them.
LEMMA StartsThere ==
  ASSUME NEW list, NEW val, NEW flat, NEW off, DidPlaces(list, val, flat, off),
         Apart(list, val),
         NEW f, f = [i \in 1 .. Len(list) + 1 |-> off[i - 1] + 1]
  PROVE  Starts(f, list, flat)
<1>1. PICK n \in Nat \ {0} : n = Len(list)
  BY DEF DidPlaces
<1>2. flat \in Seq(Nat) /\ off[0] = 0 /\ off[n] = Len(flat)
  BY <1>1 DEF DidPlaces
<1>3. \A i \in 1 .. n + 1 : f[i] = off[i - 1] + 1
  BY <1>1
<1>4. ASSUME NEW i \in 1 .. n + 1
      PROVE  f[i] = StartAt(f, list, flat, i)
  <2>1. CASE i = 1
    <3>1. f[i] = 1
      BY <1>2, <1>3, <2>1
    <3>2. i # n + 1
      BY <2>1
    <3> QED
      BY <1>1, <2>1, <3>1, <3>2 DEF StartAt
  <2>2. CASE i = n + 1
    <3>1. (n + 1) - 1 = n /\ i # 1
      BY <2>2
    <3>2. f[i] = Len(flat) + 1
      BY <1>2, <1>3, <2>2, <3>1
    <3> QED
      BY <1>1, <2>2, <3>1, <3>2 DEF StartAt
  <2>3. CASE i # 1 /\ i # n + 1
    <3>1. /\ i \in 1 .. n /\ i - 1 \in 1 .. n /\ i - 1 \in 1 .. n - 1 /\ i - 1 \in 1 .. n + 1
          /\ (i - 1) + 1 = i
      BY <2>3
    <3>2. PICK u, v, p, q : u = list[i - 1] /\ v = val[list[i - 1]] /\ p = off[(i - 1) - 1]
                            /\ q = off[i - 1]
      OBVIOUS
    <3>3. PICK w, x, r : w = list[i] /\ x = val[list[i]] /\ r = off[i]
      OBVIOUS
    <3>4. DidPlace(flat, u, v, p, q)
      BY <1>1, <3>1, <3>2, DidPlaceAt
    <3>5. DidPlace(flat, w, x, q, r)
      BY <1>1, <3>1, <3>2, <3>3, DidPlaceAt
    <3>6. Without(v, w)
      <4>1. DOMAIN v = 1 .. Len(v)
        BY <3>4 DEF DidPlace
      <4>2. \A m \in DOMAIN val[list[i - 1]] :
              SubSeq(val[list[i - 1]] \o list[(i - 1) + 1], m, m + 1) # list[(i - 1) + 1]
        BY <1>1, <3>1 DEF Apart
      <4> QED
        BY <3>1, <3>2, <3>3, <4>1, <4>2 DEF Without
    <3>7. NextStart(flat, p + 1 + 2, w) = q + 1
      BY <1>2, <3>4, <3>5, <3>6, NextIsNext
    <3>8. f[i - 1] = p + 1 /\ f[i] = q + 1
      BY <1>3, <3>1, <3>2
    <3>9. f[i] = NextStart(flat, f[i - 1] + 2, list[i])
      BY <3>3, <3>7, <3>8
    <3> QED
      BY <1>1, <2>3, <3>9 DEF StartAt
  <2> QED
    BY <2>1, <2>2, <2>3
<1> QED
  BY <1>1, <1>4, Zenon DEF Starts

\* There is one way to start the identifiers.
LEMMA StartsUnique ==
  ASSUME NEW list, Len(list) \in Nat, NEW payload, NEW f, NEW g,
         Starts(f, list, payload), Starts(g, list, payload)
  PROVE  f = g
<1>1. PICK n \in Nat : n = Len(list)
  OBVIOUS
<1> DEFINE T == {k \in Nat : k + 1 \in 1 .. n + 1 => f[k + 1] = g[k + 1]}
<1>2. \A i \in 1 .. n + 1 :
        f[i] = StartAt(f, list, payload, i) /\ g[i] = StartAt(g, list, payload, i)
  BY <1>1 DEF Starts
<1>3. 0 \in T
  <2>1. 1 \in 1 .. n + 1 /\ 0 + 1 = 1
    OBVIOUS
  <2> QED
    BY <1>2, <2>1 DEF StartAt
<1>4. ASSUME NEW k \in Nat, k \in T PROVE k + 1 \in T
  <2> SUFFICES ASSUME (k + 1) + 1 \in 1 .. n + 1 PROVE f[(k + 1) + 1] = g[(k + 1) + 1]
    OBVIOUS
  <2>1. k + 1 \in 1 .. n + 1 /\ (k + 1) + 1 # 1 /\ ((k + 1) + 1) - 1 = k + 1
    OBVIOUS
  <2>2. f[k + 1] = g[k + 1]
    BY <1>4, <2>1
  <2> HIDE DEF T
  <2> QED
    BY <1>2, <2>1, <2>2 DEF StartAt
<1> HIDE DEF T
<1>5. \A k \in Nat : k \in T
  BY <1>3, <1>4, InductiveSet
<1>6. ASSUME NEW i \in 1 .. n + 1 PROVE f[i] = g[i]
  <2>1. i - 1 \in Nat /\ (i - 1) + 1 = i
    OBVIOUS
  <2> QED
    BY <1>5, <2>1 DEF T
<1>7. f = [i \in 1 .. n + 1 |-> f[i]] /\ g = [i \in 1 .. n + 1 |-> g[i]]
  BY <1>1 DEF Starts
<1> QED
  BY <1>6, <1>7

\* A set of places has a last one.
LEMMA LastPlace ==
  ASSUME NEW n \in Nat, NEW W, W \subseteq 1 .. n, W # {}
  PROVE  \E i \in W : \A k \in W : k <= i
<1> DEFINE T == {y \in Nat : \E k \in W : y = n - k}
<1>1. T \subseteq Nat /\ T # {}
  <2>1. PICK k \in W : TRUE
    OBVIOUS
  <2>2. n - k \in Nat
    OBVIOUS
  <2> QED
    BY <2>2
<1>2. PICK x \in T : \A y \in T : x <= y
  BY <1>1, LeastElement
<1>3. PICK i \in W : x = n - i
  BY <1>2
<1>4. ASSUME NEW k \in W PROVE k <= i
  <2>1. n - k \in T /\ x <= n - k
    BY <1>2
  <2> QED
    BY <1>3, <2>1
<1> QED
  BY <1>4

\* The identifier and the value between two starts.
LEMMA BetweenStarts ==
  ASSUME NEW flat \in Seq(Nat), NEW u, NEW v, NEW p, NEW q, DidPlace(flat, u, v, p, q)
  PROVE  /\ (p + 1) + 1 <= Len(flat)
         /\ SubSeq(flat, p + 1, (p + 1) + 1) = u
         /\ SubSeq(flat, (p + 1) + 2, (q + 1) - 1) = v
<1>1. PICK len \in Nat, n \in Nat : len = Len(v) /\ n = Len(flat)
  BY DEF DidPlace
<1>2. p \in Nat /\ q \in Nat /\ q = p + 2 + len /\ q <= n
  BY <1>1 DEF DidPlace
<1>3. PICK a \in Nat : a = p + 1 /\ a + 1 = p + 2
  BY <1>2
<1>4. a \in 1 .. n /\ a + 1 \in 1 .. n
  BY <1>2, <1>3
<1>5. SubSeq(flat, a, a + 1) = u
  <2>1. SubSeq(flat, a, a + 1) = <<flat[a], flat[a + 1]>>
    BY <1>1, <1>4, TwoOfSeq
  <2>2. flat[a] = u[1] /\ flat[a + 1] = u[2] /\ u \in Seq(Nat) /\ Len(u) = 2
    BY <1>3 DEF DidPlace
  <2>3. u = <<u[1], u[2]>>
    BY <2>2
  <2> QED
    BY <2>1, <2>2, <2>3
<1>6. SubSeq(flat, p + 3, q) = v
  <2>1. PICK t : t = SubSeq(flat, p + 3, q)
    OBVIOUS
  <2>2. p + 3 \in Int /\ q \in Int /\ q - (p + 3) + 1 = len /\ (p + 3 <= q <=> len # 0)
    BY <1>2
  <2>3. \A i \in p + 3 .. q : flat[i] \in Nat
    BY <1>1, <1>2
  <2>4. t \in Seq(Nat) /\ Len(t) = len /\ \A i \in 1 .. len : t[i] = flat[(p + 3) + i - 1]
    BY <2>1, <2>2, <2>3, SubSeqProperties
  <2>5. \A i \in 1 .. len : (p + 3) + i - 1 = p + 2 + i
    BY <1>2
  <2>6. \A i \in 1 .. len : flat[p + 2 + i] = v[i]
    BY <1>1 DEF DidPlace
  <2>7. v \in Seq(Nat)
    BY DEF DidPlace
  <2>8. \A i \in 1 .. len : t[i] = v[i]
    BY <2>4, <2>5, <2>6
  <2>9. t = v
    BY <1>1, <2>4, <2>7, <2>8, SeqEqual
  <2> QED
    BY <2>1, <2>9
<1>7. (p + 1) + 2 = p + 3 /\ (q + 1) - 1 = q /\ (p + 1) + 1 = a + 1 /\ a + 1 <= n
  BY <1>2, <1>3, <1>4
<1> QED
  BY <1>1, <1>3, <1>5, <1>6, <1>7

ValuesOf(list, val) == [d \in {list[i] : i \in 1 .. Len(list)} |-> val[d]]

\* What the split returns: every identifier with its value.
LEMMA SplitFound ==
  ASSUME NEW list, NEW val, NEW flat, NEW off, DidPlaces(list, val, flat, off),
         NEW f, f = [i \in 1 .. Len(list) + 1 |-> off[i - 1] + 1]
  PROVE  Split(list, flat, f) = ValuesOf(list, val)
<1>1. PICK n \in Nat : n = Len(list)
  BY DEF DidPlaces
<1>2. ASSUME NEW i \in 1 .. n
      PROVE  /\ f[i] + 1 <= Len(flat)
             /\ SubSeq(flat, f[i], f[i] + 1) = list[i]
             /\ SubSeq(flat, f[i] + 2, f[i + 1] - 1) = val[list[i]]
  <2>1. i \in 1 .. n + 1 /\ i + 1 \in 1 .. n + 1 /\ (i + 1) - 1 = i
    OBVIOUS
  <2>2. f[i] = off[i - 1] + 1 /\ f[i + 1] = off[i] + 1
    BY <1>1, <2>1
  <2>3. PICK u, v, p, q : u = list[i] /\ v = val[list[i]] /\ p = off[i - 1] /\ q = off[i]
    OBVIOUS
  <2>4. DidPlace(flat, u, v, p, q)
    BY <1>1, <2>3, DidPlaceAt
  <2>5. flat \in Seq(Nat)
    BY DEF DidPlaces
  <2>6. /\ (p + 1) + 1 <= Len(flat)
        /\ SubSeq(flat, p + 1, (p + 1) + 1) = u
        /\ SubSeq(flat, (p + 1) + 2, (q + 1) - 1) = v
    BY <2>4, <2>5, BetweenStarts
  <2>7. f[i] = p + 1 /\ f[i + 1] = q + 1
    BY <2>2, <2>3
  <2> QED
    BY <2>3, <2>6, <2>7
<1> DEFINE whole == {i \in 1 .. Len(list) : f[i] + 1 <= Len(flat)}
           DidAt(i) == SubSeq(flat, f[i], f[i] + 1)
           Latest(d) == CHOOSE i \in whole :
                          DidAt(i) = d /\ \A k \in whole : DidAt(k) = d => k <= i
<1>3. Split(list, flat, f) = [d \in {DidAt(i) : i \in whole} |->
                                SubSeq(flat, f[Latest(d)] + 2, f[Latest(d) + 1] - 1)]
  BY DEF Split
<1>4. whole = 1 .. n
  BY <1>1, <1>2
<1>5. \A i \in 1 .. n : DidAt(i) = list[i]
  BY <1>2
<1>6. {DidAt(i) : i \in whole} = {list[i] : i \in 1 .. n}
  BY <1>4, <1>5, Zenon
<1>7. ASSUME NEW d \in {list[i] : i \in 1 .. n}
      PROVE  Latest(d) \in 1 .. n /\ list[Latest(d)] = d
  <2> DEFINE W == {i \in 1 .. n : list[i] = d}
  <2>1. W \subseteq 1 .. n /\ W # {}
    OBVIOUS
  <2>2. PICK i \in W : \A k \in W : k <= i
    BY <2>1, LastPlace
  <2>3. /\ i \in whole /\ DidAt(i) = d
        /\ \A k \in whole : DidAt(k) = d => k <= i
    BY <1>4, <1>5, <2>2
  <2>4. Latest(d) \in whole /\ DidAt(Latest(d)) = d
    <3> HIDE DEF whole, DidAt
    <3> QED
      BY <2>3
  <2> HIDE DEF whole, DidAt, Latest
  <2> QED
    BY <1>4, <1>5, <2>4, Zenon
<1> HIDE DEF whole, DidAt, Latest
<1>8. ASSUME NEW d \in {list[i] : i \in 1 .. n}
      PROVE  SubSeq(flat, f[Latest(d)] + 2, f[Latest(d) + 1] - 1) = val[d]
  <2>1. PICK k \in 1 .. n : k = Latest(d) /\ list[k] = d
    BY <1>7, Zenon
  <2>2. SubSeq(flat, f[k] + 2, f[k + 1] - 1) = val[list[k]]
    BY <1>2
  <2> QED
    BY <2>1, <2>2, Zenon
<1> QED
  BY <1>1, <1>3, <1>6, <1>8 DEF ValuesOf

\* read() splits the response of the ECU where its identifiers are.
LEMMA ReadBack ==
  ASSUME NEW list \in Seq(Nat \X Nat), Len(list) # 0, NEW val,
         \A k \in 1 .. Len(list) : val[list[k]] \in Seq(Nat),
         Apart(list, val),
         NEW recs, recs = [k \in 1 .. Len(list) |-> list[k] \o val[list[k]]],
         NEW resp, Tail(resp) = FlattenSeq(recs)
  PROVE  ReadDids(list, resp) = ValuesOf(list, val)
<1>1. PICK flat : flat = Tail(resp) /\ flat = FlattenSeq(recs)
  OBVIOUS
<1>2. PICK off : DidPlaces(list, val, flat, off)
  BY <1>1, DidPlacesFound
<1>3. PICK f : f = [i \in 1 .. Len(list) + 1 |-> off[i - 1] + 1]
  OBVIOUS
<1>4. Starts(f, list, flat)
  BY <1>2, <1>3, StartsThere
<1>5. PICK g : g = CHOOSE h : Starts(h, list, flat)
  OBVIOUS
<1>6. Starts(g, list, flat)
  BY <1>4, <1>5, Zenon
<1>7. Len(list) \in Nat
  OBVIOUS
<1>8. g = f
  BY <1>4, <1>6, <1>7, StartsUnique
<1>9. ReadDids(list, resp) = Split(list, flat, g)
  BY <1>1, <1>5, ReadInSteps, Zenon
<1>10. Split(list, flat, f) = ValuesOf(list, val)
  BY <1>2, <1>3, SplitFound
<1> QED
  BY <1>8, <1>9, <1>10

EcuTh == INSTANCE EcuServerProofs WITH reply <- ecuReply

\* The constants are what EcuServer assumes of its own.
LEMMA EcuConstants ==
  EcuTh!ServerAssumption /\ EcuTh!ComponentsAssumption
<1>1. EcuTh!ServerAssumption
  BY EcuAssumption
     DEF Ecu!ServerAssumption, EcuTh!ServerAssumption, Ecu!UdsDidEntry, EcuTh!UdsDidEntry,
         Ecu!SessionTypes, EcuTh!SessionTypes, Ecu!DEFAULT, EcuTh!DEFAULT,
         Ecu!PROGRAMMING, EcuTh!PROGRAMMING, Ecu!EXTENDED, EcuTh!EXTENDED,
         Ecu!SAFETY, EcuTh!SAFETY
<1>2. EcuTh!ComponentsAssumption
  BY EcuAssumption
     DEF Ecu!ComponentsAssumption, EcuTh!ComponentsAssumption,
         Ecu!Sec!SecurityAssumption, EcuTh!Sec!SecurityAssumption,
         Ecu!Sec!Keys, EcuTh!Sec!Keys,
         Ecu!Flash!SizesAssumption, EcuTh!Flash!SizesAssumption,
         Ecu!Flash!RegionsAssumption, EcuTh!Flash!RegionsAssumption,
         Ecu!Flash!Region, EcuTh!Flash!Region, Ecu!Flash!Word, EcuTh!Flash!Word
<1> QED
  BY <1>1, <1>2

\* The theorem module's copy of the flash services is the ECU's.
LEMMA FlashServiceSame == Ecu!FlashService <=> EcuTh!FlashService
<1>1. ASSUME NEW fmt_ok, NEW address, NEW mem_size
      PROVE  /\ Ecu!Flash!uds_svc_request_download(fmt_ok, address, mem_size)
                  <=> EcuTh!Flash!uds_svc_request_download(fmt_ok, address, mem_size)
             /\ Ecu!Flash!uds_svc_request_upload(fmt_ok, address, mem_size)
                  <=> EcuTh!Flash!uds_svc_request_upload(fmt_ok, address, mem_size)
  BY DEF Ecu!Flash!uds_svc_request_download, EcuTh!Flash!uds_svc_request_download,
         Ecu!Flash!uds_svc_request_upload, EcuTh!Flash!uds_svc_request_upload,
         Ecu!Flash!Refuse, EcuTh!Flash!Refuse, Ecu!Flash!history, EcuTh!Flash!history,
         Ecu!Flash!StartXfer, EcuTh!Flash!StartXfer,
         Ecu!Flash!uds_flash_erase, EcuTh!Flash!uds_flash_erase,
         Ecu!Flash!uds_flash_address_valid, EcuTh!Flash!uds_flash_address_valid,
         Ecu!Flash!Programmable, EcuTh!Flash!Programmable,
         Ecu!Flash!find_region, EcuTh!Flash!find_region,
         Ecu!Flash!Contains, EcuTh!Flash!Contains, Ecu!Flash!Cells, EcuTh!Flash!Cells,
         Ecu!Flash!Positive, EcuTh!Flash!Positive
<1>2. ASSUME NEW seq, NEW bytes
      PROVE  Ecu!Flash!uds_svc_transfer_data(seq, bytes)
               <=> EcuTh!Flash!uds_svc_transfer_data(seq, bytes)
  BY DEF Ecu!Flash!uds_svc_transfer_data, EcuTh!Flash!uds_svc_transfer_data,
         Ecu!Flash!DeviceRefuses, EcuTh!Flash!DeviceRefuses,
         Ecu!Flash!Refuse, EcuTh!Flash!Refuse,
         Ecu!Flash!TransferDownload, EcuTh!Flash!TransferDownload,
         Ecu!Flash!TransferUpload, EcuTh!Flash!TransferUpload,
         Ecu!Flash!history, EcuTh!Flash!history,
         Ecu!Flash!Advance, EcuTh!Flash!Advance,
         Ecu!Flash!NextBlockSeq, EcuTh!Flash!NextBlockSeq,
         Ecu!Flash!uds_flash_write, EcuTh!Flash!uds_flash_write,
         Ecu!Flash!uds_flash_read, EcuTh!Flash!uds_flash_read,
         Ecu!Flash!uds_flash_address_valid, EcuTh!Flash!uds_flash_address_valid,
         Ecu!Flash!Programmable, EcuTh!Flash!Programmable,
         Ecu!Flash!find_region, EcuTh!Flash!find_region,
         Ecu!Flash!Contains, EcuTh!Flash!Contains, Ecu!Flash!Cells, EcuTh!Flash!Cells,
         Ecu!Flash!Remaining, EcuTh!Flash!Remaining,
         Ecu!Flash!Position, EcuTh!Flash!Position,
         Ecu!Flash!ToRead, EcuTh!Flash!ToRead, Ecu!Flash!Positive, EcuTh!Flash!Positive,
         Ecu!Flash!NoReply, EcuTh!Flash!NoReply
<1>3. Ecu!Flash!uds_svc_transfer_exit <=> EcuTh!Flash!uds_svc_transfer_exit
  BY DEF Ecu!Flash!uds_svc_transfer_exit, EcuTh!Flash!uds_svc_transfer_exit,
         Ecu!Flash!Refuse, EcuTh!Flash!Refuse, Ecu!Flash!history, EcuTh!Flash!history,
         Ecu!Flash!uds_xfer_init, EcuTh!Flash!uds_xfer_init,
         Ecu!Flash!Positive, EcuTh!Flash!Positive
<1> QED
  BY <1>1, <1>2, <1>3
     DEF Ecu!FlashService, EcuTh!FlashService, Ecu!Flash!Word, EcuTh!Flash!Word,
         Ecu!Flash!Blocks, EcuTh!Flash!Blocks, Ecu!secVars, EcuTh!secVars,
         Ecu!coreVars, EcuTh!coreVars

\* ... of the security service ...
LEMMA SecurityServiceSame == Ecu!SecurityService <=> EcuTh!SecurityService
<1>1. ASSUME NEW sub_fn, NEW seed
      PROVE  Ecu!RequestSeed(sub_fn, seed) <=> EcuTh!RequestSeed(sub_fn, seed)
  BY DEF Ecu!RequestSeed, EcuTh!RequestSeed,
         Ecu!Sec!uds_core_sec_request_seed, EcuTh!Sec!uds_core_sec_request_seed,
         Ecu!Sec!Answer, EcuTh!Sec!Answer, Ecu!Sec!check_locked, EcuTh!Sec!check_locked,
         Ecu!Sec!LockChecked, EcuTh!Sec!LockChecked, Ecu!Sec!history, EcuTh!Sec!history,
         Ecu!Sec!Positive, EcuTh!Sec!Positive, Ecu!flashVars, EcuTh!flashVars,
         Ecu!coreVars, EcuTh!coreVars
<1>2. ASSUME NEW sub_fn, NEW key, NEW len_ok
      PROVE  Ecu!SendKey(sub_fn, key, len_ok) <=> EcuTh!SendKey(sub_fn, key, len_ok)
  BY DEF Ecu!SendKey, EcuTh!SendKey,
         Ecu!Sec!uds_core_sec_send_key, EcuTh!Sec!uds_core_sec_send_key,
         Ecu!Sec!Answer, EcuTh!Sec!Answer, Ecu!Sec!check_locked, EcuTh!Sec!check_locked,
         Ecu!Sec!LockChecked, EcuTh!Sec!LockChecked, Ecu!Sec!history, EcuTh!Sec!history,
         Ecu!Sec!seed_expired, EcuTh!Sec!seed_expired, Ecu!Sec!WrongKey, EcuTh!Sec!WrongKey,
         Ecu!Sec!RightKey, EcuTh!Sec!RightKey,
         Ecu!Sec!uds_core_sec_compute_key, EcuTh!Sec!uds_core_sec_compute_key,
         Ecu!Sec!Positive, EcuTh!Sec!Positive, Ecu!Positive, EcuTh!Positive,
         Ecu!flashVars, EcuTh!flashVars
<1> QED
  BY <1>1, <1>2 DEF Ecu!SecurityService, EcuTh!SecurityService

\* ... and of all the others.
LEMMA OtherServicesSame ==
  /\ Ecu!Malformed <=> EcuTh!Malformed
  /\ Ecu!SessionService <=> EcuTh!SessionService
  /\ Ecu!DataService <=> EcuTh!DataService
<1> USE DEF Ecu!secVars, EcuTh!secVars, Ecu!flashVars, EcuTh!flashVars,
            Ecu!OthersUnchanged, EcuTh!OthersUnchanged, Ecu!Respond, EcuTh!Respond,
            Ecu!Positive, EcuTh!Positive, Ecu!NoReply, EcuTh!NoReply
<1>1. Ecu!Malformed <=> EcuTh!Malformed
  BY DEF Ecu!Malformed, EcuTh!Malformed
<1>2. Ecu!SessionTypes = EcuTh!SessionTypes /\ Ecu!DEFAULT = EcuTh!DEFAULT
  BY DEF Ecu!SessionTypes, EcuTh!SessionTypes, Ecu!DEFAULT, EcuTh!DEFAULT,
         Ecu!PROGRAMMING, EcuTh!PROGRAMMING, Ecu!EXTENDED, EcuTh!EXTENDED,
         Ecu!SAFETY, EcuTh!SAFETY
<1>3. Ecu!SessionService <=> EcuTh!SessionService
  <2>1. ASSUME NEW session_type
        PROVE  Ecu!uds_core_dsc(session_type) <=> EcuTh!uds_core_dsc(session_type)
    BY <1>2 DEF Ecu!uds_core_dsc, EcuTh!uds_core_dsc, Ecu!NewSession, EcuTh!NewSession
  <2>2. ASSUME NEW supported, NEW suppress
        PROVE  Ecu!uds_core_tester_present(supported, suppress)
                 <=> EcuTh!uds_core_tester_present(supported, suppress)
    BY DEF Ecu!uds_core_tester_present, EcuTh!uds_core_tester_present
  <2>3. ASSUME NEW reset_type
        PROVE  Ecu!uds_svc_ecu_reset(reset_type) <=> EcuTh!uds_svc_ecu_reset(reset_type)
    BY <1>2
       DEF Ecu!uds_svc_ecu_reset, EcuTh!uds_svc_ecu_reset, Ecu!Sec!SecurityReset,
           EcuTh!Sec!SecurityReset, Ecu!Sec!Answer, EcuTh!Sec!Answer,
           Ecu!Sec!uds_core_security_init, EcuTh!Sec!uds_core_security_init,
           Ecu!Sec!Positive, EcuTh!Sec!Positive,
           Ecu!uds_core_session_init, EcuTh!uds_core_session_init
  <2> QED
    BY <2>1, <2>2, <2>3 DEF Ecu!SessionService, EcuTh!SessionService
<1>4. Ecu!DataService <=> EcuTh!DataService
  <2>1. ASSUME NEW did_list
        PROVE  Ecu!uds_svc_read_did(did_list) <=> EcuTh!uds_svc_read_did(did_list)
    BY DEF Ecu!uds_svc_read_did, EcuTh!uds_svc_read_did
  <2>2. ASSUME NEW d, NEW value
        PROVE  Ecu!uds_svc_write_did(d, value) <=> EcuTh!uds_svc_write_did(d, value)
    BY DEF Ecu!uds_svc_write_did, EcuTh!uds_svc_write_did, Ecu!MayWrite, EcuTh!MayWrite,
           Ecu!WriteRefusal, EcuTh!WriteRefusal, Ecu!Sec!uds_core_sec_is_unlocked,
           EcuTh!Sec!uds_core_sec_is_unlocked
  <2>3. ASSUME NEW control_type, NEW comm_type
        PROVE  Ecu!uds_svc_comm_control(control_type, comm_type)
                 <=> EcuTh!uds_svc_comm_control(control_type, comm_type)
    BY DEF Ecu!uds_svc_comm_control, EcuTh!uds_svc_comm_control
  <2>4. ASSUME NEW group
        PROVE  Ecu!uds_svc_clear_dtc(group) <=> EcuTh!uds_svc_clear_dtc(group)
    BY DEF Ecu!uds_svc_clear_dtc, EcuTh!uds_svc_clear_dtc, Ecu!AllDtcs, EcuTh!AllDtcs
  <2>5. ASSUME NEW sub_fn
        PROVE  Ecu!uds_svc_read_dtc(sub_fn) <=> EcuTh!uds_svc_read_dtc(sub_fn)
    BY DEF Ecu!uds_svc_read_dtc, EcuTh!uds_svc_read_dtc
  <2>6. Ecu!AllDtcs = EcuTh!AllDtcs
    BY DEF Ecu!AllDtcs, EcuTh!AllDtcs
  <2> HIDE DEF Ecu!Respond, EcuTh!Respond
  <2> QED
    BY <2>1, <2>2, <2>3, <2>4, <2>5, <2>6 DEF Ecu!DataService, EcuTh!DataService
<1> QED
  BY <1>1, <1>3, <1>4

\* So the copy starts as the ECU of TesterServices ...
LEMMA EcuInitSame == Ecu!ecusim_init <=> EcuTh!ecusim_init
BY DEF Ecu!ecusim_init, EcuTh!ecusim_init, Ecu!Sec!Init, EcuTh!Sec!Init,
       Ecu!Sec!uds_core_security_init, EcuTh!Sec!uds_core_security_init,
       Ecu!Sec!NoSeed, EcuTh!Sec!NoSeed, Ecu!Sec!NoReply, EcuTh!Sec!NoReply,
       Ecu!Flash!Init, EcuTh!Flash!Init, Ecu!Flash!uds_xfer_init, EcuTh!Flash!uds_xfer_init,
       Ecu!Flash!Cells, EcuTh!Flash!Cells, Ecu!Flash!NoReply, EcuTh!Flash!NoReply,
       Ecu!uds_core_session_init, EcuTh!uds_core_session_init, Ecu!DEFAULT, EcuTh!DEFAULT,
       Ecu!NoReply, EcuTh!NoReply

\* ... takes the same steps ...
LEMMA EcuNextSame == [Ecu!Next]_Ecu!vars <=> [EcuTh!Next]_EcuTh!vars
<1>1. Ecu!Tick <=> EcuTh!Tick
  BY DEF Ecu!Tick, EcuTh!Tick, Ecu!Sec!Tick, EcuTh!Sec!Tick, Ecu!Sec!history,
         EcuTh!Sec!history, Ecu!flashVars, EcuTh!flashVars, Ecu!coreVars, EcuTh!coreVars
<1>2. Ecu!Next <=> EcuTh!Next
  BY <1>1, FlashServiceSame, SecurityServiceSame, OtherServicesSame
     DEF Ecu!Next, EcuTh!Next, Ecu!ecusim_dispatch, EcuTh!ecusim_dispatch
<1> QED
  BY <1>2 DEF Ecu!vars, EcuTh!vars, Ecu!secVars, EcuTh!secVars, Ecu!flashVars,
              EcuTh!flashVars, Ecu!coreVars, EcuTh!coreVars

\* ... and is the same specification.
LEMMA EcuSame == Ecu!Spec <=> EcuTh!Spec
BY EcuInitSame, EcuNextSame, PTL DEF Ecu!Spec, EcuTh!Spec

----------------------------------------------------------------------------
(* Requests and responses *)

\* What a value written must satisfy to be one that the registry can hold.
Writable(req) ==
  LET d == <<req[2], req[3]>>  bytes == SubSeq(req, 4, Len(req))
  IN  d \in Dids /\ Len(bytes) = DidTable[d].data_len => bytes \in DidValues

\* The request of each method.
Shape(op, req) ==
  \/ op = "change_session" /\ \E t \in Nat : req = <<16, t>>
  \/ op = "tester_present" /\ req \in {<<62, 0>>, <<62, 128>>}
  \/ op = "unlock" /\ \E level \in Levels : req = <<39, level>>
  \/ op = "read" /\ Len(req) >= 1 /\ req[1] = 34
  \/ op = "write" /\ Len(req) >= 3 /\ req[1] = 46 /\ Writable(req)
  \/ op = "ecu_reset" /\ \E t \in Nat : req = <<17, t>>
  \/ op = "comm_control" /\ \E c, m \in Nat : req = <<40, c, m>>
  \/ op = "read_count" /\ \E m \in Nat : req = <<25, 1, m>>
  \/ op = "read_by_status" /\ \E m \in Nat : req = <<25, 2, m>>
  \/ op = "read_all" /\ req = <<25, 10>>
  \/ op = "clear" /\ Len(req) = 4 /\ req[1] = 20

Ops == {"change_session", "tester_present", "unlock", "read", "write", "ecu_reset",
        "comm_control", "read_count", "read_by_status", "read_all", "clear"}

\* Half of the bytes after the first.
LEMMA Halves ==
  ASSUME NEW n \in Nat
  PROVE  /\ n # 0 => (n - 1) \div 2 \in Nat
         /\ \A i \in 1 .. (n - 1) \div 2 : 2 * i \in 1 .. n /\ 2 * i + 1 \in 1 .. n
         /\ (n - 1) \div 2 \in Int
         /\ n = 0 => (n - 1) \div 2 = -1
<1>1. \E q \in Int : q = (n - 1) \div 2 /\ 2 * q <= n - 1 /\ n - 1 < 2 * q + 2
  OBVIOUS
<1> QED
  BY <1>1

\* The identifiers in a request are pairs of bytes.
LEMMA DidListType ==
  ASSUME NEW r \in Seq(Nat)
  PROVE  /\ DidList(r) \in Seq(Nat \X Nat)
         /\ DidList(r) \in Seq(Seq(Nat))
<1> DEFINE m == (Len(r) - 1) \div 2
<1>1. Len(r) \in Nat
  OBVIOUS
<1>2. \A i \in 1 .. m : 2 * i \in 1 .. Len(r) /\ 2 * i + 1 \in 1 .. Len(r)
  BY <1>1, Halves
<1>3. \A i \in 1 .. m : r[2 * i] \in Nat /\ r[2 * i + 1] \in Nat
  BY <1>2
<1>4. CASE Len(r) = 0
  <2>1. 1 .. m = {}
    BY <1>4, Halves
  <2>2. DidList(r) = <<>>
    BY <2>1 DEF DidList
  <2> QED
    BY <2>2
<1>5. CASE Len(r) # 0
  <2>1. m \in Nat
    BY <1>1, <1>5, Halves
  <2>2. DidList(r) = [i \in 1 .. m |-> <<r[2 * i], r[2 * i + 1]>>]
    BY DEF DidList
  <2> HIDE DEF m
  <2> QED
    BY <1>3, <2>1, <2>2
<1> QED
  BY <1>4, <1>5

\* Every call sends a request of its method's shape.
LEMMA CallShape ==
  ASSUME NEW c \in Calls, NEW r, r = c.request
  PROVE  /\ r \in Seq(Nat)
         /\ c.op \in Ops
         /\ Shape(c.op, r)
<1>1. r \in Seq(Nat) /\ MethodCall(c)
  BY CallsAssumption
<1>2. c.op = "write" => Writable(r)
  BY CallsAssumption DEF Writable
<1> USE DEF Ops, Shape
<1>3. CASE c.op = "change_session" /\ c = change_session(r[2])
  <2>1. r = <<16, r[2]>>
    BY <1>3 DEF change_session
  <2>2. r[2] \in Nat
    BY <1>1, <2>1
  <2> QED
    BY <1>1, <1>3, <2>1, <2>2
<1>4. CASE \E suppress \in BOOLEAN : c = tester_present(suppress)
  BY <1>1, <1>4 DEF tester_present
<1>5. CASE \E level \in Levels : c = unlock(level)
  BY <1>1, <1>5 DEF unlock
<1>6. CASE c.op = "read" /\ c = read(DidList(r))
  <2>1. DidList(r) \in Seq(Seq(Nat))
    BY <1>1, DidListType
  <2>2. r = <<34>> \o FlattenSeq(DidList(r))
    BY <1>6 DEF read
  <2>3. FlattenSeq(DidList(r)) \in Seq(Nat)
    BY <2>1, FlattenType
  <2>4. Len(r) >= 1 /\ r[1] = 34
    BY <2>2, <2>3
  <2> QED
    BY <1>1, <1>6, <2>4
<1>7. CASE c.op = "write" /\ c = write(<<r[2], r[3]>>, SubSeq(r, 4, Len(r)))
  <2>1. r = <<46>> \o <<r[2], r[3]>> \o SubSeq(r, 4, Len(r))
    BY <1>7 DEF write
  <2>2. SubSeq(r, 4, Len(r)) \in Seq(Nat)
    BY <1>1
  <2>3. Len(r) >= 3 /\ r[1] = 46
    BY <2>1, <2>2
  <2> QED
    BY <1>1, <1>2, <1>7, <2>3
<1>8. CASE c.op = "ecu_reset" /\ c = ecu_reset(r[2])
  <2>1. r = <<17, r[2]>>
    BY <1>8 DEF ecu_reset
  <2>2. r[2] \in Nat
    BY <1>1, <2>1
  <2> QED
    BY <1>1, <1>8, <2>1, <2>2
<1>9. CASE c.op = "comm_control" /\ c = comm_control(r[2], r[3])
  <2>1. r = <<40, r[2], r[3]>>
    BY <1>9 DEF comm_control
  <2>2. r[2] \in Nat /\ r[3] \in Nat
    BY <1>1, <2>1
  <2> QED
    BY <1>1, <1>9, <2>1, <2>2
<1>10. CASE c.op = "read_count" /\ c = read_count(r[3])
  <2>1. r = <<25, 1, r[3]>>
    BY <1>10 DEF read_count
  <2>2. r[3] \in Nat
    BY <1>1, <2>1
  <2> QED
    BY <1>1, <1>10, <2>1, <2>2
<1>11. CASE c.op = "read_by_status" /\ c = read_by_status(r[3])
  <2>1. r = <<25, 2, r[3]>>
    BY <1>11 DEF read_by_status
  <2>2. r[3] \in Nat
    BY <1>1, <2>1
  <2> QED
    BY <1>1, <1>11, <2>1, <2>2
<1>12. CASE c = read_all
  BY <1>1, <1>12 DEF read_all
<1>13. CASE c.op = "clear" /\ c = clear(<<r[2], r[3], r[4]>>)
  BY <1>1, <1>13 DEF clear
<1> QED
  BY <1>1, <1>3, <1>4, <1>5, <1>6, <1>7, <1>8, <1>9, <1>10, <1>11, <1>12, <1>13
     DEF MethodCall

----------------------------------------------------------------------------
(* What the dispatcher does with a request *)

Refused(nrc) == Ecu!Respond(nrc)

\* The service of each method's request.
Serve(op, req) ==
  /\ op = "change_session" => Ecu!uds_core_dsc(req[2])
  /\ op = "tester_present" => Ecu!uds_core_tester_present(TRUE, req = <<62, 128>>)
  /\ op = "unlock" => \E seed \in DrawnSeeds : Ecu!RequestSeed(req[2], seed)
  /\ op = "read" => Ecu!uds_svc_read_did(DidList(req)) /\ Len(DidList(req)) # 0
  /\ op = "write" => Ecu!uds_svc_write_did(<<req[2], req[3]>>, SubSeq(req, 4, Len(req)))
  /\ op = "ecu_reset" => Ecu!uds_svc_ecu_reset(req[2])
  /\ op = "comm_control" => Ecu!uds_svc_comm_control(req[2], req[3])
  /\ op = "read_count" => Ecu!uds_svc_read_dtc(1)
  /\ op = "read_by_status" => Ecu!uds_svc_read_dtc(2)
  /\ op = "read_all" => Ecu!uds_svc_read_dtc(10)
  /\ op = "clear" => Ecu!uds_svc_clear_dtc(SubSeq(req, 2, 4))

\* A request for a seed is odd, one with a key is even.
LEMMA LevelsOdd ==
  ASSUME NEW level \in Levels
  PROVE  level \in Nat /\ level % 2 = 1 /\ (level + 1) % 2 = 0 /\ (level + 1) - 1 = level
<1>1. level \in Nat /\ level % 2 = 1
  BY EcuAssumption DEF Ecu!ComponentsAssumption, Ecu!Sec!SecurityAssumption
<1> QED
  BY <1>1

\* A request of a method is served by its service, or is too short for it.
LEMMA DispatchCall ==
  ASSUME NEW op \in Ops, NEW req \in Seq(Nat), Shape(op, req), ecusim_dispatch(req)
  PROVE  \/ Ecu!Respond("INCORRECT_MSG_LEN_OR_FORMAT") /\ op \in {"read", "write"}
         \/ Serve(op, req)
<1>1. CASE op = "change_session"
  <2>1. PICK t \in Nat : req = <<16, t>>
    BY <1>1 DEF Shape
  <2> QED
    BY <1>1, <2>1 DEF ecusim_dispatch, TooShort, Serve
<1>2. CASE op = "tester_present"
  <2>1. req \in {<<62, 0>>, <<62, 128>>}
    BY <1>2 DEF Shape
  <2>2. /\ req[1] = 62 /\ Len(req) = 2 /\ req[2] \in {0, 128}
        /\ (req[2] % 128 = 0) = TRUE
        /\ (req[2] >= 128) = (req = <<62, 128>>)
    BY <2>1
  <2>3. ~ TooShort(req)
    BY <2>2 DEF TooShort
  <2>4. Ecu!uds_core_tester_present(req[2] % 128 = 0, req[2] >= 128)
    BY <2>2, <2>3 DEF ecusim_dispatch
  <2>5. Ecu!uds_core_tester_present(TRUE, req = <<62, 128>>)
    BY <2>2, <2>4
  <2> QED
    BY <1>2, <2>5 DEF Serve
<1>3. CASE op = "unlock"
  <2>1. PICK level \in Levels : req = <<39, level>>
    BY <1>3 DEF Shape
  <2>2. req[1] = 39 /\ req[2] = level /\ Len(req) = 2
    BY <2>1
  <2>3. ~ TooShort(req)
    BY <2>2 DEF TooShort
  <2>4. req[2] % 2 = 1 /\ ~ req[2] % 2 = 0
    BY <2>2, LevelsOdd
  <2>5. \E seed \in DrawnSeeds : Ecu!RequestSeed(req[2], seed)
    BY <2>2, <2>3, <2>4 DEF ecusim_dispatch
  <2> QED
    BY <1>3, <2>5 DEF Serve
<1>4. CASE op = "read"
  <2>1. Len(req) \in Nat /\ Len(req) >= 1 /\ req[1] = 34
    BY <1>4 DEF Shape
  <2>2. CASE TooShort(req)
    BY <1>4, <2>1, <2>2 DEF ecusim_dispatch
  <2>3. CASE ~ TooShort(req)
    <3>1. Ecu!uds_svc_read_did(DidList(req))
      BY <2>1, <2>3 DEF ecusim_dispatch
    <3>2. Len(req) >= 3
      BY <2>1, <2>3 DEF TooShort
    <3>3. Len(DidList(req)) = (Len(req) - 1) \div 2
      <4>1. (Len(req) - 1) \div 2 \in Nat
        BY <2>1, Halves
      <4> QED
        BY <4>1 DEF DidList
    <3>4. (Len(req) - 1) \div 2 # 0
      BY <2>1, <3>2
    <3> QED
      BY <1>4, <3>1, <3>3, <3>4 DEF Serve
  <2> QED
    BY <2>2, <2>3
<1>5. CASE op = "write"
  <2>1. req[1] = 46
    BY <1>5 DEF Shape
  <2>2. CASE TooShort(req)
    BY <1>5, <2>1, <2>2 DEF ecusim_dispatch
  <2>3. CASE ~ TooShort(req)
    <3>1. Ecu!uds_svc_write_did(<<req[2], req[3]>>, SubSeq(req, 4, Len(req)))
      BY <2>1, <2>3 DEF ecusim_dispatch
    <3> QED
      BY <1>5, <3>1 DEF Serve
  <2> QED
    BY <2>2, <2>3
<1>6. CASE op = "ecu_reset"
  <2>1. PICK t \in Nat : req = <<17, t>>
    BY <1>6 DEF Shape
  <2> QED
    BY <1>6, <2>1 DEF ecusim_dispatch, TooShort, Serve
<1>7. CASE op = "comm_control"
  <2>1. PICK c, m \in Nat : req = <<40, c, m>>
    BY <1>7 DEF Shape
  <2> QED
    BY <1>7, <2>1 DEF ecusim_dispatch, TooShort, Serve
<1>8. CASE op = "read_count"
  <2>1. PICK m \in Nat : req = <<25, 1, m>>
    BY <1>8 DEF Shape
  <2> QED
    BY <1>8, <2>1 DEF ecusim_dispatch, TooShort, Serve
<1>9. CASE op = "read_by_status"
  <2>1. PICK m \in Nat : req = <<25, 2, m>>
    BY <1>9 DEF Shape
  <2> QED
    BY <1>9, <2>1 DEF ecusim_dispatch, TooShort, Serve
<1>10. CASE op = "read_all"
  <2>1. req = <<25, 10>>
    BY <1>10 DEF Shape
  <2> QED
    BY <1>10, <2>1 DEF ecusim_dispatch, TooShort, Serve
<1>11. CASE op = "clear"
  <2>1. Len(req) = 4 /\ req[1] = 20
    BY <1>11 DEF Shape
  <2> QED
    BY <1>11, <2>1 DEF ecusim_dispatch, TooShort, Serve
<1> QED
  BY <1>1, <1>2, <1>3, <1>4, <1>5, <1>6, <1>7, <1>8, <1>9, <1>10, <1>11 DEF Ops

\* A key is served by sendKey.
LEMMA DispatchKey ==
  ASSUME NEW level \in Levels, NEW key \in Seeds, ecusim_dispatch(<<39, level + 1, key>>)
  PROVE  Ecu!SendKey(level + 1, key, TRUE)
<1>1. level \in Nat /\ (level + 1) % 2 = 0
  BY LevelsOdd
<1> DEFINE req == <<39, level + 1, key>>
<1>2. /\ req[1] = 39 /\ req[2] = level + 1 /\ req[3] = key /\ Len(req) = 3
      /\ (Len(req) = 3) = TRUE
  BY <1>1
<1>3. (level + 1) % 2 # 1
  BY <1>1
<1> HIDE DEF req
<1>4. ~ TooShort(req)
  BY <1>2 DEF TooShort
<1>5. Ecu!SendKey(req[2], req[3], Len(req) = 3)
  BY <1>1, <1>2, <1>3, <1>4 DEF ecusim_dispatch, req
<1> QED
  BY <1>2, <1>5

----------------------------------------------------------------------------
(* Every request of the tester is one that EcuServer knows *)

\* A request on its way: the first one of a call, or a key.
WellFormed(req) ==
  \/ \E op \in Ops : req \in Seq(Nat) /\ Shape(op, req)
  \/ \E level \in Levels, key \in Seeds : req = <<39, level + 1, key>>

\* A refusal with one of these codes is among the answers of EcuServer.
LEMMA RefusalKnown ==
  /\ Ecu!Respond("INCORRECT_MSG_LEN_OR_FORMAT") => Ecu!Malformed
  /\ Ecu!Respond("REQUEST_OUT_OF_RANGE") => Ecu!DataService
  /\ Ecu!Respond("SUB_FUNCTION_NOT_SUPPORTED") => Ecu!SessionService
  /\ Ecu!Respond(Ecu!Positive) => Ecu!DataService
<1>1. Ecu!Respond("INCORRECT_MSG_LEN_OR_FORMAT") => Ecu!Malformed
  BY DEF Ecu!Malformed
<1>2. Ecu!Respond("REQUEST_OUT_OF_RANGE") => Ecu!DataService
  <2> SUFFICES ASSUME Ecu!Respond("REQUEST_OUT_OF_RANGE") PROVE Ecu!DataService
    OBVIOUS
  <2>1. Ecu!uds_svc_comm_control(3, 0)
    BY DEF Ecu!uds_svc_comm_control
  <2>2. 3 \in 3 .. 4 /\ 0 \in 0 .. 1
    OBVIOUS
  <2> QED
    BY <2>1, <2>2 DEF Ecu!DataService
<1>3. Ecu!Respond("SUB_FUNCTION_NOT_SUPPORTED") => Ecu!SessionService
  <2> SUFFICES ASSUME Ecu!Respond("SUB_FUNCTION_NOT_SUPPORTED") PROVE Ecu!SessionService
    OBVIOUS
  <2>1. Ecu!uds_core_dsc(0)
    BY DEF Ecu!uds_core_dsc, Ecu!SessionTypes, Ecu!DEFAULT, Ecu!PROGRAMMING, Ecu!EXTENDED,
           Ecu!SAFETY
  <2>2. 0 \in 0 .. 4
    OBVIOUS
  <2> QED
    BY <2>1, <2>2 DEF Ecu!SessionService
<1>4. Ecu!Respond(Ecu!Positive) => Ecu!DataService
  <2> SUFFICES ASSUME Ecu!Respond(Ecu!Positive) PROVE Ecu!DataService
    OBVIOUS
  <2>1. Ecu!uds_svc_comm_control(3, 1)
    BY DEF Ecu!uds_svc_comm_control
  <2>2. 3 \in 3 .. 4 /\ 1 \in 0 .. 1
    OBVIOUS
  <2> QED
    BY <2>1, <2>2 DEF Ecu!DataService
<1> QED
  BY <1>1, <1>2, <1>3, <1>4

\* A session change of any type is one of EcuServer's or refused.
LEMMA SessionKnown ==
  ASSUME NEW t \in Nat
  PROVE  /\ Ecu!uds_core_dsc(t) => Ecu!SessionService
         /\ Ecu!uds_svc_ecu_reset(t) => Ecu!SessionService
<1>1. Ecu!uds_core_dsc(t) => Ecu!SessionService
  <2>1. CASE t \in 0 .. 4
    BY <2>1 DEF Ecu!SessionService
  <2>2. CASE t \notin 0 .. 4
    BY <2>2, RefusalKnown
       DEF Ecu!uds_core_dsc, Ecu!SessionTypes, Ecu!DEFAULT, Ecu!PROGRAMMING, Ecu!EXTENDED,
           Ecu!SAFETY
  <2> QED
    BY <2>1, <2>2
<1>2. Ecu!uds_svc_ecu_reset(t) => Ecu!SessionService
  <2>1. CASE t \in 0 .. 3
    BY <2>1 DEF Ecu!SessionService
  <2>2. CASE t \notin 0 .. 3
    BY <2>2, RefusalKnown DEF Ecu!uds_svc_ecu_reset
  <2> QED
    BY <2>1, <2>2
<1> QED
  BY <1>1, <1>2

\* So is a write of an admissible value ...
LEMMA WriteKnown ==
  ASSUME NEW d, NEW value, d \in Dids /\ Len(value) = DidTable[d].data_len => value \in DidValues,
         Ecu!uds_svc_write_did(d, value)
  PROVE  Ecu!Malformed \/ Ecu!DataService
<1>1. CASE d \notin Dids
  BY <1>1, RefusalKnown DEF Ecu!uds_svc_write_did
<1>2. CASE d \in Dids /\ Len(value) = DidTable[d].data_len
  BY <1>2 DEF Ecu!DataService
<1>3. CASE d \in Dids /\ Len(value) # DidTable[d].data_len
  <2>1. CASE ~ Ecu!MayWrite(d)
    <3>1. DidDefaults[d] \in DidValues
      BY <1>3, EcuAssumption DEF Ecu!ServerAssumption
    <3>2. Ecu!uds_svc_write_did(d, DidDefaults[d])
      BY <1>3, <2>1 DEF Ecu!uds_svc_write_did
    <3> QED
      BY <1>3, <3>1, <3>2 DEF Ecu!DataService
  <2>2. CASE Ecu!MayWrite(d)
    BY <1>3, <2>2, RefusalKnown DEF Ecu!uds_svc_write_did
  <2> QED
    BY <2>1, <2>2
<1> QED
  BY <1>1, <1>2, <1>3

\* ... and clearing a group: only its first byte counts.
LEMMA ClearKnown ==
  ASSUME NEW group, Ecu!uds_svc_clear_dtc(group)
  PROVE  Ecu!DataService
<1> DEFINE cleared == {i \in DOMAIN DtcCodes : group = Ecu!AllDtcs \/ DtcCodes[i][1] = group[1]}
<1>1. CASE group = Ecu!AllDtcs
  BY <1>1 DEF Ecu!DataService
<1>2. CASE group # Ecu!AllDtcs /\ cleared = {}
  BY <1>2, RefusalKnown DEF Ecu!uds_svc_clear_dtc
<1>3. CASE group # Ecu!AllDtcs /\ cleared # {}
  <2>1. PICK k \in DOMAIN DtcCodes : DtcCodes[k][1] = group[1]
    BY <1>3
  <2> DEFINE code == DtcCodes[k]
  <2>2. code # Ecu!AllDtcs
    BY CallsAssumption
  <2>3. code[1] = group[1]
    BY <2>1
  <2>4. \E i \in DOMAIN DtcCodes : code = DtcCodes[i]
    OBVIOUS
  <2> HIDE DEF code
  <2>5. {i \in DOMAIN DtcCodes : code = Ecu!AllDtcs \/ DtcCodes[i][1] = code[1]} = cleared
    BY <1>3, <2>2, <2>3
  <2>6. Ecu!uds_svc_clear_dtc(code)
    BY <1>3, <2>2, <2>5 DEF Ecu!uds_svc_clear_dtc
  <2> QED
    BY <2>4, <2>6 DEF Ecu!DataService
<1> QED
  BY <1>1, <1>2, <1>3

\* What the dispatcher does with a request of the tester is a step of EcuServer.
LEMMA DispatchKnown ==
  ASSUME NEW req, WellFormed(req), ecusim_dispatch(req)
  PROVE  Ecu!ecusim_dispatch
<1>1. CASE \E op \in Ops : req \in Seq(Nat) /\ Shape(op, req)
  <2>1. PICK op \in Ops : req \in Seq(Nat) /\ Shape(op, req)
    BY <1>1
  <2>2. CASE Ecu!Respond("INCORRECT_MSG_LEN_OR_FORMAT")
    BY <2>2, RefusalKnown DEF Ecu!ecusim_dispatch
  <2>3. CASE Serve(op, req)
    <3>1. CASE op = "change_session"
      <4>1. PICK t \in Nat : req = <<16, t>>
        BY <2>1, <3>1 DEF Shape
      <4>2. Ecu!uds_core_dsc(t)
        BY <2>3, <3>1, <4>1 DEF Serve
      <4> QED
        BY <4>2, SessionKnown DEF Ecu!ecusim_dispatch
    <3>2. CASE op = "tester_present"
      <4>1. Ecu!uds_core_tester_present(TRUE, req = <<62, 128>>)
        BY <2>3, <3>2 DEF Serve
      <4>2. TRUE \in BOOLEAN /\ (req = <<62, 128>>) \in BOOLEAN
        OBVIOUS
      <4> QED
        BY <4>1, <4>2 DEF Ecu!SessionService, Ecu!ecusim_dispatch
    <3>3. CASE op = "unlock"
      <4>1. PICK level \in Levels : req = <<39, level>>
        BY <2>1, <3>3 DEF Shape
      <4>2. \E seed \in DrawnSeeds : Ecu!RequestSeed(level, seed)
        BY <2>3, <3>3, <4>1 DEF Serve
      <4>3. DrawnSeeds \subseteq Seeds
        BY ServicesAssumption
      <4> QED
        BY <4>2, <4>3 DEF Ecu!SecurityService, Ecu!ecusim_dispatch
    <3>4. CASE op = "read"
      <4>1. Ecu!uds_svc_read_did(DidList(req))
        BY <2>3, <3>4 DEF Serve
      <4> QED
        BY <4>1, RefusalKnown DEF Ecu!uds_svc_read_did, Ecu!ecusim_dispatch
    <3>5. CASE op = "write"
      <4>1. Writable(req)
        BY <2>1, <3>5 DEF Shape
      <4>2. Ecu!uds_svc_write_did(<<req[2], req[3]>>, SubSeq(req, 4, Len(req)))
        BY <2>3, <3>5 DEF Serve
      <4> QED
        BY <4>1, <4>2, WriteKnown DEF Writable, Ecu!ecusim_dispatch
    <3>6. CASE op = "ecu_reset"
      <4>1. PICK t \in Nat : req = <<17, t>>
        BY <2>1, <3>6 DEF Shape
      <4>2. Ecu!uds_svc_ecu_reset(t)
        BY <2>3, <3>6, <4>1 DEF Serve
      <4> QED
        BY <4>2, SessionKnown DEF Ecu!ecusim_dispatch
    <3>7. CASE op = "comm_control"
      BY <2>3, <3>7, RefusalKnown
         DEF Serve, Ecu!uds_svc_comm_control, Ecu!ecusim_dispatch
    <3>8. CASE op \in {"read_count", "read_by_status", "read_all"}
      BY <2>3, <3>8, RefusalKnown
         DEF Serve, Ecu!uds_svc_read_dtc, Ecu!ecusim_dispatch
    <3>9. CASE op = "clear"
      BY <2>3, <3>9, ClearKnown DEF Serve, Ecu!ecusim_dispatch
    <3> QED
      BY <3>1, <3>2, <3>3, <3>4, <3>5, <3>6, <3>7, <3>8, <3>9 DEF Ops
  <2> QED
    BY <2>1, <2>2, <2>3, DispatchCall
<1>2. CASE \E level \in Levels, key \in Seeds : req = <<39, level + 1, key>>
  <2>1. PICK level \in Levels, key \in Seeds : req = <<39, level + 1, key>>
    BY <1>2
  <2>2. Ecu!SendKey(level + 1, key, TRUE)
    BY <2>1, DispatchKey
  <2>3. level + 1 \in {0} \cup {l + 1 : l \in Levels} /\ TRUE \in BOOLEAN
    OBVIOUS
  <2> QED
    BY <2>2, <2>3 DEF Ecu!SecurityService, Ecu!ecusim_dispatch
<1> QED
  BY <1>1, <1>2 DEF WellFormed

----------------------------------------------------------------------------
(* What the security service does for the tester *)

\* The types of the ECU, from its invariant.
LEMMA EcuTyped ==
  ASSUME EcuTh!FullInv
  PROVE  /\ sec \in EcuTh!Sec!Security
         /\ EcuTh!Sec!TypeOK
         /\ did \in [Dids -> DidValues]
         /\ \A d \in Dids : Len(did[d]) = DidTable[d].data_len
         /\ dtc \in [DOMAIN DtcCodes -> Nat]
         /\ session.type \in Nat
<1>1. EcuTh!Sec!TypeOK
  BY EcuTh!SecTypesSame, EcuConstants DEF EcuTh!FullInv, EcuTh!SecTh!IInv
<1>2. EcuTh!TypeOK
  BY DEF EcuTh!FullInv, EcuTh!IInv
<1> QED
  BY <1>1, <1>2
     DEF EcuTh!Sec!TypeOK, EcuTh!TypeOK, EcuTh!UdsCoreSession, EcuTh!SessionTypes,
         EcuTh!DEFAULT, EcuTh!PROGRAMMING, EcuTh!EXTENDED, EcuTh!SAFETY

\* The services of the theorem module's copy are those of the ECU.
LEMMA SecurityActionsSame ==
  ASSUME NEW sub_fn, NEW seed, NEW len_ok
  PROVE  /\ Ecu!Sec!uds_core_sec_request_seed(sub_fn, seed)
              <=> EcuTh!Sec!uds_core_sec_request_seed(sub_fn, seed)
         /\ Ecu!Sec!uds_core_sec_send_key(sub_fn, seed, len_ok)
              <=> EcuTh!Sec!uds_core_sec_send_key(sub_fn, seed, len_ok)
  BY DEF Ecu!Sec!uds_core_sec_request_seed, EcuTh!Sec!uds_core_sec_request_seed,
         Ecu!Sec!uds_core_sec_send_key, EcuTh!Sec!uds_core_sec_send_key,
         Ecu!Sec!Answer, EcuTh!Sec!Answer, Ecu!Sec!check_locked, EcuTh!Sec!check_locked,
         Ecu!Sec!LockChecked, EcuTh!Sec!LockChecked, Ecu!Sec!history, EcuTh!Sec!history,
         Ecu!Sec!seed_expired, EcuTh!Sec!seed_expired, Ecu!Sec!WrongKey, EcuTh!Sec!WrongKey,
         Ecu!Sec!RightKey, EcuTh!Sec!RightKey,
         Ecu!Sec!uds_core_sec_compute_key, EcuTh!Sec!uds_core_sec_compute_key,
         Ecu!Sec!Positive, EcuTh!Sec!Positive

\* A seed that is granted is the one the ECU keeps, unless the level is unlocked.
LEMMA SeedAnswer ==
  ASSUME EcuTh!FullInv, NEW level \in Levels, NEW seed \in Seeds, Ecu!RequestSeed(level, seed)
  PROVE  /\ secReply' \in {Ecu!Positive} \cup DOMAIN NrcByte
         /\ secReply' # Ecu!NoReply
         /\ secReply' = Ecu!Positive =>
              IF sec.unlocked_level = level
              THEN sec'.unlocked_level = level
              ELSE sec'.seed_valid = TRUE /\ sec'.seed = seed
<1>1. Ecu!Sec!uds_core_sec_request_seed(level, seed)
  BY DEF Ecu!RequestSeed
<1>2. sec'.unlocked_level = sec.unlocked_level
  <2>1. EcuTh!Sec!uds_core_sec_request_seed(level, seed)
    BY <1>1, SecurityActionsSame
  <2> QED
    BY <2>1, EcuTyped, EcuConstants, EcuTh!RequestSeedOutcome
<1> DEFINE L == Ecu!Sec!LockChecked
<1>3. L \in EcuTh!Sec!Security
  <2>1. 0 \in 0 .. MaxAttempts
    BY EcuAssumption DEF Ecu!ComponentsAssumption, Ecu!Sec!SecurityAssumption
  <2>2. sec \in EcuTh!Sec!Security
    BY EcuTyped
  <2> QED
    BY <2>1, <2>2 DEF Ecu!Sec!LockChecked, EcuTh!Sec!Security
<1>4. /\ secReply' \in {Ecu!Positive, "EXCEEDED_NUMBER_OF_ATTEMPTS"}
      /\ secReply' = Ecu!Positive /\ sec.unlocked_level # level =>
           sec' = [L EXCEPT !.seed = seed, !.seed_valid = TRUE, !.pending_level = level,
                            !.seed_ts = now]
  BY <1>1 DEF Ecu!Sec!uds_core_sec_request_seed, Ecu!Sec!Answer, Ecu!Sec!Positive,
              Ecu!Positive
<1> HIDE DEF L
<1>5. /\ [L EXCEPT !.seed = seed, !.seed_valid = TRUE, !.pending_level = level,
                   !.seed_ts = now].seed = seed
      /\ [L EXCEPT !.seed = seed, !.seed_valid = TRUE, !.pending_level = level,
                   !.seed_ts = now].seed_valid = TRUE
  BY <1>3 DEF EcuTh!Sec!Security
<1>6. "EXCEEDED_NUMBER_OF_ATTEMPTS" \in DOMAIN NrcByte
  BY DEF NrcByte
<1>7. Ecu!NoReply = "none" /\ Ecu!Positive = "positive"
  BY DEF Ecu!NoReply, Ecu!Positive
<1> QED
  BY <1>2, <1>4, <1>5, <1>6, <1>7

\* A key that is accepted unlocks its level.
LEMMA KeyAnswer ==
  ASSUME EcuTh!FullInv, NEW level \in Levels, NEW key, Ecu!SendKey(level + 1, key, TRUE)
  PROVE  /\ secReply' \in {Ecu!Positive} \cup DOMAIN NrcByte
         /\ secReply' # Ecu!NoReply
         /\ secReply' = Ecu!Positive => sec'.unlocked_level = level
<1>1. Ecu!Sec!uds_core_sec_send_key(level + 1, key, TRUE)
  BY DEF Ecu!SendKey
<1>2. secReply' = Ecu!Positive => sec'.unlocked_level = level
  <2>1. EcuTh!Sec!uds_core_sec_send_key(level + 1, key, TRUE)
    BY <1>1, SecurityActionsSame
  <2>2. level + 1 \in {0} \cup {l + 1 : l \in Levels}
    OBVIOUS
  <2>3. secReply' = EcuTh!Positive => sec'.unlocked_level = (level + 1) - 1
    BY <2>1, <2>2, EcuTyped, EcuConstants, EcuTh!SendKeyOutcome
  <2> QED
    BY <2>3, LevelsOdd DEF EcuTh!Positive, Ecu!Positive
<1>3. secReply' \in {"positive", "SUB_FUNCTION_NOT_SUPPORTED", "EXCEEDED_NUMBER_OF_ATTEMPTS",
                     "REQUEST_SEQUENCE_ERROR", "INCORRECT_MSG_LEN_OR_FORMAT", "INVALID_KEY"}
  BY <1>1 DEF Ecu!Sec!uds_core_sec_send_key, Ecu!Sec!Answer, Ecu!Sec!WrongKey,
              Ecu!Sec!RightKey, Ecu!Sec!Positive
<1>4. {"SUB_FUNCTION_NOT_SUPPORTED", "EXCEEDED_NUMBER_OF_ATTEMPTS", "REQUEST_SEQUENCE_ERROR",
       "INCORRECT_MSG_LEN_OR_FORMAT", "INVALID_KEY"} \subseteq DOMAIN NrcByte
  BY DEF NrcByte
<1>5. Ecu!NoReply = "none" /\ Ecu!Positive = "positive"
  BY DEF Ecu!NoReply, Ecu!Positive
<1> QED
  BY <1>2, <1>3, <1>4, <1>5

----------------------------------------------------------------------------
(* What a positive response says of the ECU *)

\* The contents of the registry for a list of identifiers.
DidRecords(list) == [i \in DOMAIN list |-> list[i] \o did[list[i]]]

\* The positive response to the first request of a call.
RightAnswer(op, req, resp) ==
  /\ op = "change_session" =>
       resp = <<80, session.type>> \o TwoBytes(P2) \o TwoBytes(P2Star \div 10)
  /\ op = "tester_present" => resp = <<126, 0>>
  /\ op = "unlock" =>
       \E seed \in Seeds :
         /\ resp = <<103, req[2], seed>>
         /\ \/ sec.unlocked_level = req[2] /\ seed = 0
            \/ sec.seed_valid /\ sec.seed = seed
  /\ op = "read" =>
       /\ \A i \in DOMAIN DidList(req) : DidList(req)[i] \in Dids
       /\ Len(DidList(req)) # 0
       /\ resp = <<98>> \o FlattenSeq(DidRecords(DidList(req)))
  /\ op = "write" =>
       /\ resp = <<110, req[2], req[3]>>
       /\ did[<<req[2], req[3]>>] = SubSeq(req, 4, Len(req))
  /\ op = "ecu_reset" =>
       resp = <<81, req[2]>> /\ session.type = Ecu!DEFAULT /\ sec.unlocked_level = 0
  /\ op = "comm_control" => resp = <<104, req[2]>>
  /\ op = "read_count" =>
       resp = <<89, 1, 255, 1>> \o TwoBytes(Cardinality(Matching(req[3])))
  /\ op = "read_by_status" => resp = <<89, 2, req[3]>> \o DtcRecords(Matching(req[3]))
  /\ op = "read_all" => resp = <<89, 10, 255>> \o DtcRecords(DOMAIN DtcCodes)
  /\ op = "clear" =>
       /\ resp = <<84>>
       /\ \A i \in DOMAIN DtcCodes :
            SubSeq(req, 2, 4) = Ecu!AllDtcs \/ req[2] = DtcCodes[i][1] => dtc[i] = 0

\* An answer the ECU can give to a request: a response, a refusal, or none.
AnswerKnown(answer, req) ==
  /\ answer \in {Ecu!NoReply, Ecu!Positive} \cup DOMAIN NrcByte
  /\ answer = Ecu!NoReply => req = <<62, 128>>

\* The replies are different strings.
LEMMA Replies ==
  /\ Ecu!NoReply = "none" /\ Ecu!Positive = "positive"
  /\ {"SERVICE_NOT_SUPPORTED", "SUB_FUNCTION_NOT_SUPPORTED", "INCORRECT_MSG_LEN_OR_FORMAT",
      "REQUEST_SEQUENCE_ERROR", "REQUEST_OUT_OF_RANGE", "SECURITY_ACCESS_DENIED",
      "INVALID_KEY", "EXCEEDED_NUMBER_OF_ATTEMPTS"} = DOMAIN NrcByte
BY DEF Ecu!NoReply, Ecu!Positive, NrcByte

\* A new session is the one asked for.
LEMMA SessionServed ==
  ASSUME NEW t \in Nat, NEW req, req = <<16, t>>, Ecu!uds_core_dsc(t), NEW resp,
         resp = PositiveResponse(req)
  PROVE  /\ AnswerKnown(ecuReply', req)
         /\ ecuReply' = Ecu!Positive => RightAnswer("change_session", req, resp)'
<1>1. resp = <<80, t>> \o TwoBytes(P2) \o TwoBytes(P2Star \div 10)
  BY DEF PositiveResponse
<1>2. /\ ecuReply' \in {"SUB_FUNCTION_NOT_SUPPORTED", "positive"}
      /\ ecuReply' = "positive" => session' = Ecu!NewSession(t)
  BY DEF Ecu!uds_core_dsc, Ecu!Respond, Ecu!Positive
<1>3. Ecu!NewSession(t).type = t
  BY DEF Ecu!NewSession
<1> QED
  BY <1>1, <1>2, <1>3, Replies DEF AnswerKnown, RightAnswer

\* A seed is issued, or the level is unlocked already.
LEMMA UnlockServed ==
  ASSUME EcuTh!FullInv, EcuTh!FullInv', NEW level \in Levels, NEW req, req = <<39, level>>,
         NEW seed \in DrawnSeeds, Ecu!RequestSeed(level, seed),
         NEW resp, resp = PositiveResponse(req)
  PROVE  /\ AnswerKnown(secReply', req)
         /\ secReply' = Ecu!Positive => RightAnswer("unlock", req, resp)'
<1>1. seed \in Seeds /\ 0 \in Seeds
  BY ServicesAssumption, EcuAssumption
     DEF Ecu!ComponentsAssumption, Ecu!Sec!SecurityAssumption
<1>2. resp = <<103, level, IF sec.unlocked_level = level THEN 0 ELSE sec'.seed>>
  <2>1. req[1] = 39 /\ req[2] = level /\ level % 2 = 1
    BY LevelsOdd
  <2> QED
    BY <2>1 DEF PositiveResponse
<1>3. /\ secReply' \in {Ecu!Positive} \cup DOMAIN NrcByte
      /\ secReply' # Ecu!NoReply
      /\ secReply' = Ecu!Positive =>
           IF sec.unlocked_level = level
           THEN sec'.unlocked_level = level
           ELSE sec'.seed_valid = TRUE /\ sec'.seed = seed
  BY <1>1, SeedAnswer
<1>4. ASSUME secReply' = Ecu!Positive PROVE RightAnswer("unlock", req, resp)'
  <2>1. req[2] = level
    OBVIOUS
  <2>2. CASE sec.unlocked_level = level
    BY <1>1, <1>2, <1>3, <1>4, <2>1, <2>2 DEF RightAnswer
  <2>3. CASE sec.unlocked_level # level
    BY <1>1, <1>2, <1>3, <1>4, <2>1, <2>3 DEF RightAnswer
  <2> QED
    BY <2>2, <2>3
<1> QED
  BY <1>3, <1>4 DEF AnswerKnown

\* The contents of identifiers are the registry's.
LEMMA ReadServed ==
  ASSUME NEW req \in Seq(Nat), req[1] = 34, Ecu!uds_svc_read_did(DidList(req)),
         Len(DidList(req)) # 0,
         NEW resp, resp = PositiveResponse(req)
  PROVE  /\ AnswerKnown(ecuReply', req)
         /\ ecuReply' = Ecu!Positive => RightAnswer("read", req, resp)'
<1> DEFINE list == DidList(req)
<1>1. resp = <<98>> \o FlattenSeq(DidRecords(list))
  BY DEF PositiveResponse, DidRecords
<1>2. /\ ecuReply' \in {"REQUEST_OUT_OF_RANGE", "positive"}
      /\ ecuReply' = "positive" => \A i \in DOMAIN list : list[i] \in Dids
      /\ did' = did
  BY DEF Ecu!uds_svc_read_did, Ecu!Respond, Ecu!Positive
<1>3. resp = <<98>> \o FlattenSeq(DidRecords(list)')
  BY <1>1, <1>2 DEF DidRecords
<1>4. DidRecords(list)' = DidRecords(list)
  BY <1>2 DEF DidRecords
<1> QED
  BY <1>2, <1>3, <1>4, Replies DEF AnswerKnown, RightAnswer

\* A value written is in the registry.
LEMMA WriteServed ==
  ASSUME EcuTh!FullInv, NEW req \in Seq(Nat), req[1] = 46,
         Ecu!uds_svc_write_did(<<req[2], req[3]>>, SubSeq(req, 4, Len(req))),
         NEW resp, resp = PositiveResponse(req)
  PROVE  /\ AnswerKnown(ecuReply', req)
         /\ ecuReply' = Ecu!Positive => RightAnswer("write", req, resp)'
<1>1. resp = <<110, req[2], req[3]>>
  BY DEF PositiveResponse
<1>2. did \in [Dids -> DidValues]
  BY EcuTyped
<1>3. ASSUME NEW d, NEW value, Ecu!uds_svc_write_did(d, value)
      PROVE  /\ ecuReply' \in {"REQUEST_OUT_OF_RANGE", "SECURITY_ACCESS_DENIED",
                               "INCORRECT_MSG_LEN_OR_FORMAT", "positive"}
             /\ ecuReply' = "positive" => did'[d] = value
  BY <1>2, <1>3 DEF Ecu!uds_svc_write_did, Ecu!Respond, Ecu!Positive, Ecu!WriteRefusal
<1>4. /\ ecuReply' \in {"REQUEST_OUT_OF_RANGE", "SECURITY_ACCESS_DENIED",
                        "INCORRECT_MSG_LEN_OR_FORMAT", "positive"}
      /\ ecuReply' = "positive" => did'[<<req[2], req[3]>>] = SubSeq(req, 4, Len(req))
  BY <1>3, ZenonT(60)
<1> QED
  BY <1>1, <1>4, Replies DEF AnswerKnown, RightAnswer

\* A reset starts a default session with every level locked.
LEMMA ResetServed ==
  ASSUME NEW t \in Nat, NEW req, req = <<17, t>>, Ecu!uds_svc_ecu_reset(t), NEW resp,
         resp = PositiveResponse(req)
  PROVE  /\ AnswerKnown(ecuReply', req)
         /\ ecuReply' = Ecu!Positive => RightAnswer("ecu_reset", req, resp)'
<1>1. resp = <<81, t>>
  BY DEF PositiveResponse
<1>2. /\ ecuReply' \in {"SUB_FUNCTION_NOT_SUPPORTED", "positive"}
      /\ ecuReply' = "positive" => /\ session' = Ecu!uds_core_session_init
                                   /\ sec' = Ecu!Sec!uds_core_security_init
  BY DEF Ecu!uds_svc_ecu_reset, Ecu!Respond, Ecu!Positive, Ecu!Sec!SecurityReset,
         Ecu!Sec!Answer
<1>3. /\ Ecu!uds_core_session_init.type = Ecu!DEFAULT
      /\ Ecu!Sec!uds_core_security_init.unlocked_level = 0
  BY DEF Ecu!uds_core_session_init, Ecu!Sec!uds_core_security_init
<1> QED
  BY <1>1, <1>2, <1>3, Replies DEF AnswerKnown, RightAnswer

\* Trouble codes are reported as they are.
LEMMA DtcServed ==
  ASSUME NEW req \in Seq(Nat), NEW op,
         \/ op = "read_count" /\ \E m \in Nat : req = <<25, 1, m>>
         \/ op = "read_by_status" /\ \E m \in Nat : req = <<25, 2, m>>
         \/ op = "read_all" /\ req = <<25, 10>>,
         Ecu!uds_svc_read_dtc(req[2]), NEW resp, resp = PositiveResponse(req)
  PROVE  /\ AnswerKnown(ecuReply', req)
         /\ ecuReply' = Ecu!Positive => RightAnswer(op, req, resp)'
<1>1. ecuReply' \in {"positive", "SUB_FUNCTION_NOT_SUPPORTED"} /\ dtc' = dtc
  BY DEF Ecu!uds_svc_read_dtc, Ecu!Respond, Ecu!Positive
<1>2. ASSUME NEW m PROVE Matching(m)' = Matching(m)
  BY <1>1 DEF Matching
<1>3. ASSUME NEW s PROVE DtcRecords(s)' = DtcRecords(s)
  BY <1>1 DEF DtcRecords
<1>4. CASE op = "read_count"
  <2>1. PICK m \in Nat : req = <<25, 1, m>>
    BY <1>4
  <2>2. resp = <<89, 1, 255, 1>> \o TwoBytes(Cardinality(Matching(m)))
    BY <2>1 DEF PositiveResponse, ReportDtcs
  <2>3. req[3] = m
    BY <2>1
  <2>4. Matching(m)' = Matching(m)
    BY <1>2
  <2>5. resp = <<89, 1, 255, 1>> \o TwoBytes(Cardinality(Matching(req[3])'))
    BY <2>2, <2>3, <2>4
  <2> QED
    BY <1>1, <1>4, <2>5, Replies DEF AnswerKnown, RightAnswer
<1>5. CASE op = "read_by_status"
  <2>1. PICK m \in Nat : req = <<25, 2, m>>
    BY <1>5
  <2>2. resp = <<89, 2, m>> \o DtcRecords(Matching(m))
    BY <2>1 DEF PositiveResponse, ReportDtcs
  <2>3. req[3] = m
    BY <2>1
  <2>4. DtcRecords(Matching(m))' = DtcRecords(Matching(m))
    BY <1>1, <1>2 DEF DtcRecords
  <2>5. resp = <<89, 2, req[3]>> \o DtcRecords(Matching(req[3]))'
    BY <2>2, <2>3, <2>4
  <2> QED
    BY <1>1, <1>5, <2>5, Replies DEF AnswerKnown, RightAnswer
<1>6. CASE op = "read_all"
  <2>1. resp = <<89, 10, 255>> \o DtcRecords(DOMAIN DtcCodes)
    BY <1>6 DEF PositiveResponse, ReportDtcs
  <2>2. DtcRecords(DOMAIN DtcCodes)' = DtcRecords(DOMAIN DtcCodes)
    BY <1>1 DEF DtcRecords
  <2> QED
    BY <1>1, <1>6, <2>1, <2>2, Replies DEF AnswerKnown, RightAnswer
<1> QED
  BY <1>4, <1>5, <1>6

\* Clearing leaves no status in the group.
LEMMA ClearServed ==
  ASSUME EcuTh!FullInv, NEW req \in Seq(Nat), Len(req) = 4, req[1] = 20,
         Ecu!uds_svc_clear_dtc(SubSeq(req, 2, 4)), NEW resp, resp = PositiveResponse(req)
  PROVE  /\ AnswerKnown(ecuReply', req)
         /\ ecuReply' = Ecu!Positive => RightAnswer("clear", req, resp)'
<1> DEFINE group == SubSeq(req, 2, 4)
           cleared == {i \in DOMAIN DtcCodes :
                         group = Ecu!AllDtcs \/ DtcCodes[i][1] = group[1]}
<1>1. resp = <<84>>
  BY DEF PositiveResponse
<1>2. group[1] = req[2]
  OBVIOUS
<1>3. DOMAIN dtc = DOMAIN DtcCodes
  BY EcuTyped
<1>4. /\ ecuReply' \in {"REQUEST_OUT_OF_RANGE", "positive"}
      /\ ecuReply' = "positive" =>
           dtc' = [i \in DOMAIN dtc |-> IF i \in cleared THEN 0 ELSE dtc[i]]
  BY DEF Ecu!uds_svc_clear_dtc, Ecu!Respond, Ecu!Positive
<1> HIDE DEF group
<1>5. ASSUME ecuReply' = "positive", NEW i \in DOMAIN DtcCodes,
             group = Ecu!AllDtcs \/ req[2] = DtcCodes[i][1]
      PROVE  dtc'[i] = 0
  <2>1. i \in cleared
    BY <1>2, <1>5
  <2> QED
    BY <1>3, <1>4, <1>5, <2>1
<1> QED
  BY <1>1, <1>4, <1>5, Replies DEF AnswerKnown, RightAnswer, group

----------------------------------------------------------------------------
(* Every request is answered, and every answer is one of these *)

\* A response on its way; of a seed or a key the tester depends on its form.
IsResponse(resp) ==
  /\ resp \in Seq(Nat)
  /\ Len(resp) >= 1
  /\ resp[1] = 103 => Len(resp) = 2 \/ (Len(resp) = 3 /\ resp[3] \in Seeds)

\* The first request of a call is answered, and rightly.
LEMMA CallServed ==
  ASSUME EcuTh!FullInv, EcuTh!FullInv', NEW op \in Ops, NEW req \in Seq(Nat), Shape(op, req),
         ecusim_dispatch(req), NEW answer, answer = IF req[1] = 39 THEN secReply' ELSE ecuReply',
         NEW resp, resp = PositiveResponse(req)
  PROVE  /\ AnswerKnown(answer, req)
         /\ answer = Ecu!Positive => RightAnswer(op, req, resp)'
<1>1. CASE Ecu!Respond("INCORRECT_MSG_LEN_OR_FORMAT") /\ op \in {"read", "write"}
  <2>1. req[1] \in {34, 46}
    BY <1>1 DEF Shape
  <2>2. answer = "INCORRECT_MSG_LEN_OR_FORMAT"
    BY <1>1, <2>1 DEF Ecu!Respond
  <2> QED
    BY <2>2, Replies DEF AnswerKnown
<1>2. CASE Serve(op, req)
  <2>1. CASE op = "change_session"
    <3>1. PICK t \in Nat : req = <<16, t>>
      BY <2>1 DEF Shape
    <3>2. Ecu!uds_core_dsc(t) /\ answer = ecuReply'
      BY <1>2, <2>1, <3>1 DEF Serve
    <3> QED
      BY <2>1, <3>1, <3>2, SessionServed
  <2>2. CASE op = "tester_present"
    <3>1. req[1] = 62
      BY <2>2 DEF Shape
    <3>2. Ecu!uds_core_tester_present(TRUE, req = <<62, 128>>)
      BY <1>2, <2>2 DEF Serve
    <3>3. /\ answer \in {Ecu!NoReply, Ecu!Positive}
          /\ answer = Ecu!NoReply => req = <<62, 128>>
      BY <3>1, <3>2, Replies DEF Ecu!uds_core_tester_present
    <3>4. resp = <<126, 0>>
      BY <3>1 DEF PositiveResponse
    <3> QED
      BY <2>2, <3>3, <3>4 DEF AnswerKnown, RightAnswer
  <2>3. CASE op = "unlock"
    <3>1. PICK level \in Levels : req = <<39, level>>
      BY <2>3 DEF Shape
    <3>2. PICK seed \in DrawnSeeds : Ecu!RequestSeed(level, seed)
      BY <1>2, <2>3, <3>1 DEF Serve
    <3>3. answer = secReply'
      BY <3>1
    <3> QED
      BY <2>3, <3>1, <3>2, <3>3, UnlockServed
  <2>4. CASE op = "read"
    <3>1. req[1] = 34
      BY <2>4 DEF Shape
    <3>2. Ecu!uds_svc_read_did(DidList(req)) /\ Len(DidList(req)) # 0 /\ answer = ecuReply'
      BY <1>2, <2>4, <3>1 DEF Serve
    <3> QED
      BY <2>4, <3>1, <3>2, ReadServed
  <2>5. CASE op = "write"
    <3>1. req[1] = 46
      BY <2>5 DEF Shape
    <3>2. /\ Ecu!uds_svc_write_did(<<req[2], req[3]>>, SubSeq(req, 4, Len(req)))
          /\ answer = ecuReply'
      BY <1>2, <2>5, <3>1 DEF Serve
    <3> QED
      BY <2>5, <3>1, <3>2, WriteServed
  <2>6. CASE op = "ecu_reset"
    <3>1. PICK t \in Nat : req = <<17, t>>
      BY <2>6 DEF Shape
    <3>2. Ecu!uds_svc_ecu_reset(t) /\ answer = ecuReply'
      BY <1>2, <2>6, <3>1 DEF Serve
    <3> QED
      BY <2>6, <3>1, <3>2, ResetServed
  <2>7. CASE op = "comm_control"
    <3>1. PICK c, m \in Nat : req = <<40, c, m>>
      BY <2>7 DEF Shape
    <3>2. Ecu!uds_svc_comm_control(req[2], req[3]) /\ answer = ecuReply'
      BY <1>2, <2>7, <3>1 DEF Serve
    <3>3. answer \in {"SUB_FUNCTION_NOT_SUPPORTED", "REQUEST_OUT_OF_RANGE", "positive"}
      BY <3>2, Replies DEF Ecu!uds_svc_comm_control, Ecu!Respond
    <3>4. resp = <<104, req[2]>>
      BY <3>1 DEF PositiveResponse
    <3> QED
      BY <2>7, <3>3, <3>4, Replies DEF AnswerKnown, RightAnswer
  <2>8. CASE op \in {"read_count", "read_by_status", "read_all"}
    <3>1. \/ op = "read_count" /\ \E m \in Nat : req = <<25, 1, m>>
          \/ op = "read_by_status" /\ \E m \in Nat : req = <<25, 2, m>>
          \/ op = "read_all" /\ req = <<25, 10>>
      BY <2>8 DEF Shape
    <3>2. req[1] = 25 /\ \/ op = "read_count" /\ req[2] = 1
                         \/ op = "read_by_status" /\ req[2] = 2
                         \/ op = "read_all" /\ req[2] = 10
      BY <3>1
    <3>3. Ecu!uds_svc_read_dtc(req[2]) /\ answer = ecuReply'
      BY <1>2, <3>2 DEF Serve
    <3> QED
      BY <3>1, <3>3, DtcServed
  <2>9. CASE op = "clear"
    <3>1. Len(req) = 4 /\ req[1] = 20
      BY <2>9 DEF Shape
    <3>2. Ecu!uds_svc_clear_dtc(SubSeq(req, 2, 4)) /\ answer = ecuReply'
      BY <1>2, <2>9, <3>1 DEF Serve
    <3> QED
      BY <2>9, <3>1, <3>2, ClearServed
  <2> QED
    BY <2>1, <2>2, <2>3, <2>4, <2>5, <2>6, <2>7, <2>8, <2>9 DEF Ops
<1> QED
  BY <1>1, <1>2, DispatchCall

\* So is a key.
LEMMA KeyServed ==
  ASSUME EcuTh!FullInv, NEW level \in Levels, NEW key \in Seeds, NEW req,
         req = <<39, level + 1, key>>,
         ecusim_dispatch(req), NEW resp, resp = PositiveResponse(req)
  PROVE  /\ AnswerKnown(secReply', req)
         /\ secReply' = Ecu!Positive =>
              resp = <<103, level + 1>> /\ sec'.unlocked_level = level
<1>1. Ecu!SendKey(level + 1, key, TRUE)
  BY DispatchKey
<1>2. resp = <<103, level + 1>>
  <2>1. req[1] = 39 /\ req[2] = level + 1 /\ (level + 1) % 2 # 1
    BY LevelsOdd
  <2> QED
    BY <2>1 DEF PositiveResponse
<1> QED
  BY <1>1, <1>2, KeyAnswer DEF AnswerKnown

\* A pair or a triple is a sequence.
LEMMA TupleType ==
  /\ Nat \X Nat \subseteq Seq(Nat)
  /\ Nat \X Nat \X Nat \subseteq Seq(Nat)
<1>1. ASSUME NEW t \in Nat \X Nat PROVE t \in Seq(Nat)
  <2>1. PICK a, b \in Nat : t = <<a, b>>
    OBVIOUS
  <2> QED
    BY <2>1
<1>2. ASSUME NEW t \in Nat \X Nat \X Nat PROVE t \in Seq(Nat)
  <2>1. PICK a, b, c \in Nat : t = <<a, b, c>>
    OBVIOUS
  <2> QED
    BY <2>1
<1> QED
  BY <1>1, <1>2

\* The parts of the responses are bytes.
LEMMA PartTypes ==
  /\ \A n \in Nat : TwoBytes(n) \in Seq(Nat) /\ Len(TwoBytes(n)) = 2
  /\ P2 \in Nat /\ P2Star \div 10 \in Nat
  /\ \A m : Cardinality(Matching(m)) \in Nat
  /\ EcuTh!FullInv => \A codes : DtcRecords(codes) \in Seq(Nat)
  /\ EcuTh!FullInv =>
       \A list \in Seq(Nat \X Nat) :
         (\A i \in DOMAIN list : list[i] \in Dids) =>
            /\ DidRecords(list) \in Seq(Seq(Nat))
            /\ FlattenSeq(DidRecords(list)) \in Seq(Nat)
<1>1. ASSUME NEW n \in Nat PROVE TwoBytes(n) \in Seq(Nat) /\ Len(TwoBytes(n)) = 2
  <2>1. n \div 256 \in Nat /\ n % 256 \in Nat
    OBVIOUS
  <2> QED
    BY <2>1 DEF TwoBytes
<1>2. P2 \in Nat /\ P2Star \div 10 \in Nat
  <2>1. P2 \in Nat /\ P2Star \in Nat
    BY ServicesAssumption
  <2> QED
    BY <2>1
<1>3. DtcCodes \in Seq(Nat \X Nat \X Nat)
  BY EcuAssumption DEF Ecu!ServerAssumption
<1>4. ASSUME NEW m PROVE Cardinality(Matching(m)) \in Nat
  <2>1. IsFiniteSet(1 .. Len(DtcCodes))
    BY <1>3, FS_Interval
  <2>2. Matching(m) \subseteq 1 .. Len(DtcCodes)
    BY <1>3 DEF Matching
  <2>3. IsFiniteSet(Matching(m))
    BY <2>1, <2>2, FS_Subset
  <2> QED
    BY <2>3, FS_CardinalityType
<1>5. ASSUME EcuTh!FullInv, NEW codes PROVE DtcRecords(codes) \in Seq(Nat)
  <2> DEFINE recs == [i \in DOMAIN DtcCodes |->
                        IF i \in codes THEN Append(DtcCodes[i], dtc[i]) ELSE <<>>]
  <2>1. dtc \in [DOMAIN DtcCodes -> Nat]
    BY <1>5, EcuTyped
  <2>2. ASSUME NEW i \in DOMAIN DtcCodes PROVE recs[i] \in Seq(Nat)
    <3>1. DtcCodes[i] \in Nat \X Nat \X Nat
      BY <1>3
    <3>2. DtcCodes[i] \in Seq(Nat)
      BY <3>1, TupleType
    <3>3. dtc[i] \in Nat
      BY <2>1
    <3> QED
      BY <3>2, <3>3
  <2>3. recs \in Seq(Seq(Nat))
    <3>1. DOMAIN DtcCodes = 1 .. Len(DtcCodes) /\ Len(DtcCodes) \in Nat
      BY <1>3
    <3> HIDE DEF recs
    <3>2. DOMAIN recs = DOMAIN DtcCodes
      BY DEF recs
    <3>3. recs = [i \in 1 .. Len(DtcCodes) |-> recs[i]]
      BY <3>1, <3>2 DEF recs
    <3> QED
      BY <2>2, <3>1, <3>3
  <2>4. FlattenSeq(recs) \in Seq(Nat)
    BY <2>3, FlattenType
  <2> QED
    BY <2>4 DEF DtcRecords
<1>6. ASSUME EcuTh!FullInv, NEW list \in Seq(Nat \X Nat), \A i \in DOMAIN list : list[i] \in Dids
      PROVE  /\ DidRecords(list) \in Seq(Seq(Nat))
             /\ FlattenSeq(DidRecords(list)) \in Seq(Nat)
  <2>1. did \in [Dids -> DidValues] /\ DidValues \subseteq Seq(Nat)
    BY <1>6, EcuTyped, ServicesAssumption
  <2>2. DOMAIN list = 1 .. Len(list) /\ Len(list) \in Nat
    OBVIOUS
  <2>3. ASSUME NEW i \in 1 .. Len(list) PROVE list[i] \o did[list[i]] \in Seq(Nat)
    <3>1. list[i] \in Seq(Nat)
      BY TupleType
    <3>2. did[list[i]] \in DidValues
      BY <1>6, <2>1, <2>2
    <3>3. did[list[i]] \in Seq(Nat)
      BY <2>1, <3>2
    <3> QED
      BY <3>1, <3>3
  <2>4. DidRecords(list) = [i \in 1 .. Len(list) |-> list[i] \o did[list[i]]]
    BY <2>2 DEF DidRecords
  <2>5. DidRecords(list) \in Seq(Seq(Nat))
    BY <2>2, <2>3, <2>4
  <2> QED
    BY <2>5, FlattenType
<1> QED
  BY <1>1, <1>2, <1>4, <1>5, <1>6

\* A right answer is a response, and not a refusal.
LEMMA RightAnswerType ==
  ASSUME EcuTh!FullInv, NEW op \in Ops, NEW req \in Seq(Nat), Shape(op, req), NEW resp,
         RightAnswer(op, req, resp)
  PROVE  IsResponse(resp) /\ resp[1] # 127
<1> USE DEF IsResponse
<1>1. CASE op = "change_session"
  <2>1. /\ session.type \in Nat
        /\ TwoBytes(P2) \in Seq(Nat) /\ TwoBytes(P2Star \div 10) \in Seq(Nat)
    BY EcuTyped, PartTypes
  <2>2. resp = <<80, session.type>> \o TwoBytes(P2) \o TwoBytes(P2Star \div 10)
    BY <1>1 DEF RightAnswer
  <2>3. resp \in Seq(Nat) /\ Len(resp) >= 1 /\ resp[1] = 80
    BY <2>1, <2>2
  <2> QED
    BY <2>3
<1>2. CASE op = "tester_present"
  <2>1. resp = <<126, 0>>
    BY <1>2 DEF RightAnswer
  <2> QED
    BY <2>1
<1>3. CASE op = "unlock"
  <2>1. PICK level \in Levels : req = <<39, level>>
    BY <1>3 DEF Shape
  <2>2. PICK seed \in Seeds : resp = <<103, req[2], seed>>
    BY <1>3 DEF RightAnswer
  <2>3. req[2] \in Nat /\ seed \in Nat
    BY <2>1, LevelsOdd, ServicesAssumption
  <2>4. resp \in Seq(Nat) /\ Len(resp) = 3 /\ resp[1] = 103 /\ resp[3] = seed
    BY <2>2, <2>3
  <2> QED
    BY <2>4
<1>4. CASE op = "read"
  <2>1. FlattenSeq(DidRecords(DidList(req))) \in Seq(Nat)
    BY <1>4, PartTypes, DidListType DEF RightAnswer
  <2>2. resp = <<98>> \o FlattenSeq(DidRecords(DidList(req)))
    BY <1>4 DEF RightAnswer
  <2>3. resp \in Seq(Nat) /\ Len(resp) >= 1 /\ resp[1] = 98
    BY <2>1, <2>2
  <2> QED
    BY <2>3
<1>5. CASE op = "write"
  <2>1. resp = <<110, req[2], req[3]>>
    BY <1>5 DEF RightAnswer
  <2>2. Len(req) >= 3
    BY <1>5 DEF Shape
  <2>3. req[2] \in Nat /\ req[3] \in Nat
    BY <2>2
  <2> QED
    BY <2>1, <2>3
<1>6. CASE op = "ecu_reset"
  <2>1. PICK t \in Nat : req = <<17, t>>
    BY <1>6 DEF Shape
  <2>2. resp = <<81, t>>
    BY <1>6, <2>1 DEF RightAnswer
  <2> QED
    BY <2>2
<1>7. CASE op = "comm_control"
  <2>1. PICK c, m \in Nat : req = <<40, c, m>>
    BY <1>7 DEF Shape
  <2>2. resp = <<104, c>>
    BY <1>7, <2>1 DEF RightAnswer
  <2> QED
    BY <2>2
<1>8. CASE op = "read_count"
  <2>1. TwoBytes(Cardinality(Matching(req[3]))) \in Seq(Nat)
    BY PartTypes
  <2>2. resp = <<89, 1, 255, 1>> \o TwoBytes(Cardinality(Matching(req[3])))
    BY <1>8 DEF RightAnswer
  <2>3. resp \in Seq(Nat) /\ Len(resp) >= 1 /\ resp[1] = 89
    BY <2>1, <2>2
  <2> QED
    BY <2>3
<1>9. CASE op = "read_by_status"
  <2>1. PICK m \in Nat : req = <<25, 2, m>>
    BY <1>9 DEF Shape
  <2>2. DtcRecords(Matching(m)) \in Seq(Nat)
    BY PartTypes
  <2>3. resp = <<89, 2, m>> \o DtcRecords(Matching(m))
    BY <1>9, <2>1 DEF RightAnswer
  <2>4. resp \in Seq(Nat) /\ Len(resp) >= 1 /\ resp[1] = 89
    BY <2>2, <2>3
  <2> QED
    BY <2>4
<1>10. CASE op = "read_all"
  <2>1. DtcRecords(DOMAIN DtcCodes) \in Seq(Nat)
    BY PartTypes
  <2>2. resp = <<89, 10, 255>> \o DtcRecords(DOMAIN DtcCodes)
    BY <1>10 DEF RightAnswer
  <2>3. resp \in Seq(Nat) /\ Len(resp) >= 1 /\ resp[1] = 89
    BY <2>1, <2>2
  <2> QED
    BY <2>3
<1>11. CASE op = "clear"
  <2>1. resp = <<84>>
    BY <1>11 DEF RightAnswer
  <2> QED
    BY <2>1
<1> QED
  BY <1>1, <1>2, <1>3, <1>4, <1>5, <1>6, <1>7, <1>8, <1>9, <1>10, <1>11 DEF Ops

----------------------------------------------------------------------------
(* The requests and responses on their way *)

Requests(s) == s \in Seq(Seq(Nat)) /\ \A i \in 1 .. Len(s) : WellFormed(s[i])
Responses(s) == s \in Seq(Seq(Nat)) /\ \A i \in 1 .. Len(s) : IsResponse(s[i])

MsgInv ==
  /\ TypeOK
  /\ call \in Calls \cup {NoCall}
  /\ pc # "idle" => call \in Calls /\ call # tester_present(TRUE)
  /\ pc = "key" => call.op = "unlock"
  /\ Requests(reqs)
  /\ Responses(resps)

Inv == MsgInv /\ EcuTh!FullInv

\* The requests are sequences of bytes.
LEMMA WellFormedType ==
  ASSUME NEW req, WellFormed(req)
  PROVE  req \in Seq(Nat) /\ Len(req) \in Nat
<1>1. CASE \E level \in Levels, key \in Seeds : req = <<39, level + 1, key>>
  <2>1. PICK level \in Levels, key \in Seeds : req = <<39, level + 1, key>>
    BY <1>1
  <2>2. level + 1 \in Nat /\ key \in Nat
    BY LevelsOdd, ServicesAssumption
  <2> QED
    BY <2>1, <2>2
<1> QED
  BY <1>1 DEF WellFormed

\* Queues of requests stay such when the first is taken or one is appended ...
LEMMA RequestsKept ==
  ASSUME NEW s, Requests(s)
  PROVE  /\ s # <<>> => WellFormed(Head(s)) /\ Requests(Tail(s))
         /\ \A req : WellFormed(req) => Requests(Append(s, req))
         /\ s \in Seq(Seq(Nat))
<1>1. ASSUME s # <<>> PROVE WellFormed(Head(s)) /\ Requests(Tail(s))
  <2>1. /\ Head(s) = s[1] /\ Len(s) \in Nat \ {0}
        /\ Tail(s) \in Seq(Seq(Nat))
        /\ \A i \in 1 .. Len(Tail(s)) : Tail(s)[i] = s[i + 1] /\ i + 1 \in 1 .. Len(s)
    BY <1>1, TailKeeps DEF Requests
  <2>2. WellFormed(s[1])
    BY <2>1 DEF Requests
  <2> QED
    BY <2>1, <2>2 DEF Requests
<1>2. ASSUME NEW req, WellFormed(req) PROVE Requests(Append(s, req))
  <2>1. req \in Seq(Nat)
    BY <1>2, WellFormedType
  <2>2. /\ Append(s, req) \in Seq(Seq(Nat)) /\ Len(Append(s, req)) = Len(s) + 1
        /\ Len(s) \in Nat
        /\ Append(s, req)[Len(s) + 1] = req
        /\ \A i \in 1 .. Len(s) : Append(s, req)[i] = s[i]
    BY <2>1, AppendKeeps DEF Requests
  <2>3. ASSUME NEW i \in 1 .. Len(s) + 1 PROVE WellFormed(Append(s, req)[i])
    <3>1. CASE i = Len(s) + 1
      BY <1>2, <2>2, <3>1
    <3>2. CASE i \in 1 .. Len(s)
      BY <2>2, <3>2 DEF Requests
    <3> QED
      BY <2>2, <3>1, <3>2
  <2> QED
    BY <2>2, <2>3 DEF Requests
<1> QED
  BY <1>1, <1>2 DEF Requests

\* ... and so do queues of responses.
LEMMA ResponsesKept ==
  ASSUME NEW s, Responses(s)
  PROVE  /\ s # <<>> => IsResponse(Head(s)) /\ Responses(Tail(s))
         /\ \A resp : IsResponse(resp) => Responses(Append(s, resp))
         /\ s \in Seq(Seq(Nat))
<1>1. ASSUME s # <<>> PROVE IsResponse(Head(s)) /\ Responses(Tail(s))
  <2>1. /\ Head(s) = s[1] /\ Len(s) \in Nat \ {0}
        /\ Tail(s) \in Seq(Seq(Nat))
        /\ \A i \in 1 .. Len(Tail(s)) : Tail(s)[i] = s[i + 1] /\ i + 1 \in 1 .. Len(s)
    BY <1>1, TailKeeps DEF Responses
  <2>2. IsResponse(s[1])
    BY <2>1 DEF Responses
  <2> QED
    BY <2>1, <2>2 DEF Responses
<1>2. ASSUME NEW resp, IsResponse(resp) PROVE Responses(Append(s, resp))
  <2>1. resp \in Seq(Nat)
    BY <1>2 DEF IsResponse
  <2>2. /\ Append(s, resp) \in Seq(Seq(Nat)) /\ Len(Append(s, resp)) = Len(s) + 1
        /\ Len(s) \in Nat
        /\ Append(s, resp)[Len(s) + 1] = resp
        /\ \A i \in 1 .. Len(s) : Append(s, resp)[i] = s[i]
    BY <2>1, AppendKeeps DEF Responses
  <2>3. ASSUME NEW i \in 1 .. Len(s) + 1 PROVE IsResponse(Append(s, resp)[i])
    <3>1. CASE i = Len(s) + 1
      BY <1>2, <2>2, <3>1
    <3>2. CASE i \in 1 .. Len(s)
      BY <2>2, <3>2 DEF Responses
    <3> QED
      BY <2>2, <3>1, <3>2
  <2> QED
    BY <2>2, <2>3 DEF Responses
<1> QED
  BY <1>1, <1>2 DEF Responses

\* A refusal is a response of three bytes.
LEMMA NrcResponse ==
  ASSUME NEW sid \in Nat, NEW nrc \in DOMAIN NrcByte
  PROVE  /\ IsResponse(build_nrc(sid, nrc))
         /\ Negative(build_nrc(sid, nrc))
         /\ ~ Pending(build_nrc(sid, nrc))
<1>1. NrcByte[nrc] \in Nat /\ NrcByte[nrc] # 120
  BY DEF NrcByte
<1> QED
  BY <1>1 DEF build_nrc, IsResponse, Negative, Pending

\* Initially nothing is on its way.
LEMMA InitInv == Init => Inv
<1> SUFFICES ASSUME Init PROVE Inv
  OBVIOUS
<1>1. EcuTh!FullInv
  BY EcuInitSame, EcuConstants, EcuTh!InitFull DEF Init
<1>2. MsgInv
  BY ServicesAssumption DEF Init, MsgInv, TypeOK, Requests, Responses
<1> QED
  BY <1>1, <1>2 DEF Inv

\* The ECU's invariant survives every step of the tester's and the bus.
LEMMA EcuUnchanged ==
  ASSUME EcuTh!FullInv, UNCHANGED ecuVars
  PROVE  EcuTh!FullInv'
<1>1. EcuTh!vars' = EcuTh!vars
  BY DEF ecuVars, EcuTh!vars, EcuTh!secVars, EcuTh!flashVars, EcuTh!coreVars
<1> QED
  BY <1>1, EcuConstants, EcuTh!NextFull

\* No method is called none.
LEMMA NotNoCall ==
  ASSUME NEW c \in Calls
  PROVE  c # NoCall
<1>1. c.op \in Ops
  BY CallShape
<1> QED
  BY <1>1 DEF Ops, NoCall

\* The bounds are numbers.
LEMMA Bounds == {MaxPending, MaxInFlight, MaxDisturb} \subseteq Nat
BY ServicesAssumption

\* A call starts.
LEMMA StartCallInv ==
  ASSUME Inv, NEW c \in Calls, StartCall(c)
  PROVE  Inv'
<1>1. EcuTh!FullInv'
  BY EcuUnchanged DEF Inv, StartCall
<1>2. PICK r : r = c.request
  OBVIOUS
<1>3. r \in Seq(Nat) /\ c.op \in Ops /\ Shape(c.op, r)
  BY <1>2, CallShape
<1>4. WellFormed(r)
  BY <1>3 DEF WellFormed
<1>5. /\ call' = c /\ c # NoCall /\ resps' = resps
      /\ reqs' = Append(reqs, r) /\ attempts' = 0
      /\ \/ pc' = "idle" /\ outcome' = "ok"
         \/ pc' = "recv" /\ outcome' = "none" /\ c # tester_present(TRUE)
  BY <1>2, NotNoCall DEF StartCall, Send
<1>6. Requests(reqs')
  BY <1>4, <1>5, RequestsKept DEF Inv, MsgInv
<1>7. TypeOK'
  <2>1. 0 \in 0 .. MaxPending
    BY Bounds
  <2> QED
    BY <1>5, <2>1 DEF TypeOK
<1>8. Responses(resps')
  BY <1>5 DEF Inv, MsgInv
<1>9. MsgInv'
  BY <1>5, <1>6, <1>7, <1>8 DEF MsgInv
<1> QED
  BY <1>1, <1>9 DEF Inv

\* The third byte of three, and of two.
LEMMA ThirdByte ==
  ASSUME NEW r \in Seq(Nat)
  PROVE  /\ Len(r) = 2 => SubSeq(r, 3, Len(r)) = <<>>
         /\ Len(r) = 3 => SubSeq(r, 3, Len(r)) = <<r[3]>>
<1>1. CASE Len(r) = 2
  BY <1>1, SubSeqEmpty
<1>2. CASE Len(r) = 3
  <2>0. \A i \in 1 .. Len(r) : r[i] \in Nat
    OBVIOUS
  <2>1. r[3] \in Nat
    BY <1>2, <2>0
  <2> DEFINE s == SubSeq(r, 3, Len(r))
  <2>2. \A i \in 3 .. Len(r) : r[i] \in Nat
    BY <1>2, <2>1
  <2>3. s \in Seq(Nat) /\ Len(s) = 1 /\ s[1] = r[3]
    BY <1>2, <2>2, SubSeqProperties
  <2> HIDE DEF s
  <2>4. s = <<r[3]>>
    BY <2>3
  <2> QED
    BY <1>2, <2>4 DEF s
<1> QED
  BY <1>1, <1>2

\* A key after the two first bytes of its request.
LEMMA ThreeBytes ==
  ASSUME NEW n \in Nat, NEW k \in Nat
  PROVE  <<39, n>> \o <<k>> = <<39, n, k>>
<1>1. <<39, n>> \in Seq(Nat) /\ <<k>> \in Seq(Nat) /\ <<39, n, k>> \in Seq(Nat)
  OBVIOUS
<1> DEFINE s == <<39, n>> \o <<k>>
<1>2. s \in Seq(Nat) /\ Len(s) = 3 /\ s[1] = 39 /\ s[2] = n /\ s[3] = k
  BY <1>1, ConcatProperties
<1> HIDE DEF s
<1>3. s = <<39, n, k>>
  BY <1>1, <1>2, SeqEqual
<1> QED
  BY <1>3 DEF s

\* unlock answers a seed with the key of the seed, a byte.
LEMMA KeyRequest ==
  ASSUME NEW resp, IsResponse(resp), resp[1] = 103, NEW level \in Levels,
         \E i \in DOMAIN SubSeq(resp, 3, Len(resp)) : SubSeq(resp, 3, Len(resp))[i] # 0
  PROVE  /\ Len(resp) = 3 /\ resp[3] # 0
         /\ \E key \in Seeds :
              <<39, level + 1>> \o compute_key(SubSeq(resp, 3, Len(resp)))
                = <<39, level + 1, key>>
<1>1. resp \in Seq(Nat) /\ Len(resp) \in {2, 3}
  BY DEF IsResponse
<1>2. Len(resp) = 3
  BY <1>1, ThirdByte
<1>3. resp[3] \in Seeds /\ SubSeq(resp, 3, Len(resp)) = <<resp[3]>>
  <2>1. resp[3] \in Seeds
    BY <1>2 DEF IsResponse
  <2> QED
    BY <1>1, <1>2, <2>1, ThirdByte
<1>4. KeyOf[resp[3]] \in Seeds
  BY <1>3, EcuAssumption
     DEF Ecu!ComponentsAssumption, Ecu!Sec!SecurityAssumption, Ecu!Sec!Keys
<1>5. compute_key(<<resp[3]>>) = <<KeyOf[resp[3]]>>
  BY DEF compute_key
<1>6. <<39, level + 1>> \o <<KeyOf[resp[3]]>> = <<39, level + 1, KeyOf[resp[3]]>>
  <2>1. level + 1 \in Nat
    BY LevelsOdd
  <2>2. KeyOf[resp[3]] \in Nat
    BY <1>4, ServicesAssumption
  <2> QED
    BY <2>1, <2>2, ThreeBytes
<1>7. resp[3] # 0
  BY <1>3
<1>8. <<39, level + 1>> \o compute_key(SubSeq(resp, 3, Len(resp)))
        = <<39, level + 1, KeyOf[resp[3]]>>
  BY <1>3, <1>5, <1>6
<1> QED
  BY <1>2, <1>4, <1>7, <1>8

\* A response arrives.
LEMMA RequestInv ==
  ASSUME Inv, _request
  PROVE  Inv'
<1>1. EcuTh!FullInv'
  BY EcuUnchanged DEF Inv, _request
<1>2. PICK resp : resp = Head(resps)
  OBVIOUS
<1>3. IsResponse(resp) /\ Responses(resps')
  BY <1>2, ResponsesKept DEF Inv, MsgInv, _request
<1>4. /\ pc \in {"recv", "key"} /\ call \in Calls /\ call # NoCall
      /\ attempts \in Nat /\ MaxPending \in Nat
  BY NotNoCall, Bounds DEF Inv, MsgInv, TypeOK, _request
<1>5. call' = call /\ call # tester_present(TRUE)
  BY <1>4 DEF Inv, MsgInv, _request, Finish, Proceed
<1>6. ASSUME UNCHANGED <<reqs, pc, outcome>>, attempts' = attempts + 1, attempts < MaxPending
      PROVE  MsgInv'
  <2>1. TypeOK'
    BY <1>4, <1>5, <1>6, ServicesAssumption DEF Inv, MsgInv, TypeOK
  <2> QED
    BY <1>3, <1>4, <1>5, <1>6, <2>1 DEF Inv, MsgInv
<1>7. ASSUME NEW how \in {"ok", "UdsNrcError", "UdsProtocolError"}, Finish(how) PROVE MsgInv'
  <2>1. TypeOK'
    BY <1>4, <1>5, <1>7 DEF Inv, MsgInv, TypeOK, Finish
  <2> QED
    BY <1>3, <1>4, <1>5, <1>7, <2>1 DEF Inv, MsgInv, Finish
<1> DEFINE seed == SubSeq(resp, 3, Len(resp))
<1>8. ASSUME Expected(resp), call.op = "unlock", \E i \in DOMAIN seed : seed[i] # 0,
             Send(<<39, call.request[2] + 1>> \o compute_key(seed), "key"), outcome' = outcome
      PROVE  MsgInv'
  <2>1. PICK level \in Levels : call.request = <<39, level>>
    BY <1>4, <1>8, CallShape DEF Shape
  <2>2. resp[1] = 103
    <3>1. resp # <<>>
      BY <1>3 DEF IsResponse
    <3> QED
      BY <1>8, <3>1 DEF Expected
  <2>3. PICK req : req = <<39, level + 1>> \o compute_key(seed)
    OBVIOUS
  <2>4. \E key \in Seeds : req = <<39, level + 1, key>>
    BY <1>3, <1>8, <2>2, <2>3, KeyRequest
  <2>5. WellFormed(req)
    BY <2>4 DEF WellFormed
  <2>6. reqs' = Append(reqs, req) /\ pc' = "key" /\ attempts' = 0
    <3>1. call.request[2] = level
      BY <2>1
    <3> QED
      BY <1>8, <2>3, <3>1 DEF Send
  <2>7. Requests(reqs')
    BY <2>5, <2>6, RequestsKept DEF Inv, MsgInv
  <2>8. TypeOK'
    BY <1>4, <1>5, <1>8, <2>6, ServicesAssumption DEF Inv, MsgInv, TypeOK
  <2> QED
    BY <1>3, <1>4, <1>5, <1>8, <2>6, <2>7, <2>8 DEF MsgInv
<1>9. MsgInv'
  <2>1. CASE Pending(resp) /\ attempts < MaxPending
    BY <1>2, <1>4, <1>6, <2>1 DEF _request, Pending
  <2>2. CASE Negative(resp) /\ ~ (Pending(resp) /\ attempts < MaxPending)
    BY <1>2, <1>7, <2>2 DEF _request
  <2>3. CASE ~ Negative(resp)
    BY <1>2, <1>7, <1>8, <2>3 DEF _request, Proceed, Pending
  <2> QED
    BY <2>1, <2>2, <2>3 DEF Pending
<1> QED
  BY <1>1, <1>9 DEF Inv

\* A right answer is a response, whatever the state: the lemma above as one
\* formula.
RightAnswersTyped ==
  \A op \in Ops : \A req \in Seq(Nat) : \A resp :
    EcuTh!FullInv /\ Shape(op, req) /\ RightAnswer(op, req, resp)
      => IsResponse(resp) /\ resp[1] # 127

\* It is.
LEMMA AllRightAnswersTyped == RightAnswersTyped
BY RightAnswerType DEF RightAnswersTyped

\* So are answers right after the step that gives them.
LEMMA RightAnswerTypeNext ==
  ASSUME EcuTh!FullInv', NEW op \in Ops, NEW req \in Seq(Nat), Shape(op, req), NEW resp,
         RightAnswer(op, req, resp)'
  PROVE  IsResponse(resp) /\ resp[1] # 127
<1>1. RightAnswersTyped'
  BY AllRightAnswersTyped, PTL
<1> QED
  BY <1>1 DEF RightAnswersTyped

\* What a key is answered with is a response.
LEMMA KeyResponse ==
  ASSUME NEW n \in Nat
  PROVE  IsResponse(<<103, n>>) /\ <<103, n>>[1] # 127
<1>1. <<103, n>> \in Seq(Nat) /\ Len(<<103, n>>) = 2 /\ <<103, n>>[1] = 103
  OBVIOUS
<1> QED
  BY <1>1 DEF IsResponse

\* Whatever request is next, the ECU stays an ECU and answers it.
LEMMA Served ==
  ASSUME EcuTh!FullInv, NEW req, WellFormed(req), ecusim_dispatch(req),
         NEW answer, answer = IF req[1] = 39 THEN secReply' ELSE ecuReply',
         NEW resp, resp = PositiveResponse(req)
  PROVE  /\ EcuTh!FullInv'
         /\ AnswerKnown(answer, req)
         /\ answer = Ecu!Positive => IsResponse(resp) /\ resp[1] # 127
<1>1. EcuTh!FullInv'
  <2>1. [Ecu!Next]_Ecu!vars
    BY DispatchKnown DEF Ecu!Next
  <2> QED
    BY <2>1, EcuNextSame, EcuConstants, EcuTh!NextFull
<1>2. CASE \E op \in Ops : req \in Seq(Nat) /\ Shape(op, req)
  <2>1. PICK op \in Ops : req \in Seq(Nat) /\ Shape(op, req)
    BY <1>2
  <2>2. /\ AnswerKnown(answer, req)
        /\ answer = Ecu!Positive => RightAnswer(op, req, resp)'
    BY <1>1, <2>1, CallServed
  <2> QED
    BY <1>1, <2>1, <2>2, RightAnswerTypeNext
<1>3. CASE \E level \in Levels, key \in Seeds : req = <<39, level + 1, key>>
  <2>1. PICK level \in Levels, key \in Seeds : req = <<39, level + 1, key>>
    BY <1>3
  <2>2. answer = secReply'
    BY <2>1
  <2>3. /\ AnswerKnown(answer, req)
        /\ answer = Ecu!Positive => resp = <<103, level + 1>>
    BY <2>1, <2>2, KeyServed
  <2>4. level + 1 \in Nat
    BY LevelsOdd
  <2>5. \A n \in Nat : IsResponse(<<103, n>>) /\ <<103, n>>[1] # 127
    BY KeyResponse
  <2>6. answer = Ecu!Positive => IsResponse(resp) /\ resp[1] # 127
    BY <2>3, <2>4, <2>5
  <2> QED
    BY <1>1, <2>3, <2>6
<1> QED
  BY <1>2, <1>3 DEF WellFormed

\* The ECU serves a request.
LEMMA RunInv ==
  ASSUME Inv, ecusim_run
  PROVE  Inv'
<1>1. PICK req : req = Head(reqs)
  OBVIOUS
<1>2. PICK answer : answer = IF req[1] = 39 THEN secReply' ELSE ecuReply'
  OBVIOUS
<1>3. PICK resp : resp = PositiveResponse(req)
  OBVIOUS
<1>4. /\ WellFormed(req) /\ req[1] \in Nat
      /\ Requests(reqs')
  <2>1. /\ WellFormed(req)
        /\ Requests(reqs')
    BY <1>1, RequestsKept DEF Inv, MsgInv, ecusim_run
  <2>2. req[1] \in Nat
    <3>1. CASE \E op \in Ops : req \in Seq(Nat) /\ Shape(op, req)
      BY <3>1 DEF Shape, Ops
    <3>2. CASE \E level \in Levels, key \in Seeds : req = <<39, level + 1, key>>
      BY <3>2
    <3> QED
      BY <2>1, <3>1, <3>2 DEF WellFormed
  <2> QED
    BY <2>1, <2>2
<1>5. ecusim_dispatch(req)
  BY <1>1 DEF ecusim_run
<1>6. /\ EcuTh!FullInv'
      /\ AnswerKnown(answer, req)
      /\ answer = Ecu!Positive => IsResponse(resp) /\ resp[1] # 127
  BY <1>2, <1>3, <1>4, <1>5, Served DEF Inv
<1>7. resps' = CASE answer = Ecu!NoReply -> resps
                 [] answer = Ecu!Positive -> Append(resps, resp)
                 [] OTHER -> Append(resps, build_nrc(req[1], answer))
  BY <1>1, <1>2, <1>3 DEF ecusim_run
<1>8. Responses(resps) /\ \A r : IsResponse(r) => Responses(Append(resps, r))
  BY ResponsesKept DEF Inv, MsgInv
<1>9. Responses(resps')
  <2>1. CASE answer = Ecu!NoReply
    BY <1>7, <1>8, <2>1, Replies
  <2>2. CASE answer = Ecu!Positive
    BY <1>6, <1>7, <1>8, <2>2, Replies
  <2>3. CASE answer \in DOMAIN NrcByte
    BY <1>4, <1>7, <1>8, <2>3, Replies, NrcResponse
  <2> QED
    BY <1>6, <2>1, <2>2, <2>3 DEF AnswerKnown
<1>10. UNCHANGED callVars
  BY DEF ecusim_run
<1>11. MsgInv'
  BY <1>4, <1>9, <1>10 DEF Inv, MsgInv, TypeOK, callVars
<1> QED
  BY <1>6, <1>11 DEF Inv

\* The client gives up.
LEMMA TimeoutInv ==
  ASSUME Inv, Timeout
  PROVE  Inv'
<1>1. EcuTh!FullInv'
  BY EcuUnchanged DEF Inv, Timeout
<1>2. TypeOK'
  BY DEF Inv, MsgInv, TypeOK, Timeout, Finish
<1>3. MsgInv'
  BY <1>2 DEF Inv, MsgInv, Timeout, Finish
<1> QED
  BY <1>1, <1>3 DEF Inv

\* The bus loses a PDU.
LEMMA LoseInv ==
  ASSUME Inv, LosePdu
  PROVE  Inv'
<1>1. EcuTh!FullInv'
  BY EcuUnchanged DEF Inv, LosePdu
<1>2. /\ Requests(reqs')
      /\ Responses(resps')
  BY RequestsKept, ResponsesKept DEF Inv, MsgInv, LosePdu
<1>3. MsgInv'
  BY <1>2 DEF Inv, MsgInv, TypeOK, LosePdu, callVars
<1> QED
  BY <1>1, <1>3 DEF Inv

\* A RESPONSE_PENDING answer is a response.
LEMMA PendingInv ==
  ASSUME Inv, ResponsePending
  PROVE  Inv'
<1>1. EcuTh!FullInv'
  BY EcuUnchanged DEF Inv, ResponsePending
<1>2. PICK sid : sid = Head(reqs)[1]
  OBVIOUS
<1>3. sid \in Nat
  <2>1. PICK req : req = Head(reqs)
    OBVIOUS
  <2>2. WellFormed(req)
    BY <2>1, RequestsKept DEF Inv, MsgInv, ResponsePending
  <2>3. CASE \E op \in Ops : req \in Seq(Nat) /\ Shape(op, req)
    BY <1>2, <2>1, <2>3 DEF Shape, Ops
  <2>4. CASE \E level \in Levels, key \in Seeds : req = <<39, level + 1, key>>
    BY <1>2, <2>1, <2>4
  <2> QED
    BY <2>2, <2>3, <2>4 DEF WellFormed
<1>4. IsResponse(<<127, sid, 120>>)
  BY <1>3 DEF IsResponse
<1>5. resps' = Append(resps, <<127, sid, 120>>)
  BY <1>2 DEF ResponsePending
<1>6. Responses(resps')
  BY <1>4, <1>5, ResponsesKept DEF Inv, MsgInv
<1>7. MsgInv'
  BY <1>6 DEF Inv, MsgInv, TypeOK, ResponsePending, callVars
<1> QED
  BY <1>1, <1>7 DEF Inv

\* The invariant survives every step.
LEMMA NextInv ==
  ASSUME Inv, [Next]_vars
  PROVE  Inv'
<1>1. CASE UNCHANGED vars
  <2>1. EcuTh!FullInv'
    BY <1>1, EcuUnchanged DEF Inv, vars
  <2>2. MsgInv'
    BY <1>1 DEF Inv, MsgInv, TypeOK, vars, callVars
  <2> QED
    BY <2>1, <2>2 DEF Inv
<1> QED
  BY <1>1, StartCallInv, RequestInv, TimeoutInv, RunInv, LoseInv, PendingInv DEF Next

\* So it always holds.
LEMMA Inductive == Spec => []Inv
BY InitInv, NextInv, PTL DEF Spec

\* Type correctness of the tester: of a call in progress, of the loop that waits
\* for its response and of how it ends.
THEOREM ServicesTypeCorrect == Spec => []TypeOK
<1>1. Inv => TypeOK
  BY DEF Inv, MsgInv
<1> QED
  BY <1>1, Inductive, PTL

\* Whatever the tester's methods send over whatever bus, the ECU among them is
\* EcuServer: each request's bytes are dispatched to one of its services with
\* parameters in its range, and nothing else moves its state.
THEOREM EcuInsideRefined == Spec => Ecu!Spec
<1>1. Init => Ecu!ecusim_init
  BY DEF Init
<1>2. Inv /\ [Next]_vars => [Ecu!Next]_Ecu!vars
  <2> SUFFICES ASSUME Inv, [Next]_vars PROVE [Ecu!Next]_Ecu!vars
    OBVIOUS
  <2>1. CASE ecusim_run
    <3>1. PICK req : req = Head(reqs)
      OBVIOUS
    <3>2. WellFormed(req) /\ ecusim_dispatch(req)
      BY <2>1, <3>1, RequestsKept DEF Inv, MsgInv, ecusim_run
    <3> QED
      BY <3>2, DispatchKnown DEF Ecu!Next
  <2>2. CASE UNCHANGED ecuVars
    BY <2>2 DEF ecuVars, Ecu!vars, Ecu!secVars, Ecu!flashVars, Ecu!coreVars
  <2> QED
    BY <2>1, <2>2
       DEF Next, StartCall, _request, Timeout, LosePdu, ResponsePending, vars
<1> QED
  BY <1>1, <1>2, Inductive, PTL DEF Spec, Ecu!Spec

----------------------------------------------------------------------------
(* In step: whose answer the next response is *)

Suppressed == <<62, 128>>

Quiet(s) == \A i \in 1 .. Len(s) : s[i] = Suppressed
AllPending(s) == \A i \in 1 .. Len(s) : Pending(s[i])

\* The request that the call in progress waits for.
Wanted(req) ==
  \/ pc = "recv" /\ req = call.request
  \/ pc = "key" /\ \E key \in Seeds : req = <<39, call.request[2] + 1, key>>

\* The response says what is true of the ECU.
Answered(resp) ==
  \E op \in Ops, req \in Seq(Nat), r \in {resp} :
    op = call.op /\ req = call.request /\ r = resp /\ RightAnswer(op, req, r)

\* The response to the request waited for.
RightResponse(resp) ==
  \/ Negative(resp) /\ ~ Pending(resp)
  \/ pc = "recv" /\ Answered(resp)
  \/ /\ pc = "key"
     /\ resp = <<103, call.request[2] + 1>>
     /\ sec.unlocked_level = call.request[2]

\* The request is still on its way, behind suppressed ones ...
RequestSent ==
  /\ reqs # <<>>
  /\ \E req : req = reqs[Len(reqs)] /\ Wanted(req)
  /\ \A i \in 1 .. Len(reqs) - 1 : reqs[i] = Suppressed
  /\ AllPending(resps)
  /\ attempts + Len(resps) <= disturbed

\* ... or it or its response got lost ...
RequestLost ==
  /\ bus = "lossy"
  /\ Quiet(reqs)
  /\ AllPending(resps)
  /\ attempts + Len(resps) <= disturbed

\* ... or its response is on its way, behind RESPONSE_PENDING answers.
ResponseSent ==
  /\ reqs = <<>> /\ resps # <<>>
  /\ \A i \in 1 .. Len(resps) - 1 : Pending(resps[i])
  /\ \E resp : resp = resps[Len(resps)] /\ RightResponse(resp)
  /\ attempts + Len(resps) - 1 <= disturbed

\* What has been returned is true, and nothing has reached the ECU since.
Understood ==
  outcome = "ok" /\ call.op # "tester_present" =>
    /\ reqs = <<>>
    /\ call.op # "unlock" => Answered(response)
    /\ call.op = "unlock" =>
         \/ sec.unlocked_level = call.request[2]
         \/ sec.seed_valid /\ sec.seed = 0

StepInv ==
  /\ disturbed \in Nat
  /\ InStep =>
       /\ pc = "idle" => resps = <<>> /\ Quiet(reqs) /\ Understood
       /\ pc # "idle" => RequestSent \/ RequestLost \/ ResponseSent
       /\ bus = "clean" => outcome \notin {"UdsTimeoutError", "UdsProtocolError"}

\* The state of the ECU that answers speak of.
EcuFacts == <<sec, session, did, dtc>>

\* A right answer stays right while the ECU does nothing.
LEMMA RightAnswerStable ==
  ASSUME UNCHANGED EcuFacts, NEW op, NEW req, NEW resp, RightAnswer(op, req, resp)
  PROVE  RightAnswer(op, req, resp)'
<1>1. UNCHANGED sec /\ UNCHANGED session /\ UNCHANGED did /\ UNCHANGED dtc
  BY DEF EcuFacts
<1>2. ASSUME NEW m PROVE Matching(m)' = Matching(m)
  BY <1>1 DEF Matching
<1>3. ASSUME NEW s PROVE DtcRecords(s)' = DtcRecords(s)
  BY <1>1 DEF DtcRecords
<1>4. ASSUME NEW m PROVE DtcRecords(Matching(m))' = DtcRecords(Matching(m))
  BY <1>1, <1>2 DEF DtcRecords
<1>5. ASSUME NEW list PROVE DidRecords(list)' = DidRecords(list)
  BY <1>1 DEF DidRecords
<1>6. CASE op = "read"
  <2>1. /\ \A i \in DOMAIN DidList(req) : DidList(req)[i] \in Dids
        /\ Len(DidList(req)) # 0
        /\ resp = <<98>> \o FlattenSeq(DidRecords(DidList(req)))
    BY <1>6 DEF RightAnswer
  <2>2. DidRecords(DidList(req))' = DidRecords(DidList(req))
    BY <1>5
  <2>3. resp = <<98>> \o FlattenSeq(DidRecords(DidList(req))')
    BY <2>1, <2>2
  <2> QED
    BY <1>6, <2>1, <2>3 DEF RightAnswer
<1>7. CASE op = "read_count"
  <2>1. resp = <<89, 1, 255, 1>> \o TwoBytes(Cardinality(Matching(req[3])))
    BY <1>7 DEF RightAnswer
  <2>2. Matching(req[3])' = Matching(req[3])
    BY <1>2
  <2>3. resp = <<89, 1, 255, 1>> \o TwoBytes(Cardinality(Matching(req[3])'))
    BY <2>1, <2>2
  <2> QED
    BY <1>7, <2>3 DEF RightAnswer
<1>8. CASE op = "read_by_status"
  <2>1. resp = <<89, 2, req[3]>> \o DtcRecords(Matching(req[3]))
    BY <1>8 DEF RightAnswer
  <2>2. DtcRecords(Matching(req[3]))' = DtcRecords(Matching(req[3]))
    BY <1>4
  <2>3. resp = <<89, 2, req[3]>> \o DtcRecords(Matching(req[3]))'
    BY <2>1, <2>2
  <2> QED
    BY <1>8, <2>3 DEF RightAnswer
<1>9. CASE op = "read_all"
  <2>1. resp = <<89, 10, 255>> \o DtcRecords(DOMAIN DtcCodes)
    BY <1>9 DEF RightAnswer
  <2>2. DtcRecords(DOMAIN DtcCodes)' = DtcRecords(DOMAIN DtcCodes)
    BY <1>3
  <2>3. resp = <<89, 10, 255>> \o DtcRecords(DOMAIN DtcCodes)'
    BY <2>1, <2>2
  <2> QED
    BY <1>9, <2>3 DEF RightAnswer
<1>10. CASE op \notin {"read", "read_count", "read_by_status", "read_all"}
  BY <1>1, <1>10 DEF RightAnswer
<1> QED
  BY <1>6, <1>7, <1>8, <1>9, <1>10

\* So does what a response says, or a call has returned.
LEMMA AnsweredStable ==
  ASSUME UNCHANGED <<EcuFacts, call>>
  PROVE  /\ \A resp : Answered(resp) => Answered(resp)'
         /\ Answered(response) /\ response' = response => Answered(response)'
         /\ UNCHANGED pc => \A resp : RightResponse(resp) => RightResponse(resp)'
<1>1. ASSUME NEW resp, Answered(resp) PROVE Answered(resp)'
  <2>1. PICK op \in Ops, req \in Seq(Nat) :
          op = call.op /\ req = call.request /\ RightAnswer(op, req, resp)
    BY <1>1 DEF Answered
  <2>2. RightAnswer(op, req, resp)'
    BY <2>1, RightAnswerStable
  <2>3. op = call'.op /\ req = call'.request
    BY <2>1
  <2> QED
    BY <2>2, <2>3 DEF Answered
<1>2. ASSUME Answered(response), response' = response PROVE Answered(response)'
  <2>1. PICK op \in Ops, req \in Seq(Nat), r \in {response} :
          op = call.op /\ req = call.request /\ r = response /\ RightAnswer(op, req, r)
    BY <1>2 DEF Answered
  <2>2. RightAnswer(op, req, r)'
    BY <2>1, RightAnswerStable
  <2>3. op = call'.op /\ req = call'.request /\ r = response'
    BY <1>2, <2>1
  <2> QED
    BY <2>2, <2>3 DEF Answered
<1>3. ASSUME NEW resp, UNCHANGED pc, RightResponse(resp) PROVE RightResponse(resp)'
  BY <1>1, <1>3 DEF RightResponse, EcuFacts
<1> QED
  BY <1>1, <1>2, <1>3

\* In step after a disturbance means in step before.
LEMMA InStepBefore ==
  ASSUME disturbed \in Nat, UNCHANGED bus, disturbed' \in {disturbed, disturbed + 1}, InStep'
  PROVE  InStep /\ disturbed <= MaxPending /\ disturbed' <= MaxPending /\ bus # "late"
BY Bounds DEF InStep

\* The call in progress, its shape and its request.
LEMMA CallInProgress ==
  ASSUME Inv, pc # "idle"
  PROVE  /\ pc \in {"recv", "key"} /\ call \in Calls
         /\ call.op \in Ops /\ call.request \in Seq(Nat) /\ Shape(call.op, call.request)
         /\ call.request # Suppressed
         /\ pc = "key" => call.op = "unlock"
<1>1. /\ pc \in {"recv", "key"} /\ call \in Calls /\ call # tester_present(TRUE)
      /\ pc = "key" => call.op = "unlock"
  BY DEF Inv, MsgInv, TypeOK
<1>2. PICK c \in Calls : c = call
  BY <1>1
<1>3. PICK r : r = c.request
  OBVIOUS
<1>4. r \in Seq(Nat) /\ c.op \in Ops /\ Shape(c.op, r)
  BY <1>3, CallShape
<1>5. ASSUME r = Suppressed PROVE FALSE
  <2>1. c.op = "tester_present"
    <3>1. r[1] = 62 /\ r[2] = 128
      BY <1>5 DEF Suppressed
    <3>2. 62 # 16 /\ 62 # 39 /\ 62 # 34 /\ 62 # 46 /\ 62 # 17 /\ 62 # 40 /\ 62 # 25 /\ 62 # 20
      OBVIOUS
    <3> QED
      BY <1>4, <3>1 DEF Shape, Ops
  <2>2. MethodCall(c)
    BY CallsAssumption
  <2>3. c = tester_present(TRUE) \/ c = tester_present(FALSE)
    BY <2>1, <2>2
       DEF MethodCall, tester_present, change_session, unlock, read, write, ecu_reset,
           comm_control, read_count, read_by_status, read_all, clear
  <2>4. tester_present(FALSE).request = <<62, 0>>
    BY DEF tester_present
  <2>5. c = tester_present(FALSE)
    BY <1>1, <1>2, <2>3
  <2>6. <<62, 128>> = <<62, 0>>
    BY <1>3, <1>5, <2>4, <2>5 DEF Suppressed
  <2>7. <<62, 128>>[2] = 128 /\ <<62, 0>>[2] = 0
    OBVIOUS
  <2> QED
    BY <2>6, <2>7
<1> QED
  BY <1>1, <1>2, <1>3, <1>4, <1>5

\* Queues of which all elements but the last are alike, when one is taken.
LEMMA QuietTail ==
  ASSUME NEW S, NEW s \in Seq(S), s # <<>>
  PROVE  /\ Quiet(s) => Head(s) = Suppressed /\ Quiet(Tail(s))
         /\ AllPending(s) => Pending(Head(s)) /\ AllPending(Tail(s))
         /\ Len(Tail(s)) = Len(s) - 1 /\ Len(s) \in Nat \ {0}
         /\ Len(s) = 1 => Tail(s) = <<>> /\ Head(s) = s[Len(s)]
         /\ Len(s) # 1 =>
              /\ Tail(s) # <<>> /\ Tail(s)[Len(Tail(s))] = s[Len(s)]
              /\ (\A i \in 1 .. Len(s) - 1 : s[i] = Suppressed) =>
                   /\ Head(s) = Suppressed
                   /\ \A i \in 1 .. Len(Tail(s)) - 1 : Tail(s)[i] = Suppressed
              /\ (\A i \in 1 .. Len(s) - 1 : Pending(s[i])) =>
                   /\ Pending(Head(s))
                   /\ \A i \in 1 .. Len(Tail(s)) - 1 : Pending(Tail(s)[i])
<1>1. /\ Head(s) = s[1] /\ Len(s) \in Nat \ {0}
      /\ Tail(s) \in Seq(S) /\ Len(Tail(s)) = Len(s) - 1
      /\ \A i \in 1 .. Len(Tail(s)) : Tail(s)[i] = s[i + 1] /\ i + 1 \in 1 .. Len(s)
  BY TailKeeps
<1>2. Quiet(s) => Head(s) = Suppressed /\ Quiet(Tail(s))
  BY <1>1 DEF Quiet
<1>3. AllPending(s) => Pending(Head(s)) /\ AllPending(Tail(s))
  BY <1>1 DEF AllPending
<1>4. Len(s) = 1 => Tail(s) = <<>> /\ Head(s) = s[Len(s)]
  BY <1>1
<1>5. ASSUME Len(s) # 1
      PROVE  /\ Tail(s) # <<>> /\ Tail(s)[Len(Tail(s))] = s[Len(s)]
             /\ 1 \in 1 .. Len(s) - 1
             /\ \A i \in 1 .. Len(Tail(s)) - 1 : Tail(s)[i] = s[i + 1]
             /\ \A i \in 1 .. Len(Tail(s)) - 1 : i + 1 \in 1 .. Len(s) - 1
  <2>1. PICK n \in Nat : Len(s) = n + 2
    <3>1. Len(s) - 2 \in Nat /\ Len(s) = (Len(s) - 2) + 2
      BY <1>1, <1>5
    <3> QED
      BY <3>1
  <2>2. Len(Tail(s)) = n + 1
    BY <1>1, <2>1
  <2>3. Tail(s) # <<>>
    <3>1. n + 1 # 0 /\ Len(<<>>) = 0
      OBVIOUS
    <3> QED
      BY <2>2, <3>1
  <2>4. n + 1 \in 1 .. Len(Tail(s))
    BY <2>2
  <2>5. Tail(s)[n + 1] = s[n + 2]
    <3>1. Tail(s)[n + 1] = s[(n + 1) + 1]
      BY <1>1, <2>4
    <3>2. (n + 1) + 1 = n + 2
      OBVIOUS
    <3> QED
      BY <3>1, <3>2
  <2>6. \A i \in 1 .. Len(Tail(s)) - 1 : i \in 1 .. Len(Tail(s)) /\ i + 1 \in 1 .. Len(s) - 1
    BY <2>1, <2>2
  <2>7. 1 \in 1 .. Len(s) - 1
    BY <2>1
  <2> QED
    BY <1>1, <2>1, <2>2, <2>3, <2>5, <2>6, <2>7
<1> QED
  BY <1>1, <1>2, <1>3, <1>4, <1>5

\* ... and when one is appended.
LEMMA QuietAppend ==
  ASSUME NEW S, NEW s \in Seq(S), NEW x \in S
  PROVE  /\ Append(s, x) # <<>> /\ Append(s, x)[Len(Append(s, x))] = x
         /\ Len(Append(s, x)) = Len(s) + 1 /\ Len(s) \in Nat
         /\ Quiet(s) =>
              /\ x = Suppressed => Quiet(Append(s, x))
              /\ \A i \in 1 .. Len(Append(s, x)) - 1 : Append(s, x)[i] = Suppressed
         /\ AllPending(s) =>
              /\ Pending(x) => AllPending(Append(s, x))
              /\ \A i \in 1 .. Len(Append(s, x)) - 1 : Pending(Append(s, x)[i])
<1>1. /\ Append(s, x) \in Seq(S) /\ Len(Append(s, x)) = Len(s) + 1
      /\ Append(s, x) # <<>> /\ Len(s) \in Nat
      /\ Append(s, x)[Len(s) + 1] = x
      /\ \A i \in 1 .. Len(s) : Append(s, x)[i] = s[i]
  BY AppendKeeps
<1>2. \A i \in 1 .. Len(s) + 1 : i = Len(s) + 1 \/ i \in 1 .. Len(s)
  BY <1>1
<1>3. Quiet(s) /\ x = Suppressed => Quiet(Append(s, x))
  BY <1>1, <1>2 DEF Quiet
<1>4. AllPending(s) /\ Pending(x) => AllPending(Append(s, x))
  BY <1>1, <1>2 DEF AllPending
<1>5. Len(Append(s, x)) - 1 = Len(s)
  BY <1>1
<1>6. Quiet(s) => \A i \in 1 .. Len(Append(s, x)) - 1 : Append(s, x)[i] = Suppressed
  BY <1>1, <1>5 DEF Quiet
<1>7. AllPending(s) => \A i \in 1 .. Len(Append(s, x)) - 1 : Pending(Append(s, x)[i])
  BY <1>1, <1>5 DEF AllPending
<1> QED
  BY <1>1, <1>3, <1>4, <1>6, <1>7

\* The queues are sequences of sequences.
LEMMA QueueTypes ==
  ASSUME Inv
  PROVE  /\ reqs \in Seq(Seq(Nat)) /\ resps \in Seq(Seq(Nat))
         /\ Len(reqs) \in Nat /\ Len(resps) \in Nat
         /\ attempts \in Nat /\ MaxPending \in Nat
BY Bounds DEF Inv, MsgInv, Requests, Responses, TypeOK

\* Initially the client and the ECU are in step.
LEMMA StepInit == Init => StepInv
BY ServicesAssumption DEF Init, StepInv, Quiet, Understood

\* A call that starts finds nothing of the one before.
LEMMA StartCallStep ==
  ASSUME Inv, StepInv, NEW c \in Calls, StartCall(c)
  PROVE  StepInv'
<1>1. disturbed \in Nat /\ disturbed' = disturbed /\ bus' = bus /\ resps' = resps /\ pc = "idle"
  BY DEF StepInv, StartCall
<1> SUFFICES ASSUME InStep'
             PROVE  /\ pc' = "idle" => resps' = <<>> /\ Quiet(reqs)' /\ Understood'
                    /\ pc' # "idle" => RequestSent'
                    /\ outcome' \notin {"UdsTimeoutError", "UdsProtocolError"}
  BY <1>1 DEF StepInv
<1>2. resps = <<>> /\ Quiet(reqs)
  BY <1>1, InStepBefore DEF StepInv
<1>3. PICK r : r = c.request
  OBVIOUS
<1>4. r \in Seq(Nat)
  BY <1>3, CallShape
<1>5. /\ call' = c /\ reqs' = Append(reqs, r) /\ attempts' = 0
      /\ \/ c = tester_present(TRUE) /\ pc' = "idle" /\ outcome' = "ok"
         \/ pc' = "recv" /\ outcome' = "none"
  BY <1>3 DEF StartCall, Send
<1>6. CASE c = tester_present(TRUE) /\ pc' = "idle" /\ outcome' = "ok"
  <2>1. r = Suppressed /\ c.op = "tester_present"
    BY <1>3, <1>6 DEF tester_present, Suppressed
  <2>2. Quiet(reqs')
    BY <1>2, <1>4, <1>5, <2>1, QueueTypes, QuietAppend
  <2> QED
    BY <1>1, <1>2, <1>5, <1>6, <2>1, <2>2 DEF Understood
<1>7. CASE pc' = "recv" /\ outcome' = "none"
  <2>1. /\ reqs' # <<>> /\ reqs'[Len(reqs')] = r
        /\ \A i \in 1 .. Len(reqs') - 1 : reqs'[i] = Suppressed
    BY <1>2, <1>4, <1>5, QueueTypes, QuietAppend
  <2>2. Wanted(r)'
    BY <1>3, <1>5, <1>7 DEF Wanted
  <2>3. AllPending(resps') /\ Len(resps') = 0
    BY <1>1, <1>2 DEF AllPending
  <2>4. RequestSent'
    BY <1>1, <1>3, <1>5, <1>7, <2>1, <2>3 DEF RequestSent, Wanted
  <2> QED
    BY <1>7, <2>4
<1> QED
  BY <1>5, <1>6, <1>7

\* A timeout in step means that something got lost.
LEMMA TimeoutStep ==
  ASSUME Inv, StepInv, Timeout
  PROVE  StepInv'
<1>1. /\ disturbed \in Nat /\ disturbed' = disturbed /\ bus' = bus /\ reqs' = reqs
      /\ resps = <<>> /\ resps' = resps /\ pc # "idle" /\ pc' = "idle"
      /\ outcome' = "UdsTimeoutError"
      /\ bus = "late" \/ reqs = <<>>
  BY DEF StepInv, Timeout, Finish
<1> SUFFICES ASSUME InStep'
             PROVE  Quiet(reqs)' /\ Understood' /\ bus # "clean"
  BY <1>1 DEF StepInv
<1>2. reqs = <<>>
  BY <1>1, InStepBefore
<1>3. bus # "clean"
  BY <1>1, <1>2, InStepBefore DEF StepInv, RequestSent, RequestLost, ResponseSent
<1>4. Quiet(reqs)'
  BY <1>1, <1>2 DEF Quiet
<1> QED
  BY <1>1, <1>3, <1>4 DEF Understood

\* A lost PDU leaves the call waiting for what does not come.
LEMMA LoseStep ==
  ASSUME Inv, StepInv, LosePdu
  PROVE  StepInv'
<1>1. /\ disturbed \in Nat /\ disturbed' = disturbed + 1 /\ bus' = bus
      /\ bus = "lossy" /\ UNCHANGED <<EcuFacts, pc, call, attempts, response, outcome>>
      /\ \/ reqs # <<>> /\ reqs' = Tail(reqs) /\ resps' = resps
         \/ resps # <<>> /\ resps' = Tail(resps) /\ reqs' = reqs
  BY DEF StepInv, LosePdu, Disturb, ecuVars, EcuFacts, callVars
<1> SUFFICES ASSUME InStep'
             PROVE  /\ pc' = "idle" => resps' = <<>> /\ Quiet(reqs)' /\ Understood'
                    /\ pc' # "idle" => RequestSent' \/ RequestLost' \/ ResponseSent'
  BY <1>1 DEF StepInv
<1>2. InStep
  BY <1>1, InStepBefore
<1>3. CASE pc = "idle"
  <2>1. resps = <<>> /\ Quiet(reqs) /\ Understood
    BY <1>2, <1>3 DEF StepInv
  <2>2. reqs # <<>> /\ reqs' = Tail(reqs) /\ resps' = resps
    BY <1>1, <2>1
  <2>3. Quiet(reqs')
    BY <2>1, <2>2, QueueTypes, QuietTail
  <2>4. ~ (outcome = "ok" /\ call.op # "tester_present")
    BY <2>1, <2>2 DEF Understood
  <2> QED
    BY <1>1, <1>3, <2>1, <2>2, <2>3, <2>4 DEF Understood
<1>4. CASE pc # "idle" /\ RequestSent
  <2>1. CASE reqs # <<>> /\ reqs' = Tail(reqs) /\ resps' = resps
    <3>1. CASE Len(reqs) = 1
      <4>1. reqs' = <<>>
        BY <2>1, <3>1, QueueTypes, QuietTail
      <4>2. Quiet(reqs')
        BY <4>1 DEF Quiet
      <4>3. RequestLost'
        BY <1>1, <1>4, <2>1, <4>2, QueueTypes DEF RequestSent, RequestLost
      <4> QED
        BY <1>1, <1>4, <4>3
    <3>2. CASE Len(reqs) # 1
      <4>1. /\ reqs' # <<>> /\ reqs'[Len(reqs')] = reqs[Len(reqs)]
            /\ \A i \in 1 .. Len(reqs') - 1 : reqs'[i] = Suppressed
        BY <1>4, <2>1, <3>2, QueueTypes, QuietTail DEF RequestSent
      <4>2. PICK req : req = reqs[Len(reqs)] /\ Wanted(req)
        BY <1>4 DEF RequestSent
      <4>3. Wanted(req)'
        BY <1>1, <4>2 DEF Wanted
      <4>4. /\ AllPending(resps)' /\ resps' = resps
            /\ attempts' + Len(resps') <= disturbed'
        BY <1>1, <1>4, <2>1, QueueTypes DEF RequestSent, AllPending
      <4>5. RequestSent'
        BY <4>1, <4>2, <4>3, <4>4 DEF RequestSent
      <4> QED
        BY <1>1, <1>4, <4>5
    <3> QED
      BY <3>1, <3>2
  <2>2. CASE resps # <<>> /\ resps' = Tail(resps) /\ reqs' = reqs
    <3>1. AllPending(resps') /\ Len(resps') = Len(resps) - 1
      BY <1>4, <2>2, QueueTypes, QuietTail DEF RequestSent
    <3>2. PICK req : req = reqs[Len(reqs)] /\ Wanted(req)
      BY <1>4 DEF RequestSent
    <3>3. Wanted(req)'
      BY <1>1, <3>2 DEF Wanted
    <3>4. attempts' + Len(resps') <= disturbed'
      BY <1>1, <1>4, <3>1, QueueTypes DEF RequestSent
    <3>5. RequestSent'
      BY <1>4, <2>2, <3>1, <3>2, <3>3, <3>4 DEF RequestSent
    <3> QED
      BY <1>1, <1>4, <3>5
  <2> QED
    BY <1>1, <2>1, <2>2
<1>5. CASE pc # "idle" /\ RequestLost
  <2>1. Quiet(reqs') /\ AllPending(resps') /\ Len(resps') \in Nat /\ Len(resps') <= Len(resps)
    <3>1. Quiet(reqs) /\ AllPending(resps)
      BY <1>5 DEF RequestLost
    <3>2. CASE reqs # <<>> /\ reqs' = Tail(reqs) /\ resps' = resps
      BY <3>1, <3>2, QueueTypes, QuietTail
    <3>3. CASE resps # <<>> /\ resps' = Tail(resps) /\ reqs' = reqs
      <4>1. Len(Tail(resps)) = Len(resps) - 1 /\ Len(resps) \in Nat \ {0}
        BY <3>3, QueueTypes, QuietTail
      <4>2. Len(resps') \in Nat /\ Len(resps') <= Len(resps)
        BY <3>3, <4>1
      <4> QED
        BY <3>1, <3>3, <4>2, QueueTypes, QuietTail
    <3> QED
      BY <1>1, <3>2, <3>3
  <2>2. RequestLost'
    BY <1>1, <1>5, <2>1, QueueTypes DEF RequestLost
  <2> QED
    BY <1>1, <1>5, <2>2
<1>6. CASE pc # "idle" /\ ResponseSent
  <2>1. reqs = <<>> /\ reqs' = reqs /\ resps # <<>> /\ resps' = Tail(resps)
    BY <1>1, <1>6 DEF ResponseSent
  <2>2. CASE Len(resps) = 1
    <3>1. resps' = <<>>
      BY <2>1, <2>2, QueueTypes, QuietTail
    <3>2. RequestLost'
      <4>1. Quiet(reqs)' /\ AllPending(resps)' /\ Len(resps') = 0
        <5>1. Len(<<>>) = 0 /\ ~ \E i \in 1 .. 0 : TRUE
          OBVIOUS
        <5>2. reqs' = <<>>
          BY <2>1
        <5>3. Quiet(reqs)'
          BY <5>1, <5>2 DEF Quiet
        <5>4. AllPending(resps)'
          BY <3>1, <5>1 DEF AllPending
        <5> QED
          BY <3>1, <5>1, <5>3, <5>4
      <4>2. attempts' <= disturbed'
        BY <1>1, <1>6, <2>2, QueueTypes DEF ResponseSent
      <4> QED
        BY <1>1, <4>1, <4>2, QueueTypes DEF RequestLost
    <3> QED
      BY <1>1, <1>6, <3>2
  <2>3. CASE Len(resps) # 1
    <3>1. PICK resp : resp = resps[Len(resps)] /\ RightResponse(resp)
      BY <1>6 DEF ResponseSent
    <3>2. /\ resps' # <<>> /\ resps'[Len(resps')] = resps[Len(resps)]
          /\ \A i \in 1 .. Len(resps') - 1 : Pending(resps'[i])
          /\ Len(resps') = Len(resps) - 1
      BY <1>6, <2>1, <2>3, QueueTypes, QuietTail DEF ResponseSent
    <3>3. RightResponse(resp)'
      BY <1>1, <3>1, AnsweredStable
    <3>4. ResponseSent'
      BY <1>1, <1>6, <2>1, <3>1, <3>2, <3>3, QueueTypes, SMTT(30) DEF ResponseSent
    <3> QED
      BY <1>1, <1>6, <3>4
  <2> QED
    BY <2>2, <2>3
<1> QED
  BY <1>2, <1>3, <1>4, <1>5, <1>6 DEF StepInv

\* What _request does with a response.
LEMMA RequestOutcome ==
  ASSUME _request, attempts \in Nat, MaxPending \in Nat, NEW resp, resp = Head(resps)
  PROVE  /\ Pending(resp) /\ attempts < MaxPending =>
              attempts' = attempts + 1 /\ UNCHANGED <<reqs, call, pc, response, outcome>>
         /\ Negative(resp) /\ ~ Pending(resp) =>
              Finish("UdsNrcError") /\ response' = response
         /\ ~ Negative(resp) =>
              response' = resp /\ (Expected(resp) => Proceed(resp))
<1>1. attempts < MaxPending => ~ attempts >= MaxPending
  OBVIOUS
<1>2. Pending(resp) => Negative(resp)
  BY DEF Pending
<1>3. \/ /\ Pending(resp) /\ attempts < MaxPending
         /\ attempts' = attempts + 1
         /\ UNCHANGED <<reqs, call, pc, response, outcome>>
      \/ /\ Negative(resp) /\ (Pending(resp) => attempts >= MaxPending)
         /\ Finish("UdsNrcError")
         /\ UNCHANGED response
      \/ /\ ~ Negative(resp)
         /\ response' = resp
         /\ \/ ~ Expected(resp) /\ Finish("UdsProtocolError")
            \/ Expected(resp) /\ Proceed(resp)
  BY DEF _request
<1> QED
  BY <1>1, <1>2, <1>3, Zenon

\* A right answer is one that the client takes for an answer.
LEMMA RightExpected ==
  ASSUME EcuTh!FullInv, call.op \in Ops, call.request \in Seq(Nat),
         Shape(call.op, call.request), NEW resp, Answered(resp)
  PROVE  Expected(resp) /\ ~ Negative(resp) /\ IsResponse(resp)
<1>1. PICK op \in Ops, req \in Seq(Nat) :
        op = call.op /\ req = call.request /\ RightAnswer(op, req, resp)
  BY DEF Answered
<1>2. Shape(op, req)
  BY <1>1
<1>3. IsResponse(resp) /\ resp[1] # 127
  BY <1>1, <1>2, RightAnswerType
<1>4. ~ Negative(resp)
  BY <1>3 DEF Negative
<1>5. resp # <<>> /\ Len(resp) \in Nat
  BY <1>3 DEF IsResponse
<1>6. op \notin {"change_session", "unlock", "read", "read_count", "read_by_status",
                 "read_all"} => Expected(resp)
  BY <1>1 DEF Expected
<1>9. \A m : DtcRecords(m) \in Seq(Nat)
  BY PartTypes
<1>11. CASE op = "change_session"
  <2>1. session.type \in Nat
    BY EcuTyped
  <2>2. resp = <<80, session.type>> \o TwoBytes(P2) \o TwoBytes(P2Star \div 10)
    BY <1>1, <1>11 DEF RightAnswer
  <2>3. PICK n \in Nat : n = session.type
    BY <2>1
  <2>5. PICK a, b, c, d \in Nat :
          /\ <<80, n>> \o TwoBytes(P2) \o TwoBytes(P2Star \div 10) = <<80, n, a, b, c, d>>
          /\ Word(a, b) = P2
          /\ Word(c, d) * 10 = P2Star
    BY SessionBytes, Zenon
  <2>6. resp = <<80, n, a, b, c, d>>
    BY <2>2, <2>3, <2>5, Zenon
  <2>4. Len(resp) = 6 /\ resp[1] = 80
    BY <2>6
  <2> QED
    BY <1>1, <1>3, <1>4, <1>5, <1>11, <2>4 DEF Expected
<1>12. CASE op = "unlock"
  <2>1. Len(resp) = 3 /\ resp[1] = 103
    BY <1>1, <1>12 DEF RightAnswer
  <2> QED
    BY <1>1, <1>3, <1>4, <1>5, <1>12, <2>1 DEF Expected
<1>13. CASE op = "read"
  <2>1. resp = <<98>> \o FlattenSeq(DidRecords(DidList(req)))
        /\ \A i \in DOMAIN DidList(req) : DidList(req)[i] \in Dids
    BY <1>1, <1>13 DEF RightAnswer
  <2>2. FlattenSeq(DidRecords(DidList(req))) \in Seq(Nat)
    BY <2>1, DidListType, PartTypes
  <2>3. \A s \in Seq(Nat) : (<<98>> \o s)[1] = 98
    OBVIOUS
  <2>4. resp[1] = 98
    BY <2>1, <2>2, <2>3
  <2> QED
    BY <1>1, <1>3, <1>4, <1>5, <1>13, <2>4 DEF Expected
<1>14. CASE op = "read_count"
  <2>1. resp = <<89, 1, 255, 1>> \o TwoBytes(Cardinality(Matching(req[3])))
    BY <1>1, <1>14 DEF RightAnswer
  <2>2. PICK n \in Nat : n = Cardinality(Matching(req[3]))
    BY PartTypes
  <2>5. PICK a \in Nat, b \in Nat :
          <<89, 1, 255, 1>> \o TwoBytes(n) = <<89, 1, 255, 1, a, b>>
    BY CountBytes, ZenonT(60)
  <2>4. resp = <<89, 1, 255, 1, a, b>>
    BY <2>1, <2>2, <2>5, Zenon
  <2>3. Len(resp) = 6 /\ resp[1] = 89 /\ resp[2] = 1
    BY <2>4
  <2> QED
    BY <1>1, <1>3, <1>4, <1>5, <1>14, <2>3 DEF Expected
<1>15. ASSUME NEW s \in Seq(Nat), NEW a \in Nat, NEW b \in Nat
       PROVE  /\ Len(<<89, a, b>> \o s) >= 3 /\ (<<89, a, b>> \o s)[1] = 89
              /\ (<<89, a, b>> \o s)[2] = a
  BY AfterThree
<1>16. CASE op = "read_by_status"
  <2>1. resp = <<89, 2, req[3]>> \o DtcRecords(Matching(req[3]))
    BY <1>1, <1>16 DEF RightAnswer
  <2>2. req[3] \in Nat
    BY <1>2, <1>16 DEF Shape
  <2>3. Len(resp) >= 3 /\ resp[1] = 89 /\ resp[2] = 2
    BY <1>9, <1>15, <2>1, <2>2
  <2> QED
    BY <1>1, <1>3, <1>4, <1>5, <1>16, <2>3 DEF Expected
<1>17. CASE op = "read_all"
  <2>1. resp = <<89, 10, 255>> \o DtcRecords(DOMAIN DtcCodes)
    BY <1>1, <1>17 DEF RightAnswer
  <2>2. Len(resp) >= 3 /\ resp[1] = 89 /\ resp[2] = 10
    BY <1>9, <1>15, <2>1
  <2> QED
    BY <1>1, <1>3, <1>4, <1>5, <1>17, <2>2 DEF Expected
<1> QED
  BY <1>3, <1>4, <1>6, <1>11, <1>12, <1>13, <1>14, <1>16, <1>17

\* A call that is answered rightly returns what is true, or asks for the key.
LEMMA AnswerTaken ==
  ASSUME Inv, disturbed \in Nat, pc = "recv", reqs = <<>>, resps' = <<>>,
         UNCHANGED <<ecuVars, disturbed, call>>,
         NEW resp, Answered(resp), response' = resp, Proceed(resp)
  PROVE  \/ pc' = "idle" /\ outcome' = "ok" /\ Quiet(reqs)' /\ Understood'
         \/ RequestSent'
<1>1. /\ call \in Calls /\ call.op \in Ops /\ call.request \in Seq(Nat)
      /\ Shape(call.op, call.request)
  BY CallInProgress
<1>2. Expected(resp) /\ ~ Negative(resp) /\ IsResponse(resp)
  BY <1>1, RightExpected DEF Inv
<1>3. UNCHANGED EcuFacts /\ UNCHANGED call
  BY DEF ecuVars, EcuFacts
<1>4. Answered(resp)'
  BY <1>3, AnsweredStable
<1>5. Len(<<>>) = 0 /\ 0 \in Nat
  OBVIOUS
<1> DEFINE seed == SubSeq(resp, 3, Len(resp))
           wants_key == call.op = "unlock" /\ pc = "recv" /\ \E i \in DOMAIN seed : seed[i] # 0
<1>6. CASE wants_key
  <2>1. /\ Send(<<39, call.request[2] + 1>> \o compute_key(seed), "key")
        /\ UNCHANGED <<call, outcome>>
    BY <1>6 DEF Proceed
  <2>2. PICK level \in Levels : call.request = <<39, level>>
    BY <1>1, <1>6 DEF Shape
  <2>3. call.request[2] = level
    BY <2>2
  <2>4. resp[1] = 103
    <3>1. resp # <<>>
      BY <1>2 DEF IsResponse
    <3> QED
      BY <1>2, <1>6, <3>1 DEF Expected
  <2>5. PICK req : req = <<39, level + 1>> \o compute_key(seed)
    OBVIOUS
  <2>6. PICK key \in Seeds : req = <<39, level + 1, key>>
    <3>1. \E i \in DOMAIN SubSeq(resp, 3, Len(resp)) : SubSeq(resp, 3, Len(resp))[i] # 0
      BY <1>6
    <3>2. \E key \in Seeds : <<39, level + 1>> \o compute_key(SubSeq(resp, 3, Len(resp)))
                               = <<39, level + 1, key>>
      BY <1>2, <2>4, <3>1, KeyRequest
    <3> QED
      BY <2>5, <3>2
  <2>7. reqs' = Append(<<>>, req) /\ pc' = "key" /\ attempts' = 0
    BY <2>1, <2>3, <2>5 DEF Send
  <2>8. Append(<<>>, req) = <<req>>
    OBVIOUS
  <2>9. reqs' # <<>> /\ Len(reqs') = 1 /\ reqs'[Len(reqs')] = req
    BY <2>7, <2>8
  <2>10. Wanted(req)'
    BY <2>3, <2>6, <2>7 DEF Wanted
  <2>11. AllPending(resps)' /\ Len(resps') = 0
    BY <1>5 DEF AllPending
  <2>12. attempts' + Len(resps') <= disturbed'
    BY <2>7, <2>11
  <2>13. \A i \in 1 .. Len(reqs') - 1 : reqs'[i] = Suppressed
    BY <2>9
  <2> QED
    BY <2>9, <2>10, <2>11, <2>12, <2>13 DEF RequestSent
<1>7. CASE ~ wants_key
  <2>1. Finish("ok")
    BY <1>7 DEF Proceed
  <2>2. pc' = "idle" /\ outcome' = "ok" /\ reqs' = <<>> /\ call' = call
    BY <2>1 DEF Finish
  <2>3. Quiet(reqs)'
    BY <1>5, <2>2 DEF Quiet
  <2>4. Answered(response)'
    BY <1>4 DEF Answered
  <2>5. ASSUME call.op = "unlock"
        PROVE  \/ sec.unlocked_level = call.request[2]
               \/ sec.seed_valid /\ sec.seed = 0
    <3>1. PICK op \in Ops, req \in Seq(Nat) :
            op = call.op /\ req = call.request /\ RightAnswer(op, req, resp)
      BY DEF Answered
    <3>2. PICK s \in Seeds :
            /\ resp = <<103, req[2], s>>
            /\ \/ sec.unlocked_level = req[2] /\ s = 0
               \/ sec.seed_valid /\ sec.seed = s
      BY <2>5, <3>1 DEF RightAnswer
    <3>3. s = 0
      <4>1. Len(resp) = 3 /\ resp[3] = s /\ resp \in Seq(Nat)
        BY <1>2, <3>2 DEF IsResponse
      <4>2. seed = <<s>>
        BY <4>1, ThirdByte
      <4>3. 1 \in DOMAIN <<s>> /\ <<s>>[1] = s
        OBVIOUS
      <4>4. ~ \E i \in DOMAIN seed : seed[i] # 0
        BY <1>7, <2>5
      <4> QED
        BY <4>2, <4>3, <4>4
    <3> QED
      BY <3>1, <3>2, <3>3
  <2>6. UNCHANGED sec
    BY <1>3 DEF EcuFacts
  <2>7. Understood'
    BY <2>2, <2>4, <2>5, <2>6 DEF Understood
  <2> QED
    BY <2>2, <2>3, <2>7
<1> QED
  BY <1>6, <1>7

\* A response taken in step is a RESPONSE_PENDING that the client can afford or
\* the response to the request.
LEMMA RequestStep ==
  ASSUME Inv, StepInv, _request
  PROVE  StepInv'
<1>1. /\ disturbed \in Nat /\ disturbed' = disturbed /\ bus' = bus
      /\ UNCHANGED ecuVars /\ pc # "idle" /\ resps # <<>> /\ resps' = Tail(resps)
      /\ call' = call
  BY DEF StepInv, _request, Finish, Proceed
<1> SUFFICES ASSUME InStep'
             PROVE  /\ pc' = "idle" => resps' = <<>> /\ Quiet(reqs)' /\ Understood'
                    /\ pc' # "idle" => RequestSent' \/ RequestLost' \/ ResponseSent'
                    /\ bus = "clean" => outcome' \notin {"UdsTimeoutError", "UdsProtocolError"}
  BY <1>1 DEF StepInv
<1>2. InStep /\ disturbed <= MaxPending
  BY <1>1, InStepBefore
<1>3. /\ RequestSent \/ RequestLost \/ ResponseSent
      /\ bus = "clean" => outcome \notin {"UdsTimeoutError", "UdsProtocolError"}
  BY <1>1, <1>2 DEF StepInv
<1>4. PICK resp : resp = Head(resps)
  OBVIOUS
<1>5. UNCHANGED EcuFacts
  BY <1>1 DEF ecuVars, EcuFacts
<1>6. /\ Len(resps) \in Nat \ {0} /\ Len(resps') = Len(resps) - 1
      /\ attempts \in Nat /\ MaxPending \in Nat
  BY <1>1, QueueTypes, QuietTail
<1>7. ASSUME Pending(resp), attempts + Len(resps) - 1 < MaxPending
      PROVE  attempts' = attempts + 1 /\ UNCHANGED <<reqs, call, pc, response, outcome>>
  <2>1. attempts < MaxPending
    BY <1>6, <1>7
  <2> QED
    BY <1>4, <1>6, <1>7, <2>1, RequestOutcome
<1>8. CASE RequestSent
  <2>1. /\ AllPending(resps) /\ attempts + Len(resps) <= disturbed
        /\ Pending(resp) /\ AllPending(resps')
    BY <1>1, <1>4, <1>8, QueueTypes, QuietTail DEF RequestSent
  <2>2. attempts' = attempts + 1 /\ UNCHANGED <<reqs, call, pc, response, outcome>>
    BY <1>1, <1>2, <1>6, <1>7, <2>1
  <2>3. PICK req : req = reqs[Len(reqs)] /\ Wanted(req)
    BY <1>8 DEF RequestSent
  <2>4. Wanted(req)'
    BY <2>2, <2>3 DEF Wanted
  <2>5. attempts' + Len(resps') <= disturbed'
    BY <1>1, <1>6, <2>1, <2>2
  <2>6. AllPending(resps)'
    BY <2>1 DEF AllPending
  <2>7. RequestSent'
    BY <1>8, <2>2, <2>3, <2>4, <2>5, <2>6 DEF RequestSent
  <2> QED
    BY <1>1, <1>3, <2>2, <2>7
<1>9. CASE RequestLost
  <2>1. /\ AllPending(resps) /\ attempts + Len(resps) <= disturbed
        /\ Pending(resp) /\ AllPending(resps')
    BY <1>1, <1>4, <1>9, QueueTypes, QuietTail DEF RequestLost
  <2>2. attempts' = attempts + 1 /\ UNCHANGED <<reqs, call, pc, response, outcome>>
    BY <1>1, <1>2, <1>6, <1>7, <2>1
  <2>3. attempts' + Len(resps') <= disturbed'
    BY <1>1, <1>6, <2>1, <2>2
  <2>4. AllPending(resps)' /\ Quiet(reqs)'
    BY <1>9, <2>1, <2>2 DEF AllPending, Quiet, RequestLost
  <2>5. RequestLost'
    BY <1>1, <1>9, <2>3, <2>4 DEF RequestLost
  <2> QED
    BY <1>1, <1>3, <2>2, <2>5
<1>10. CASE ResponseSent /\ Len(resps) # 1
  <2>1. PICK last : last = resps[Len(resps)] /\ RightResponse(last)
    BY <1>10 DEF ResponseSent
  <2>2. /\ resps' # <<>> /\ resps'[Len(resps')] = resps[Len(resps)]
        /\ \A i \in 1 .. Len(resps') - 1 : Pending(resps'[i])
        /\ Pending(resp)
    BY <1>1, <1>4, <1>10, QueueTypes, QuietTail DEF ResponseSent
  <2>3. attempts + Len(resps) - 1 <= disturbed /\ reqs = <<>>
    BY <1>10 DEF ResponseSent
  <2>4. attempts < MaxPending
    BY <1>1, <1>2, <1>6, <1>10, <2>3
  <2>5. attempts' = attempts + 1 /\ UNCHANGED <<reqs, call, pc, response, outcome>>
    BY <1>4, <1>6, <2>2, <2>4, RequestOutcome
  <2>6. RightResponse(last)'
    BY <1>5, <2>1, <2>5, AnsweredStable
  <2>7. attempts' + Len(resps') - 1 <= disturbed'
    BY <1>1, <1>6, <2>3, <2>5
  <2>8. ResponseSent'
    BY <2>1, <2>2, <2>3, <2>5, <2>6, <2>7 DEF ResponseSent
  <2> QED
    BY <1>1, <1>3, <2>5, <2>8
<1>11. CASE ResponseSent /\ Len(resps) = 1
  <2>1. resps' = <<>> /\ reqs = <<>> /\ RightResponse(resp)
    <3>1. resps' = <<>> /\ resp = resps[Len(resps)]
      BY <1>1, <1>4, <1>11, QueueTypes, QuietTail
    <3> QED
      BY <1>11, <3>1 DEF ResponseSent
  <2>2. Len(<<>>) = 0
    OBVIOUS
  <2>3. CASE Negative(resp) /\ ~ Pending(resp)
    <3>1. pc' = "idle" /\ outcome' = "UdsNrcError" /\ reqs' = reqs
      BY <1>4, <1>6, <2>3, RequestOutcome DEF Finish
    <3>2. Quiet(reqs)'
      BY <2>1, <2>2, <3>1 DEF Quiet
    <3> QED
      BY <2>1, <3>1, <3>2 DEF Understood
  <2>4. CASE pc = "recv" /\ Answered(resp)
    <3>1. Expected(resp) /\ ~ Negative(resp)
      BY <1>1, <2>4, CallInProgress, RightExpected DEF Inv
    <3>2. response' = resp /\ Proceed(resp)
      BY <1>4, <1>6, <3>1, RequestOutcome
    <3>3. \/ pc' = "idle" /\ outcome' = "ok" /\ Quiet(reqs)' /\ Understood'
          \/ RequestSent'
      BY <1>1, <2>1, <2>4, <3>2, AnswerTaken
    <3>4. CASE pc' = "idle" /\ outcome' = "ok" /\ Quiet(reqs)' /\ Understood'
      BY <2>1, <3>4
    <3>5. CASE RequestSent'
      <4>1. pc' # "idle"
        BY <3>5 DEF RequestSent, Wanted
      <4>2. outcome' \in {"ok", "none"}
        <5>1. outcome = "none"
          BY <1>1 DEF Inv, MsgInv, TypeOK
        <5> QED
          BY <3>2, <5>1 DEF Proceed, Finish
      <4> QED
        BY <3>5, <4>1, <4>2
    <3> QED
      BY <3>3, <3>4, <3>5
  <2>5. CASE /\ pc = "key"
             /\ resp = <<103, call.request[2] + 1>>
             /\ sec.unlocked_level = call.request[2]
    <3>1. Len(resp) = 2 /\ resp[1] = 103 /\ resp # <<>>
      BY <2>5
    <3>2. ~ Negative(resp) /\ call.op = "unlock"
      BY <1>1, <2>5, <3>1, CallInProgress DEF Negative
    <3>3. Expected(resp)
      BY <3>1, <3>2 DEF Expected
    <3>4. Proceed(resp)
      BY <1>4, <1>6, <3>2, <3>3, RequestOutcome
    <3>5. Finish("ok")
      BY <2>5, <3>4 DEF Proceed
    <3>6. pc' = "idle" /\ outcome' = "ok" /\ reqs' = <<>>
      BY <2>1, <3>5 DEF Finish
    <3>7. Quiet(reqs)'
      BY <2>2, <3>6 DEF Quiet
    <3>8. Understood'
      BY <1>1, <1>5, <2>5, <3>2, <3>6 DEF Understood, EcuFacts
    <3> QED
      BY <2>1, <3>6, <3>7, <3>8
  <2> QED
    BY <2>1, <2>3, <2>4, <2>5 DEF RightResponse
<1> QED
  BY <1>3, <1>8, <1>9, <1>10, <1>11

\* What is asked for without an answer gets none.
LEMMA SuppressedServed ==
  ASSUME ecusim_dispatch(Suppressed)
  PROVE  ecuReply' = Ecu!NoReply
<1>1. PICK req : req = Suppressed
  OBVIOUS
<1>2. req \in Seq(Nat) /\ Shape("tester_present", req) /\ "tester_present" \in Ops
  BY <1>1 DEF Suppressed, Shape, Ops
<1>3. Serve("tester_present", req)
  BY <1>1, <1>2, DispatchCall
<1>4. Ecu!uds_core_tester_present(TRUE, req = <<62, 128>>)
  BY <1>3 DEF Serve
<1>5. (req = <<62, 128>>) = TRUE
  BY <1>1 DEF Suppressed
<1>6. Ecu!uds_core_tester_present(TRUE, TRUE)
  BY <1>4, <1>5
<1> QED
  BY <1>6 DEF Ecu!uds_core_tester_present

\* A suppressed request leaves the responses alone.
LEMMA SuppressedRun ==
  ASSUME ecusim_run, Head(reqs) = Suppressed
  PROVE  resps' = resps
<1>1. ecuReply' = Ecu!NoReply
  BY SuppressedServed DEF ecusim_run
<1>2. Head(reqs)[1] = 62
  BY DEF Suppressed
<1>3. PICK answer : answer = IF Head(reqs)[1] = 39 THEN secReply' ELSE ecuReply'
  OBVIOUS
<1>4. answer = Ecu!NoReply
  BY <1>1, <1>2, <1>3
<1>5. resps' = CASE answer = Ecu!NoReply -> resps
                 [] answer = Ecu!Positive -> Append(resps, PositiveResponse(Head(reqs)))
                 [] OTHER -> Append(resps, build_nrc(Head(reqs)[1], answer))
  BY <1>3 DEF ecusim_run
<1> QED
  BY <1>4, <1>5, Replies

\* The request waited for is answered rightly, or refused.
LEMMA WantedRun ==
  ASSUME Inv, Inv', pc # "idle", ecusim_run, NEW req, req = Head(reqs), Wanted(req)
  PROVE  \E resp \in Seq(Nat) : resps' = Append(resps, resp) /\ RightResponse(resp)'
<1>1. PICK answer : answer = IF req[1] = 39 THEN secReply' ELSE ecuReply'
  OBVIOUS
<1>2. PICK pos : pos = PositiveResponse(req)
  OBVIOUS
<1>3. ecusim_dispatch(req) /\ call' = call /\ pc' = pc
  BY DEF ecusim_run, callVars
<1>4. resps' = CASE answer = Ecu!NoReply -> resps
                 [] answer = Ecu!Positive -> Append(resps, pos)
                 [] OTHER -> Append(resps, build_nrc(req[1], answer))
  BY <1>1, <1>2 DEF ecusim_run
<1>5. EcuTh!FullInv /\ EcuTh!FullInv'
  BY DEF Inv
<1>6. /\ pc \in {"recv", "key"} /\ call.op \in Ops /\ call.request \in Seq(Nat)
      /\ Shape(call.op, call.request) /\ call.request # Suppressed
      /\ pc = "key" => call.op = "unlock"
  BY CallInProgress
<1>7. ASSUME req[1] \in Nat, AnswerKnown(answer, req), req # Suppressed,
             answer = Ecu!Positive => pos \in Seq(Nat) /\ RightResponse(pos)'
      PROVE  \E resp \in Seq(Nat) : resps' = Append(resps, resp) /\ RightResponse(resp)'
  <2>1. CASE answer = Ecu!Positive
    BY <1>4, <1>7, <2>1, Replies
  <2>2. CASE answer \in DOMAIN NrcByte
    <3>1. PICK resp : resp = build_nrc(req[1], answer)
      OBVIOUS
    <3>2. IsResponse(resp) /\ Negative(resp) /\ ~ Pending(resp)
      BY <1>7, <2>2, <3>1, NrcResponse
    <3>3. RightResponse(resp)'
      BY <3>2 DEF RightResponse, Negative, Pending
    <3>4. resps' = Append(resps, resp)
      BY <1>4, <2>2, <3>1, Replies
    <3> QED
      BY <3>2, <3>3, <3>4 DEF IsResponse
  <2>3. answer # Ecu!NoReply
    BY <1>7 DEF AnswerKnown, Suppressed
  <2> QED
    BY <1>7, <2>1, <2>2, <2>3 DEF AnswerKnown
<1>8. CASE pc = "recv" /\ req = call.request
  <2>1. PICK op \in Ops, r \in Seq(Nat) :
          op = call.op /\ r = req /\ r = call.request /\ Shape(op, r)
    BY <1>6, <1>8
  <2>2. /\ AnswerKnown(answer, req)
        /\ answer = Ecu!Positive => RightAnswer(op, r, pos)'
    BY <1>1, <1>2, <1>3, <1>5, <2>1, CallServed
  <2>3. req[1] \in Nat
    BY <2>1 DEF Shape, Ops
  <2>4. ASSUME answer = Ecu!Positive PROVE pos \in Seq(Nat) /\ RightResponse(pos)'
    <3>1. pos \in Seq(Nat)
      BY <1>5, <2>1, <2>2, <2>4, RightAnswerTypeNext DEF IsResponse
    <3>2. op = call'.op /\ r = call'.request /\ RightAnswer(op, r, pos)'
      BY <1>3, <2>1, <2>2, <2>4
    <3>3. Answered(pos)'
      BY <3>2 DEF Answered
    <3> QED
      BY <1>3, <1>8, <3>1, <3>3 DEF RightResponse
  <2> QED
    BY <1>6, <1>7, <1>8, <2>2, <2>3, <2>4
<1>9. CASE pc = "key" /\ \E key \in Seeds : req = <<39, call.request[2] + 1, key>>
  <2>1. PICK level \in Levels : call.request = <<39, level>>
    BY <1>6, <1>9 DEF Shape
  <2>2. call.request[2] = level
    BY <2>1
  <2>3. PICK key \in Seeds : req = <<39, level + 1, key>>
    BY <1>9, <2>2
  <2>4. req[1] = 39 /\ req # Suppressed /\ answer = secReply'
    <3>1. req[1] = 39 /\ Suppressed[1] = 62
      BY <2>3 DEF Suppressed
    <3> QED
      BY <1>1, <3>1
  <2>5. /\ AnswerKnown(answer, req)
        /\ answer = Ecu!Positive =>
             pos = <<103, level + 1>> /\ sec'.unlocked_level = level
    BY <1>2, <1>3, <1>5, <2>3, <2>4, KeyServed
  <2>6. ASSUME answer = Ecu!Positive PROVE pos \in Seq(Nat) /\ RightResponse(pos)'
    <3>1. level + 1 \in Nat
      BY LevelsOdd
    <3>2. pos \in Seq(Nat)
      <4>1. PICK n \in Nat : n = level + 1
        BY <3>1
      <4>2. pos = <<103, n>>
        BY <2>5, <2>6, <4>1
      <4> QED
        BY <4>2
    <3>3. pos = <<103, call'.request[2] + 1>> /\ sec'.unlocked_level = call'.request[2]
      BY <1>3, <2>2, <2>5, <2>6
    <3> QED
      BY <1>3, <1>9, <3>2, <3>3 DEF RightResponse
  <2> QED
    BY <1>7, <2>4, <2>5, <2>6
<1> QED
  BY <1>8, <1>9 DEF Wanted

\* The ECU answers the request waited for, and no other.
LEMMA RunStep ==
  ASSUME Inv, Inv', StepInv, ecusim_run
  PROVE  StepInv'
<1>1. /\ disturbed \in Nat /\ disturbed' = disturbed /\ bus' = bus
      /\ reqs # <<>> /\ reqs' = Tail(reqs)
      /\ UNCHANGED <<call, pc, attempts, response, outcome>>
  BY DEF StepInv, ecusim_run, callVars
<1> SUFFICES ASSUME InStep'
             PROVE  /\ pc' = "idle" => resps' = <<>> /\ Quiet(reqs)' /\ Understood'
                    /\ pc' # "idle" => RequestSent' \/ RequestLost' \/ ResponseSent'
                    /\ bus = "clean" => outcome' \notin {"UdsTimeoutError", "UdsProtocolError"}
  BY <1>1 DEF StepInv
<1>2. InStep
  BY <1>1, InStepBefore
<1>3. bus = "clean" => outcome' \notin {"UdsTimeoutError", "UdsProtocolError"}
  BY <1>1, <1>2 DEF StepInv
<1>4. CASE pc = "idle"
  <2>1. resps = <<>> /\ Quiet(reqs) /\ Understood
    BY <1>2, <1>4 DEF StepInv
  <2>2. Head(reqs) = Suppressed /\ Quiet(reqs')
    BY <1>1, <2>1, QueueTypes, QuietTail
  <2>3. resps' = <<>>
    BY <2>1, <2>2, SuppressedRun
  <2>4. ~ (outcome = "ok" /\ call.op # "tester_present")
    BY <1>1, <2>1 DEF Understood
  <2>5. Understood'
    BY <1>1, <2>4 DEF Understood
  <2> QED
    BY <1>1, <1>3, <1>4, <2>2, <2>3, <2>5
<1>5. CASE pc # "idle" /\ RequestSent
  <2>1. PICK req : req = reqs[Len(reqs)] /\ Wanted(req)
    BY <1>5 DEF RequestSent
  <2>2. CASE Len(reqs) = 1
    <3>1. reqs' = <<>> /\ req = Head(reqs)
      BY <1>1, <2>1, <2>2, QueueTypes, QuietTail
    <3>2. PICK resp \in Seq(Nat) : resps' = Append(resps, resp) /\ RightResponse(resp)'
      BY <1>5, <2>1, <3>1, WantedRun
    <3>3. AllPending(resps)
      BY <1>5 DEF RequestSent
    <3>4. /\ resps' # <<>> /\ resps'[Len(resps')] = resp
          /\ \A i \in 1 .. Len(resps') - 1 : Pending(resps'[i])
          /\ Len(resps') = Len(resps) + 1
      BY <3>2, <3>3, QueueTypes, QuietAppend
    <3>5. attempts' + Len(resps') - 1 <= disturbed'
      <4>1. attempts + Len(resps) <= disturbed
        BY <1>5 DEF RequestSent
      <4> QED
        BY <1>1, <3>4, <4>1, QueueTypes
    <3>6. ResponseSent'
      BY <3>1, <3>2, <3>4, <3>5 DEF ResponseSent
    <3> QED
      BY <1>1, <1>3, <1>5, <3>6
  <2>3. CASE Len(reqs) # 1
    <3>1. /\ reqs' # <<>> /\ reqs'[Len(reqs')] = reqs[Len(reqs)]
          /\ Head(reqs) = Suppressed
          /\ \A i \in 1 .. Len(reqs') - 1 : reqs'[i] = Suppressed
      BY <1>1, <1>5, <2>3, QueueTypes, QuietTail DEF RequestSent
    <3>2. resps' = resps
      BY <3>1, SuppressedRun
    <3>3. Wanted(req)'
      BY <1>1, <2>1 DEF Wanted
    <3>4. AllPending(resps)'
      BY <1>5, <3>2 DEF RequestSent, AllPending
    <3>5. RequestSent'
      BY <1>1, <1>5, <2>1, <3>1, <3>2, <3>3, <3>4 DEF RequestSent
    <3> QED
      BY <1>1, <1>3, <1>5, <3>5
  <2> QED
    BY <2>2, <2>3
<1>6. CASE pc # "idle" /\ RequestLost
  <2>1. Head(reqs) = Suppressed /\ Quiet(reqs')
    BY <1>1, <1>6, QueueTypes, QuietTail DEF RequestLost
  <2>2. resps' = resps
    BY <2>1, SuppressedRun
  <2>3. AllPending(resps)'
    BY <1>6, <2>2 DEF RequestLost, AllPending
  <2>4. RequestLost'
    BY <1>1, <1>6, <2>1, <2>2, <2>3 DEF RequestLost
  <2> QED
    BY <1>1, <1>3, <1>6, <2>4
<1>7. ~ ResponseSent
  BY <1>1 DEF ResponseSent
<1> QED
  BY <1>2, <1>4, <1>5, <1>6, <1>7 DEF StepInv

\* A RESPONSE_PENDING answer comes before the response.
LEMMA PendingStep ==
  ASSUME Inv, StepInv, ResponsePending
  PROVE  StepInv'
<1>1. PICK resp : resp = <<127, Head(reqs)[1], 120>>
  OBVIOUS
<1>2. /\ disturbed \in Nat /\ disturbed' = disturbed + 1 /\ bus' = bus
      /\ pc # "idle" /\ reqs # <<>> /\ resps' = Append(resps, resp)
      /\ reqs' = reqs /\ UNCHANGED <<call, pc, attempts, response, outcome>>
  BY <1>1 DEF StepInv, ResponsePending, Disturb, callVars
<1> SUFFICES ASSUME InStep'
             PROVE  /\ RequestSent' \/ RequestLost'
                    /\ bus = "clean" => outcome' \notin {"UdsTimeoutError", "UdsProtocolError"}
  BY <1>2 DEF StepInv
<1>3. InStep
  BY <1>2, InStepBefore
<1>4. bus = "clean" => outcome' \notin {"UdsTimeoutError", "UdsProtocolError"}
  BY <1>2, <1>3 DEF StepInv
<1>5. resp \in Seq(Nat) /\ Pending(resp)
  <2>1. PICK req : req = Head(reqs)
    OBVIOUS
  <2>2. WellFormed(req)
    BY <1>2, <2>1, RequestsKept DEF Inv, MsgInv
  <2>3. req[1] \in Nat
    <3>1. CASE \E op \in Ops : req \in Seq(Nat) /\ Shape(op, req)
      BY <3>1 DEF Shape, Ops
    <3>2. CASE \E level \in Levels, key \in Seeds : req = <<39, level + 1, key>>
      BY <3>2
    <3> QED
      BY <2>2, <3>1, <3>2 DEF WellFormed
  <2> QED
    BY <1>1, <2>1, <2>3 DEF Pending, Negative
<1>6. /\ AllPending(resps) => AllPending(resps')
      /\ Len(resps') = Len(resps) + 1 /\ Len(resps) \in Nat /\ attempts \in Nat
  BY <1>2, <1>5, QueueTypes, QuietAppend
<1>7. CASE RequestSent
  <2>1. PICK req : req = reqs[Len(reqs)] /\ Wanted(req)
    BY <1>7 DEF RequestSent
  <2>2. Wanted(req)'
    BY <1>2, <2>1 DEF Wanted
  <2>3. AllPending(resps)'
    BY <1>6, <1>7 DEF RequestSent, AllPending
  <2>4. attempts' + Len(resps') <= disturbed'
    BY <1>2, <1>6, <1>7 DEF RequestSent
  <2>5. RequestSent'
    BY <1>2, <1>7, <2>1, <2>2, <2>3, <2>4 DEF RequestSent
  <2> QED
    BY <1>4, <2>5
<1>8. CASE RequestLost
  <2>1. AllPending(resps)' /\ Quiet(reqs)'
    BY <1>2, <1>6, <1>8 DEF RequestLost, AllPending, Quiet
  <2>2. attempts' + Len(resps') <= disturbed'
    BY <1>2, <1>6, <1>8 DEF RequestLost
  <2>3. RequestLost'
    BY <1>2, <1>8, <2>1, <2>2 DEF RequestLost
  <2> QED
    BY <1>4, <2>3
<1>9. ~ ResponseSent
  BY <1>2 DEF ResponseSent
<1> QED
  BY <1>2, <1>3, <1>7, <1>8, <1>9 DEF StepInv

\* Nothing changes while nothing happens.
LEMMA StutterStep ==
  ASSUME StepInv, UNCHANGED vars
  PROVE  StepInv'
<1>1. /\ UNCHANGED EcuFacts
      /\ UNCHANGED <<reqs, resps, bus, disturbed, call, pc, attempts, response, outcome>>
  BY DEF vars, ecuVars, callVars, EcuFacts
<1>2. disturbed \in Nat
  BY DEF StepInv
<1> SUFFICES ASSUME InStep'
             PROVE  /\ pc' = "idle" => resps' = <<>> /\ Quiet(reqs)' /\ Understood'
                    /\ pc' # "idle" => RequestSent' \/ RequestLost' \/ ResponseSent'
                    /\ bus = "clean" => outcome' \notin {"UdsTimeoutError", "UdsProtocolError"}
  BY <1>1, <1>2 DEF StepInv
<1>3. InStep
  BY <1>1, <1>2, InStepBefore
<1>4. /\ Quiet(reqs) => Quiet(reqs)'
      /\ AllPending(resps) => AllPending(resps)'
  BY <1>1 DEF Quiet, AllPending
<1>5. Understood => Understood'
  BY <1>1, AnsweredStable DEF Understood, EcuFacts
<1>6. ASSUME RequestSent PROVE RequestSent'
  <2>1. PICK req : req = reqs[Len(reqs)] /\ Wanted(req)
    BY <1>6 DEF RequestSent
  <2>2. Wanted(req)'
    BY <1>1, <2>1 DEF Wanted
  <2> QED
    BY <1>1, <1>4, <1>6, <2>1, <2>2 DEF RequestSent
<1>7. RequestLost => RequestLost'
  BY <1>1, <1>4 DEF RequestLost
<1>8. ASSUME ResponseSent PROVE ResponseSent'
  <2>1. PICK resp : resp = resps[Len(resps)] /\ RightResponse(resp)
    BY <1>8 DEF ResponseSent
  <2>2. RightResponse(resp)'
    BY <1>1, <2>1, AnsweredStable
  <2> QED
    BY <1>1, <1>8, <2>1, <2>2 DEF ResponseSent
<1> QED
  BY <1>1, <1>3, <1>4, <1>5, <1>6, <1>7, <1>8 DEF StepInv

\* The client and the ECU stay in step.
LEMMA StepNext ==
  ASSUME Inv, Inv', StepInv, [Next]_vars
  PROVE  StepInv'
BY StartCallStep, RequestStep, TimeoutStep, RunStep, LoseStep, PendingStep, StutterStep
   DEF Next

\* So they always are, while nothing has disturbed them too often.
LEMMA AlwaysInStep == Spec => []StepInv
BY Inductive, StepInit, StepNext, PTL DEF Spec

\* On a clean bus no call waits in vain or meets a response it does not
\* understand, however many other calls came before: _request never takes a
\* response that belongs to another call for its own.
THEOREM CleanCallsUnderstood == Spec => []CleanCallUnderstood
<1>1. StepInv => CleanCallUnderstood
  BY DEF StepInv, CleanCallUnderstood
<1> QED
  BY <1>1, AlwaysInStep, PTL

\* When unlock() returns True, the ECU has granted the level asked for, or has
\* drawn a seed of zeros.
THEOREM UnlocksGranted == Spec => []UnlockOk
<1>1. Inv /\ StepInv => UnlockOk
  <2> SUFFICES ASSUME Inv, StepInv, Returned("unlock"), InStep
               PROVE  \/ sec.unlocked_level = call.request[2]
                      \/ sec.seed_valid /\ sec.seed = 0
    BY DEF UnlockOk
  <2>1. pc = "idle" /\ outcome = "ok" /\ call.op = "unlock"
    BY DEF Returned, Inv, MsgInv, TypeOK
  <2> QED
    BY <2>1 DEF StepInv, Understood
<1> QED
  BY <1>1, Inductive, AlwaysInStep, PTL

----------------------------------------------------------------------------
(* What the calls return *)

\* The trouble codes that a call returns are those in the ECU's response.
LEMMA CodesParsed ==
  ASSUME EcuTh!FullInv, NEW codes, codes \subseteq DOMAIN DtcCodes
  PROVE  Elements(_parse_dtc_records(DtcRecords(codes))) = CodesWithStatus(DtcCodes, dtc, codes)
<1>1. DtcCodes \in Seq(Nat \X Nat \X Nat)
  BY EcuAssumption DEF Ecu!ServerAssumption
<1>2. PICK n \in Nat : n = Len(DtcCodes) /\ DOMAIN DtcCodes = 1 .. n
  BY <1>1
<1>3. PICK codeOf : codeOf = DtcCodes
  OBVIOUS
<1>4. PICK statusOf : statusOf = dtc
  OBVIOUS
<1>5. codeOf \in [1 .. n -> Nat \X Nat \X Nat] /\ codes \subseteq 1 .. n
  BY <1>1, <1>2, <1>3
<1>6. statusOf \in [1 .. n -> Nat]
  BY <1>2, <1>4, EcuTyped
<1>7. DtcRecords(codes) = FlattenSeq(RecordsOf(n, codeOf, statusOf, codes))
  BY <1>2, <1>3, <1>4 DEF DtcRecords, RecordsOf
<1>8. Elements(_parse_dtc_records(FlattenSeq(RecordsOf(n, codeOf, statusOf, codes))))
        = CodesWithStatus(codeOf, statusOf, codes)
  BY <1>5, <1>6, RecordsParsed
<1> QED
  BY <1>3, <1>4, <1>7, <1>8

\* What is true of a response is true of what the call returns.
LEMMA AnswerReports ==
  ASSUME Inv, StepInv, InStep, NEW op \in Ops \ {"tester_present", "unlock"}, Returned(op)
  PROVE  \E req \in Seq(Nat) :
           req = call.request /\ call.op = op /\ Shape(op, req) /\ RightAnswer(op, req, response)
<1>1. /\ outcome = "ok" /\ call.op = op /\ op # "tester_present" /\ op # "unlock"
      /\ pc = "idle"
  BY DEF Returned, Inv, MsgInv, TypeOK
<1>2. Answered(response)
  BY <1>1 DEF StepInv, Understood
<1>3. PICK o \in Ops, req \in Seq(Nat), r \in {response} :
        o = call.op /\ req = call.request /\ r = response /\ RightAnswer(o, req, r)
  BY <1>2 DEF Answered
<1>4. call \in Calls
  <2>1. call # NoCall
    <3>1. NoCall.op = "none"
      BY DEF NoCall
    <3>2. "none" \notin Ops
      BY DEF Ops
    <3> QED
      BY <1>1, <3>1, <3>2
  <2> QED
    BY <2>1 DEF Inv, MsgInv
<1>5. Shape(op, req)
  <2>1. PICK c \in Calls : c = call
    BY <1>4
  <2>2. c.op = op /\ req = c.request
    BY <1>1, <1>3, <2>1
  <2>3. Shape(c.op, req)
    BY <2>2, CallShape
  <2> QED
    BY <2>2, <2>3
<1> QED
  BY <1>1, <1>3, <1>5

\* The calls other than read() and unlock() return what is true of the ECU.
LEMMA ReportsFromStep ==
  ASSUME Inv, StepInv
  PROVE  ReportsOk
<1> SUFFICES ASSUME InStep PROVE ReportsOk
  BY DEF ReportsOk
<1>0. EcuTh!FullInv
  BY DEF Inv
<1>1. ASSUME Returned("change_session")
      PROVE  ReadSession(response) =
               [session_type |-> session.type, p2_ms |-> P2, p2_star_ms |-> P2Star]
  <2>1. RightAnswer("change_session", call.request, response)
    BY <1>1, AnswerReports DEF Ops
  <2>2. PICK n \in Nat : n = session.type
    BY <1>0, EcuTyped
  <2>3. response = <<80, n>> \o TwoBytes(P2) \o TwoBytes(P2Star \div 10)
    BY <2>1, <2>2 DEF RightAnswer
  <2>4. PICK a, b, c, d \in Nat :
          /\ <<80, n>> \o TwoBytes(P2) \o TwoBytes(P2Star \div 10) = <<80, n, a, b, c, d>>
          /\ Word(a, b) = P2
          /\ Word(c, d) * 10 = P2Star
    BY SessionBytes, Zenon
  <2>5. PICK resp : resp = response
    OBVIOUS
  <2>6. resp = <<80, n, a, b, c, d>>
    BY <2>3, <2>4, <2>5, Zenon
  <2>7. resp[2] = n /\ resp[3] = a /\ resp[4] = b /\ resp[5] = c /\ resp[6] = d
    BY <2>6
  <2>8. ReadSession(resp) = [session_type |-> n, p2_ms |-> P2, p2_star_ms |-> P2Star]
    BY <2>4, <2>7 DEF ReadSession
  <2> QED
    BY <2>2, <2>5, <2>8
<1>2. ASSUME Returned("write")
      PROVE  did[SubSeq(call.request, 2, 3)] = SubSeq(call.request, 4, Len(call.request))
  <2>1. PICK req \in Seq(Nat) : /\ req = call.request /\ Shape("write", req)
                                /\ RightAnswer("write", req, response)
    BY <1>2, AnswerReports DEF Ops
  <2>2. Len(req) >= 3 /\ Len(req) \in Nat
    BY <2>1 DEF Shape
  <2>3. SubSeq(req, 2, 3) = <<req[2], req[3]>>
    <3>1. PICK t : t = SubSeq(req, 2, 3)
      OBVIOUS
    <3>2. t \in Seq(Nat) /\ Len(t) = 2 /\ t[1] = req[2] /\ t[2] = req[3]
      BY <2>2, <3>1
    <3>3. t = <<req[2], req[3]>>
      BY <3>2
    <3> QED
      BY <3>1, <3>3
  <2>4. did[<<req[2], req[3]>>] = SubSeq(req, 4, Len(req))
    BY <2>1 DEF RightAnswer
  <2> QED
    BY <2>1, <2>3, <2>4
<1>3. ASSUME Returned("ecu_reset")
      PROVE  session.type = Ecu!DEFAULT /\ sec.unlocked_level = 0
  <2>1. RightAnswer("ecu_reset", call.request, response)
    BY <1>3, AnswerReports DEF Ops
  <2> QED
    BY <2>1 DEF RightAnswer
<1>4. ASSUME Returned("clear")
      PROVE  \A i \in DOMAIN DtcCodes :
               SubSeq(call.request, 2, 4) = Ecu!AllDtcs \/ call.request[2] = DtcCodes[i][1]
                 => dtc[i] = 0
  <2>1. RightAnswer("clear", call.request, response)
    BY <1>4, AnswerReports DEF Ops
  <2> QED
    BY <2>1 DEF RightAnswer
<1> DEFINE Asked == {i \in DOMAIN DtcCodes :
                       call.op = "read_by_status" => Selected(dtc[i], call.request[3])}
<1>5. ASSUME Returned("read_by_status") \/ Returned("read_all")
      PROVE  \E records :
               /\ records = _parse_dtc_records(SubSeq(response, 4, Len(response)))
               /\ Elements(records) = CodesWithStatus(DtcCodes, dtc, Asked)
  <2>1. PICK records : records = _parse_dtc_records(SubSeq(response, 4, Len(response)))
    OBVIOUS
  <2>2. PICK resp : resp = response
    OBVIOUS
  <2>3. PICK codes : codes = Asked
    OBVIOUS
  <2>4. codes \subseteq DOMAIN DtcCodes
    BY <2>3
  <2>5. ASSUME Returned("read_by_status")
        PROVE  \E m \in Nat : resp = <<89, 2, m>> \o DtcRecords(codes)
    <3>1. PICK req \in Seq(Nat) :
            /\ req = call.request /\ call.op = "read_by_status"
            /\ Shape("read_by_status", req)
            /\ RightAnswer("read_by_status", req, response)
      BY <2>5, AnswerReports DEF Ops
    <3>2. PICK m \in Nat : req = <<25, 2, m>>
      BY <3>1 DEF Shape
    <3>3. req[3] = m
      BY <3>2
    <3>4. codes = Matching(m)
      BY <2>3, <3>1, <3>3 DEF Matching
    <3>5. resp = <<89, 2, m>> \o DtcRecords(codes)
      BY <2>2, <3>1, <3>3, <3>4 DEF RightAnswer
    <3> QED
      BY <3>5
  <2>6. ASSUME Returned("read_all")
        PROVE  resp = <<89, 10, 255>> \o DtcRecords(codes)
    <3>1. call.op = "read_all" /\ RightAnswer("read_all", call.request, response)
      BY <2>6, AnswerReports DEF Ops
    <3>2. codes = DOMAIN DtcCodes
      BY <2>3, <3>1
    <3> QED
      BY <2>2, <3>1, <3>2 DEF RightAnswer
  <2>7. PICK a \in Nat, b \in Nat, c \in Nat : resp = <<a, b, c>> \o DtcRecords(codes)
    <3>1. CASE Returned("read_by_status")
      <4>1. PICK m \in Nat : resp = <<89, 2, m>> \o DtcRecords(codes)
        BY <2>5, <3>1
      <4> QED
        BY <4>1
    <3>2. CASE Returned("read_all")
      <4>1. PICK a \in Nat, b \in Nat, c \in Nat : a = 89 /\ b = 10 /\ c = 255
        OBVIOUS
      <4>2. resp = <<a, b, c>> \o DtcRecords(codes)
        BY <2>6, <3>2, <4>1
      <4> QED
        BY <4>2
    <3> QED
      BY <1>5, <3>1, <3>2
  <2>8. records = _parse_dtc_records(DtcRecords(codes))
    <3>1. DtcRecords(codes) \in Seq(Nat)
      BY <1>0, PartTypes
    <3>2. SubSeq(resp, 4, Len(resp)) = DtcRecords(codes)
      BY <2>7, <3>1, AfterThree
    <3> QED
      BY <2>1, <2>2, <3>2
  <2>9. Elements(records) = CodesWithStatus(DtcCodes, dtc, codes)
    BY <1>0, <2>4, <2>8, CodesParsed
  <2> QED
    BY <2>1, <2>3, <2>9
<1> QED
  BY <1>1, <1>2, <1>3, <1>4, <1>5 DEF ReportsOk, Elements, CodesWithStatus

\* When the other calls return, the ECU has done or reports what was asked for:
\* the sessions times survive their encoding in two bytes, a refusal is never
\* taken for consent, and of the trouble codes asked for none is missing, none
\* is added, and each has its own status.
THEOREM ReportsTrue == Spec => []ReportsOk
BY ReportsFromStep, Inductive, AlwaysInStep, PTL

\* read() returns what is in the registry.
LEMMA ReadFromStep ==
  ASSUME Inv, StepInv
  PROVE  ReadOk
<1> SUFFICES ASSUME Returned("read"), InStep, Unambiguous(DidList(call.request))
             PROVE  ReadDids(DidList(call.request), response)
                      = [d \in {DidList(call.request)[i] : i \in DOMAIN DidList(call.request)}
                           |-> did[d]]
  BY DEF ReadOk
<1>1. PICK req \in Seq(Nat) :
        req = call.request /\ call.op = "read" /\ RightAnswer("read", req, response)
  BY AnswerReports DEF Ops
<1>2. PICK list : list = DidList(req)
  OBVIOUS
<1>3. PICK val : val = did
  OBVIOUS
<1>4. PICK resp : resp = response
  OBVIOUS
<1>5. list \in Seq(Nat \X Nat)
  BY <1>2, DidListType
<1>6. /\ \A i \in DOMAIN list : list[i] \in Dids
      /\ Len(list) # 0
      /\ resp = <<98>> \o FlattenSeq(DidRecords(list))
  BY <1>1, <1>2, <1>4 DEF RightAnswer
<1>7. DOMAIN list = 1 .. Len(list)
  BY <1>5
<1>8. PICK recs : recs = DidRecords(list)
  OBVIOUS
<1>9. recs = [k \in 1 .. Len(list) |-> list[k] \o val[list[k]]]
  BY <1>3, <1>7, <1>8 DEF DidRecords
<1>10. \A k \in 1 .. Len(list) : val[list[k]] \in Seq(Nat)
  <2>1. EcuTh!FullInv
    BY DEF Inv
  <2>2. did \in [Dids -> DidValues] /\ DidValues \subseteq Seq(Nat)
    BY <2>1, EcuTyped, ServicesAssumption
  <2> QED
    BY <1>3, <1>6, <1>7, <2>2
<1>11. Apart(list, val)
  BY <1>1, <1>2, <1>3 DEF Apart, Unambiguous
<1>12. Tail(resp) = FlattenSeq(recs)
  <2>1. PICK flat : flat = FlattenSeq(recs)
    OBVIOUS
  <2>2. flat \in Seq(Nat)
    <3>1. EcuTh!FullInv
      BY DEF Inv
    <3> QED
      BY <1>5, <1>6, <1>8, <2>1, <3>1, PartTypes
  <2> QED
    BY <1>6, <1>8, <2>1, <2>2, SMTT(30)
<1>13. ReadDids(list, resp) = ValuesOf(list, val)
  BY <1>5, <1>6, <1>9, <1>10, <1>11, <1>12, ReadBack
<1> QED
  BY <1>1, <1>2, <1>3, <1>4, <1>7, <1>13 DEF ValuesOf

\* What read() returns is what the registry holds for every identifier asked
\* for, and nothing else, whatever identifiers and values: searching for the
\* next identifier splits the response where the ECU has put it together,
\* unless a value contains the identifier after it.
THEOREM ReadsTrue == Spec => []ReadOk
BY ReadFromStep, Inductive, AlwaysInStep, PTL
================================================================================
