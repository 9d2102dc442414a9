------------------------ MODULE SecurityAccessProofs ------------------------
(***************************************************************************)
(* Theorems about SecurityAccess, for any number of attempts, any lockout  *)
(* and seed times, any seeds and levels.                                   *)
(*                                                                         *)
(* AttemptRate is not inductive: it needs to know that the attempt counter *)
(* counts the wrong keys since the last lockout, that those before it are  *)
(* at least a lockout older, and that a lockout starts at the last wrong   *)
(* key.  FailureInv says so; SeedInv ties the pending seed to the history  *)
(* of what was sent out.                                                   *)
(***************************************************************************)
EXTENDS SecurityAccess, SequenceTheorems, TLAPS

SeedInv ==
  /\ SeedUsedOnce
  /\ sec.seed_valid =>
       /\ issued.compares = 0
       /\ issued.level = sec.pending_level
       /\ issued.seed = sec.seed
       /\ issued.at = sec.seed_ts

\* All wrong keys lie in the past, in order.
FailuresSorted ==
  /\ \A i \in 1 .. Len(failures) : failures[i] <= now
  /\ \A i, j \in 1 .. Len(failures) : i <= j => failures[i] <= failures[j]

\* The lockout runs from the last wrong key, and only then is the counter full.
LockoutInv ==
  /\ sec.fail_count <= Len(failures)
  /\ ~ sec.locked => sec.fail_count < MaxAttempts
  /\ sec.locked => /\ sec.fail_count = MaxAttempts
                   /\ sec.locked_ts = failures[Len(failures)]

\* A gap of a lockout separates the wrong keys the counter counts from the
\* ones before them.
GapInv ==
  LET n == Len(failures)  k == n - sec.fail_count IN
  k > 0 => IF sec.fail_count = 0
           THEN now - failures[k] >= LockoutSecs
           ELSE failures[k + 1] - failures[k] >= LockoutSecs

FailureInv == FailuresSorted /\ LockoutInv /\ GapInv /\ AttemptRate

IInv == TypeOK /\ SeedInv /\ FailureInv

----------------------------------------------------------------------------
\* What the lock check leaves when it does not refuse: no lock, a counter below
\* the limit, and the gap still in place.
LEMMA LockCheckedFacts ==
  ASSUME IInv, ~ check_locked
  PROVE  /\ LockChecked \in Security
         /\ LockChecked.locked = FALSE
         /\ LockChecked.fail_count \in 0 .. MaxAttempts - 1
         /\ LockChecked.fail_count <= Len(failures)
         /\ LockChecked.seed = sec.seed
         /\ LockChecked.seed_valid = sec.seed_valid
         /\ LockChecked.pending_level = sec.pending_level
         /\ LockChecked.seed_ts = sec.seed_ts
         /\ LockChecked.unlocked_level = sec.unlocked_level
         /\ LET k == Len(failures) - LockChecked.fail_count IN
            k > 0 => IF LockChecked.fail_count = 0
                     THEN now - failures[k] >= LockoutSecs
                     ELSE failures[k + 1] - failures[k] >= LockoutSecs
<1>1. sec \in Security /\ Len(failures) \in Nat
  BY DEF IInv, TypeOK
<1>2. CASE sec.locked
  <2>1. LockChecked = [sec EXCEPT !.locked = FALSE, !.fail_count = 0]
    BY <1>2 DEF LockChecked
  <2>2. now - failures[Len(failures)] >= LockoutSecs
    <3>1. now - sec.locked_ts >= LockoutSecs
      BY <1>1, <1>2, SecurityAssumption DEF check_locked, Security, IInv, TypeOK
    <3> QED
      BY <1>2, <3>1 DEF IInv, FailureInv, LockoutInv
  <2>3. Len(failures) - 0 = Len(failures)
    BY <1>1
  <2>4. /\ LockChecked \in Security
        /\ LockChecked.fail_count = 0
        /\ LockChecked.locked = FALSE
        /\ LockChecked.seed = sec.seed
        /\ LockChecked.seed_valid = sec.seed_valid
        /\ LockChecked.pending_level = sec.pending_level
        /\ LockChecked.seed_ts = sec.seed_ts
        /\ LockChecked.unlocked_level = sec.unlocked_level
    <3>1. 0 \in 0 .. MaxAttempts
      BY SecurityAssumption
    <3> QED
      BY <1>1, <2>1, <3>1 DEF Security
  <2>5. 0 \in 0 .. MaxAttempts - 1 /\ 0 <= Len(failures)
    BY <1>1, SecurityAssumption
  <2>6. Len(failures) - LockChecked.fail_count = Len(failures)
    BY <2>3, <2>4
  <2>7. now - failures[Len(failures) - LockChecked.fail_count] >= LockoutSecs
    BY <2>2, <2>6
  <2>8. LockChecked.fail_count \in 0 .. MaxAttempts - 1
    BY <2>4, <2>5
  <2>9. LockChecked.fail_count <= Len(failures)
    BY <2>4, <2>5
  <2> QED
    BY <2>4, <2>7, <2>8, <2>9
<1>3. CASE ~ sec.locked
  <2>1. LockChecked = sec
    BY <1>3 DEF LockChecked
  <2>2. sec.fail_count \in 0 .. MaxAttempts - 1
    BY <1>1, <1>3, SecurityAssumption DEF IInv, FailureInv, LockoutInv, Security
  <2> QED
    BY <1>1, <1>3, <2>1, <2>2 DEF IInv, FailureInv, LockoutInv, GapInv, Security
<1> QED
  BY <1>2, <1>3

\* A step that takes the lock check's result and at most touches the seed.
LEMMA NoComparisonInv ==
  ASSUME IInv, ~ check_locked, UNCHANGED <<now, failures>>,
         sec' \in Security,
         sec'.locked = LockChecked.locked,
         sec'.fail_count = LockChecked.fail_count
  PROVE  FailureInv'
<1>1. /\ LockChecked.locked = FALSE
      /\ LockChecked.fail_count \in 0 .. MaxAttempts - 1
      /\ LockChecked.fail_count <= Len(failures)
      /\ LET k == Len(failures) - LockChecked.fail_count IN
         k > 0 => IF LockChecked.fail_count = 0
                  THEN now - failures[k] >= LockoutSecs
                  ELSE failures[k + 1] - failures[k] >= LockoutSecs
  BY LockCheckedFacts
<1>2. FailuresSorted' /\ AttemptRate'
  BY DEF IInv, FailureInv, FailuresSorted, AttemptRate
<1>3. LockoutInv'
  BY <1>1, SecurityAssumption DEF LockoutInv
<1>4. GapInv'
  BY <1>1 DEF GapInv
<1> QED
  BY <1>2, <1>3, <1>4 DEF FailureInv

\* A step that leaves the record, the clock and the history alone: every refusal.
LEMMA ReplyOnlyInv ==
  ASSUME IInv, UNCHANGED <<now, sec, history>>, reply' \in Replies
  PROVE  IInv'
BY DEF IInv, TypeOK, SeedInv, SeedUsedOnce, FailureInv, FailuresSorted, LockoutInv,
       GapInv, AttemptRate, history

LEMMA InitInv == Init => IInv
<1> SUFFICES ASSUME Init PROVE IInv
  OBVIOUS
<1> USE DEF Init, uds_core_security_init, NoSeed
<1>1. TypeOK
  BY SecurityAssumption DEF TypeOK, Security, Replies, NoReply
<1>2. SeedInv
  BY DEF SeedInv, SeedUsedOnce
<1>3. FailureInv
  BY SecurityAssumption
     DEF FailureInv, FailuresSorted, LockoutInv, GapInv, AttemptRate
<1> QED
  BY <1>1, <1>2, <1>3 DEF IInv

\* Two times that lie on both sides of a gap are at least the gap apart.
LEMMA GapSpan ==
  ASSUME NEW a \in Nat, NEW b \in Nat, NEW c \in Nat, NEW d \in Nat, NEW gap \in Nat,
         a <= b, c - b >= gap, c <= d
  PROVE  d - a >= gap
OBVIOUS

\* The counter, the lockout and the gap after one more wrong key.
LEMMA WrongKeyInv ==
  ASSUME IInv, ~ check_locked, sec.seed_valid, WrongKey
  PROVE  IInv'
<1> DEFINE n == Len(failures)
           f == LockChecked.fail_count
<1>1. /\ LockChecked \in Security
      /\ f \in 0 .. MaxAttempts - 1
      /\ f <= n
      /\ LET k == n - f IN
         k > 0 => IF f = 0 THEN now - failures[k] >= LockoutSecs
                  ELSE failures[k + 1] - failures[k] >= LockoutSecs
      /\ LockChecked.locked = FALSE
  BY LockCheckedFacts
<1>2. /\ now \in Nat /\ now' = now
      /\ failures \in Seq(Nat) /\ n \in Nat
      /\ issued' = [issued EXCEPT !.compares = @ + 1]
      /\ failures' = Append(failures, now)
  BY DEF IInv, TypeOK, WrongKey, Answer
<1>3. /\ sec' \in Security
      /\ sec'.fail_count = f + 1
      /\ sec'.seed_valid = FALSE
      /\ f + 1 < MaxAttempts => sec'.locked = FALSE
      /\ f + 1 >= MaxAttempts => sec'.locked = TRUE /\ sec'.locked_ts = now
      /\ reply' \in Replies
  <2>1. f + 1 \in 0 .. MaxAttempts
    BY <1>1, SecurityAssumption
  <2> DEFINE failed == [LockChecked EXCEPT !.fail_count = f + 1, !.seed_valid = FALSE]
  <2>2. /\ failed \in Security
        /\ failed.fail_count = f + 1
        /\ failed.seed_valid = FALSE
        /\ failed.locked = FALSE
    BY <1>1, <2>1 DEF Security
  <2>3. CASE f + 1 >= MaxAttempts
    <3>1. sec' = [failed EXCEPT !.locked = TRUE, !.locked_ts = now]
      BY <1>1, <2>3, SecurityAssumption DEF WrongKey, Answer
    <3>2. reply' \in Replies
      BY <1>1, <2>3, SecurityAssumption DEF WrongKey, Answer, Replies, Nrcs
    <3> HIDE DEF failed
    <3>3. /\ sec' \in Security
          /\ sec'.fail_count = failed.fail_count
          /\ sec'.seed_valid = failed.seed_valid
          /\ sec'.locked = TRUE
          /\ sec'.locked_ts = now
      BY <1>2, <2>2, <3>1 DEF Security
    <3>4. ~ (f + 1 < MaxAttempts)
      BY <1>1, <2>3, SecurityAssumption
    <3> QED
      BY <2>2, <3>2, <3>3, <3>4
  <2>4. CASE f + 1 < MaxAttempts
    <3>1. sec' = failed
      BY <1>1, <2>4, SecurityAssumption DEF WrongKey, Answer
    <3>2. reply' \in Replies
      BY <1>1, <2>4, SecurityAssumption DEF WrongKey, Answer, Replies, Nrcs
    <3> HIDE DEF failed
    <3>3. ~ (f + 1 >= MaxAttempts)
      BY <1>1, <2>4, SecurityAssumption
    <3> QED
      BY <2>2, <3>1, <3>2, <3>3
  <2>5. f + 1 >= MaxAttempts \/ f + 1 < MaxAttempts
    BY <1>1, SecurityAssumption
  <2> QED
    BY <2>3, <2>4, <2>5
<1>4. /\ Len(failures') = n + 1
      /\ \A i \in 1 .. n : failures'[i] = failures[i]
      /\ failures'[n + 1] = now
      /\ failures' \in Seq(Nat)
  BY <1>2, AppendProperties
<1>5. /\ \A i \in 1 .. n : failures[i] <= now /\ failures[i] \in Nat
      /\ \A i, j \in 1 .. n : i <= j => failures[i] <= failures[j]
      /\ \A i \in 1 .. n : i + MaxAttempts <= n
                             => failures[i + MaxAttempts] - failures[i] >= LockoutSecs
  BY <1>2 DEF IInv, FailureInv, FailuresSorted, AttemptRate
<1>6. MaxAttempts \in Nat \ {0} /\ LockoutSecs \in Nat
  BY SecurityAssumption
<1> HIDE DEF n, f
<1>7. FailuresSorted'
  <2>1. \A i \in 1 .. n + 1 : failures'[i] <= now
    BY <1>2, <1>4, <1>5
  <2>2. ASSUME NEW i \in 1 .. n + 1, NEW j \in 1 .. n + 1, i <= j
        PROVE  failures'[i] <= failures'[j]
    <3>1. CASE j = n + 1
      BY <1>4, <2>1, <3>1
    <3>2. CASE j # n + 1
      <4>1. i \in 1 .. n /\ j \in 1 .. n
        BY <1>2, <2>2, <3>2
      <4> QED
        BY <1>4, <1>5, <2>2, <4>1
    <3> QED
      BY <3>1, <3>2
  <2> QED
    BY <1>2, <1>4, <2>1, <2>2 DEF FailuresSorted
<1>8. LockoutInv'
  <2>1. sec'.fail_count <= Len(failures')
    BY <1>1, <1>2, <1>3, <1>4, <1>6
  <2>2. f + 1 <= MaxAttempts
    BY <1>1, <1>6
  <2> QED
    BY <1>1, <1>3, <1>4, <1>6, <2>1, <2>2 DEF LockoutInv
\* the wrong keys of this round start one after the gap
<1>9. n > f => failures'[n - f + 1] - failures'[n - f] >= LockoutSecs
  <2> SUFFICES ASSUME n > f
               PROVE  failures'[n - f + 1] - failures'[n - f] >= LockoutSecs
    OBVIOUS
  <2>1. n - f \in 1 .. n /\ n - f > 0
    BY <1>1, <1>2, <1>6
  <2>2. CASE f = 0
    <3>1. n - f = n /\ n - f + 1 = n + 1
      BY <1>2, <2>2
    <3>2. now - failures[n - f] >= LockoutSecs
      BY <1>1, <2>1, <2>2
    <3>3. failures'[n - f + 1] = now /\ failures'[n - f] = failures[n - f]
      BY <1>4, <2>1, <3>1
    <3> QED
      BY <3>2, <3>3
  <2>3. CASE f # 0
    <3>0. f \in Nat /\ n \in Nat /\ f <= n
      BY <1>1, <1>2, <1>6
    <3>1. n - f + 1 \in 1 .. n
      BY <3>0, <2>3
    <3>2. failures[n - f + 1] - failures[n - f] >= LockoutSecs
      BY <1>1, <2>1, <2>3
    <3>3. /\ failures'[n - f + 1] = failures[n - f + 1]
          /\ failures'[n - f] = failures[n - f]
      BY <1>4, <2>1, <3>1
    <3> QED
      BY <3>2, <3>3
  <2> QED
    BY <2>2, <2>3
<1>10. GapInv'
  <2>1. /\ Len(failures') - sec'.fail_count = n - f
        /\ sec'.fail_count # 0
    BY <1>1, <1>2, <1>3, <1>4, <1>6
  <2>2. n - f > 0 => n > f
    BY <1>1, <1>2, <1>6
  <2> QED
    BY <1>9, <2>1, <2>2 DEF GapInv
<1>11. AttemptRate'
  <2> SUFFICES ASSUME NEW i \in 1 .. n + 1, i + MaxAttempts <= n + 1
               PROVE  failures'[i + MaxAttempts] - failures'[i] >= LockoutSecs
    BY <1>4 DEF AttemptRate
  <2>1. CASE i + MaxAttempts <= n
    <3>1. i \in 1 .. n /\ i + MaxAttempts \in 1 .. n
      BY <1>2, <1>6, <2>1
    <3> QED
      BY <1>4, <1>5, <2>1, <3>1
  <2>2. CASE i + MaxAttempts = n + 1
    <3>1. /\ n > f /\ i \in 1 .. n /\ i <= n - f
          /\ n - f \in 1 .. n /\ n - f + 1 \in 1 .. n + 1
      BY <1>1, <1>2, <1>6, <2>2
    <3>2. failures[i] <= failures[n - f]
      BY <1>5, <3>1
    <3>3. /\ failures'[i] = failures[i] /\ failures'[n - f] = failures[n - f]
          /\ failures[i] \in Nat /\ failures[n - f] \in Nat
      BY <1>4, <1>5, <3>1
    <3>4. failures'[n - f + 1] <= now /\ failures'[n - f + 1] \in Nat
      <4>1. CASE n - f + 1 \in 1 .. n
        <5> DEFINE m == n - f + 1
        <5>1. failures'[m] = failures[m] /\ failures[m] <= now /\ failures[m] \in Nat
          BY <1>4, <1>5, <4>1
        <5> QED
          BY <5>1
      <4>2. CASE n - f + 1 = n + 1
        BY <1>2, <1>4, <4>2
      <4>3. n - f + 1 \in 1 .. n \/ n - f + 1 = n + 1
        BY <1>1, <1>2, <1>6, <3>1
      <4> QED
        BY <4>1, <4>2, <4>3
    <3>5. failures'[n - f + 1] - failures'[n - f] >= LockoutSecs
      BY <1>9, <3>1
    <3>6. failures'[i + MaxAttempts] = now
      BY <1>4, <2>2
    <3>7. now - failures[i] >= LockoutSecs
      <4> DEFINE a == failures[i]
                 b == failures[n - f]
                 c == failures'[n - f + 1]
      <4>1. /\ a \in Nat /\ b \in Nat /\ c \in Nat /\ now \in Nat
            /\ LockoutSecs \in Nat
            /\ a <= b /\ c - b >= LockoutSecs /\ c <= now
        BY <1>2, <1>6, <3>2, <3>3, <3>4, <3>5
      <4> HIDE DEF a, b, c
      <4>2. now - a >= LockoutSecs
        BY <4>1, GapSpan
      <4> QED
        BY <4>2 DEF a
    <3> QED
      BY <3>3, <3>6, <3>7
  <2>3. i + MaxAttempts <= n \/ i + MaxAttempts = n + 1
    BY <1>2, <1>6
  <2> QED
    BY <2>1, <2>2, <2>3
<1>12. SeedInv' /\ issued' \in [level : Levels \cup {0}, seed : Seeds, at : Nat, compares : Nat]
  BY <1>2, <1>3 DEF IInv, TypeOK, SeedInv, SeedUsedOnce
<1>13. TypeOK'
  BY <1>2, <1>3, <1>4, <1>12 DEF TypeOK
<1> QED
  BY <1>7, <1>8, <1>10, <1>11, <1>12, <1>13 DEF IInv, FailureInv

\* A right key clears the counter and the history of wrong keys.
LEMMA RightKeyInv ==
  ASSUME IInv, ~ check_locked, sec.seed_valid, NEW level \in Levels, RightKey(level)
  PROVE  IInv'
<1>1. LockChecked \in Security /\ LockChecked.locked = FALSE
  BY LockCheckedFacts
<1>2. /\ sec' \in Security
      /\ sec'.seed_valid = FALSE
      /\ sec'.fail_count = 0
      /\ sec'.locked = FALSE
  <2>1. 0 \in 0 .. MaxAttempts
    BY SecurityAssumption
  <2>2. sec' = [LockChecked EXCEPT !.seed_valid = FALSE, !.fail_count = 0,
                                   !.unlocked_level = level]
    BY DEF RightKey, Answer
  <2> QED
    BY <1>1, <2>1, <2>2 DEF Security
<1>3. /\ failures' = <<>>
      /\ issued' = [issued EXCEPT !.compares = @ + 1]
      /\ now' = now /\ reply' = Positive
  BY DEF RightKey, Answer
<1>4. FailureInv'
  BY <1>2, <1>3, SecurityAssumption
     DEF FailureInv, FailuresSorted, LockoutInv, GapInv, AttemptRate
<1>5. SeedInv' /\ issued' \in [level : Levels \cup {0}, seed : Seeds, at : Nat, compares : Nat]
  BY <1>2, <1>3 DEF IInv, TypeOK, SeedInv, SeedUsedOnce
<1>6. TypeOK'
  BY <1>2, <1>3, <1>5 DEF IInv, TypeOK, Replies
<1> QED
  BY <1>4, <1>5, <1>6 DEF IInv

\* requestSeed: refused, the all-zero answer, or a fresh seed.
LEMMA RequestSeedInv ==
  ASSUME IInv, NEW sub_fn \in Levels, NEW seed \in Seeds,
         uds_core_sec_request_seed(sub_fn, seed)
  PROVE  IInv'
<1>1. CASE check_locked
  BY <1>1, ReplyOnlyInv
     DEF uds_core_sec_request_seed, Answer, Replies, Nrcs, history
<1>2. CASE ~ check_locked /\ sec.unlocked_level = sub_fn
  <2>1. /\ sec' = LockChecked /\ reply' = Positive
        /\ UNCHANGED <<now, issued, failures>>
    BY <1>2 DEF uds_core_sec_request_seed, Answer, history
  <2>2. /\ LockChecked \in Security
        /\ LockChecked.seed = sec.seed
        /\ LockChecked.seed_valid = sec.seed_valid
        /\ LockChecked.pending_level = sec.pending_level
        /\ LockChecked.seed_ts = sec.seed_ts
    BY <1>2, LockCheckedFacts
  <2>3. FailureInv'
    BY <1>2, <2>1, <2>2, NoComparisonInv
  <2>4. SeedInv'
    BY <2>1, <2>2 DEF IInv, SeedInv, SeedUsedOnce
  <2>5. TypeOK'
    BY <2>1, <2>2 DEF IInv, TypeOK, Replies
  <2> QED
    BY <2>3, <2>4, <2>5 DEF IInv
<1>3. CASE ~ check_locked /\ sec.unlocked_level # sub_fn
  <2>1. /\ sec' = [LockChecked EXCEPT !.seed = seed, !.seed_valid = TRUE,
                                      !.pending_level = sub_fn, !.seed_ts = now]
        /\ issued' = [level |-> sub_fn, seed |-> seed, at |-> now, compares |-> 0]
        /\ reply' = Positive
        /\ UNCHANGED <<now, failures>>
    BY <1>3 DEF uds_core_sec_request_seed, Answer
  <2>2. LockChecked \in Security
    BY <1>3, LockCheckedFacts
  <2>3. now \in Nat
    BY DEF IInv, TypeOK
  <2>4. /\ sec' \in Security
        /\ sec'.locked = LockChecked.locked
        /\ sec'.fail_count = LockChecked.fail_count
        /\ sec'.seed = seed /\ sec'.pending_level = sub_fn /\ sec'.seed_ts = now
    BY <2>1, <2>2, <2>3 DEF Security
  <2>5. FailureInv'
    BY <1>3, <2>1, <2>4, NoComparisonInv
  <2>6. SeedInv'
    BY <2>1, <2>4 DEF SeedInv, SeedUsedOnce
  <2>7. TypeOK'
    BY <2>1, <2>3, <2>4 DEF IInv, TypeOK, Replies
  <2> QED
    BY <2>5, <2>6, <2>7 DEF IInv
<1> QED
  BY <1>1, <1>2, <1>3

\* sendKey refused after the lock check, with or without dropping the seed.
LEMMA KeyRefusedInv ==
  ASSUME IInv, ~ check_locked, NEW r \in Replies, UNCHANGED history,
         \/ Answer(r, LockChecked)
         \/ Answer(r, [LockChecked EXCEPT !.seed_valid = FALSE])
  PROVE  IInv'
<1>1. /\ LockChecked \in Security
      /\ LockChecked.seed = sec.seed
      /\ LockChecked.seed_valid = sec.seed_valid
      /\ LockChecked.pending_level = sec.pending_level
      /\ LockChecked.seed_ts = sec.seed_ts
  BY LockCheckedFacts
<1>2. /\ sec' \in Security
      /\ sec'.locked = LockChecked.locked
      /\ sec'.fail_count = LockChecked.fail_count
      /\ sec'.seed_valid \in BOOLEAN
      /\ sec'.seed_valid => LockChecked.seed_valid
      /\ sec'.seed = LockChecked.seed
      /\ sec'.pending_level = LockChecked.pending_level
      /\ sec'.seed_ts = LockChecked.seed_ts
  BY <1>1 DEF Answer, Security
<1>3. UNCHANGED <<now, issued, failures>> /\ reply' = r
  BY DEF Answer, history
<1>4. FailureInv'
  BY <1>2, <1>3, NoComparisonInv
<1>5. SeedInv'
  BY <1>1, <1>2, <1>3 DEF IInv, SeedInv, SeedUsedOnce
<1>6. TypeOK'
  BY <1>2, <1>3 DEF IInv, TypeOK
<1> QED
  BY <1>4, <1>5, <1>6 DEF IInv

LEMMA SendKeyInv ==
  ASSUME IInv, NEW sub_fn \in {0} \cup {l + 1 : l \in Levels}, NEW key, NEW len_ok,
         uds_core_sec_send_key(sub_fn, key, len_ok)
  PROVE  IInv'
<1>1. CASE sub_fn = 0 \/ check_locked
  <2>1. UNCHANGED <<now, sec, history>> /\ reply' \in Replies
    BY <1>1 DEF uds_core_sec_send_key, Answer, Replies, Nrcs
  <2> QED
    BY <2>1, ReplyOnlyInv
<1>2. CASE sub_fn # 0 /\ ~ check_locked
  <2>1. sub_fn - 1 \in Levels
    BY <1>2, SecurityAssumption
  <2>2. /\ "REQUEST_SEQUENCE_ERROR" \in Replies
        /\ "INCORRECT_MSG_LEN_OR_FORMAT" \in Replies
    BY DEF Replies, Nrcs
  <2>3. CASE WrongKey /\ sec.seed_valid
    BY <1>2, <2>3, WrongKeyInv
  <2>4. CASE RightKey(sub_fn - 1) /\ sec.seed_valid
    BY <1>2, <2>1, <2>4, RightKeyInv
  <2>5. CASE /\ UNCHANGED history
             /\ \/ Answer("REQUEST_SEQUENCE_ERROR", LockChecked)
                \/ Answer("REQUEST_SEQUENCE_ERROR", [LockChecked EXCEPT !.seed_valid = FALSE])
                \/ Answer("INCORRECT_MSG_LEN_OR_FORMAT", LockChecked)
    BY <1>2, <2>2, <2>5, KeyRefusedInv
  <2> QED
    BY <1>2, <2>3, <2>4, <2>5 DEF uds_core_sec_send_key
<1> QED
  BY <1>1, <1>2

\* ECUReset and the clock.
LEMMA ResetInv == IInv /\ SecurityReset => IInv'
<1> SUFFICES ASSUME IInv, SecurityReset PROVE IInv'
  OBVIOUS
<1> USE DEF SecurityReset, Answer, uds_core_security_init
<1>1. TypeOK'
  BY SecurityAssumption DEF IInv, TypeOK, Security, Replies, Positive
<1>2. SeedInv'
  BY DEF IInv, SeedInv, SeedUsedOnce
<1>3. FailureInv'
  BY SecurityAssumption
     DEF FailureInv, FailuresSorted, LockoutInv, GapInv, AttemptRate
<1> QED
  BY <1>1, <1>2, <1>3 DEF IInv

LEMMA TickInv == IInv /\ Tick => IInv'
<1> SUFFICES ASSUME IInv, Tick PROVE IInv'
  OBVIOUS
<1>1. now \in Nat /\ now' = now + 1 /\ UNCHANGED <<sec, reply, issued, failures>>
  BY DEF IInv, TypeOK, Tick, history
<1>2. failures \in Seq(Nat) /\ sec.fail_count \in Nat /\ LockoutSecs \in Nat
  BY SecurityAssumption DEF IInv, TypeOK, Security
<1>3. TypeOK' /\ SeedInv'
  BY <1>1 DEF IInv, TypeOK, SeedInv, SeedUsedOnce
<1>4. FailuresSorted'
  <2>1. \A i \in 1 .. Len(failures) : failures[i] \in Nat /\ failures[i] <= now
    BY <1>2, ElementOfSeq DEF IInv, FailureInv, FailuresSorted
  <2> QED
    BY <1>1, <2>1 DEF IInv, FailureInv, FailuresSorted
<1>5. LockoutInv' /\ AttemptRate'
  BY <1>1 DEF IInv, FailureInv, LockoutInv, AttemptRate
<1>6. GapInv'
  <2> DEFINE k == Len(failures) - sec.fail_count
  <2>1. CASE sec.fail_count = 0 /\ k > 0
    <3>1. k \in 1 .. Len(failures) /\ failures[k] \in Nat
      BY <1>2, <2>1
    <3>2. now - failures[k] >= LockoutSecs
      BY <2>1 DEF IInv, FailureInv, GapInv
    <3>3. now' - failures[k] >= LockoutSecs
      <4>1. now \in Nat /\ now' = now + 1 /\ LockoutSecs \in Nat
        BY <1>1, <1>2, SecurityAssumption
      <4> HIDE DEF k
      <4> QED
        BY <3>1, <3>2, <4>1
    <3> QED
      BY <1>1, <2>1, <3>3 DEF GapInv
  <2>2. CASE sec.fail_count # 0 \/ ~ (k > 0)
    BY <1>1, <2>2 DEF IInv, FailureInv, GapInv
  <2> QED
    BY <2>1, <2>2
<1> QED
  BY <1>3, <1>4, <1>5, <1>6 DEF IInv, FailureInv

----------------------------------------------------------------------------
LEMMA NextInv == IInv /\ [Next]_vars => IInv'
<1> SUFFICES ASSUME IInv, [Next]_vars PROVE IInv'
  OBVIOUS
<1>1. CASE \E sub_fn \in Levels, seed \in Seeds : uds_core_sec_request_seed(sub_fn, seed)
  BY <1>1, RequestSeedInv
<1>2. CASE \E sub_fn \in {0} \cup {l + 1 : l \in Levels}, key \in Keys, len_ok \in BOOLEAN :
              uds_core_sec_send_key(sub_fn, key, len_ok)
  BY <1>2, SendKeyInv
<1>3. CASE SecurityReset
  BY <1>3, ResetInv
<1>4. CASE Tick
  BY <1>4, TickInv
<1>5. CASE UNCHANGED vars
  <2>1. UNCHANGED <<now, sec, history>> /\ reply' \in Replies
    BY <1>5 DEF vars, history, IInv, TypeOK
  <2> QED
    BY <2>1, ReplyOnlyInv
<1> QED
  BY <1>1, <1>2, <1>3, <1>4, <1>5 DEF Next

LEMMA Invariance == Spec => []IInv
BY InitInv, NextInv, PTL DEF Spec

\* Type correctness of the security record and its history.
THEOREM SecurityTypeCorrect == Spec => []TypeOK
<1>1. IInv => TypeOK
  BY DEF IInv
<1> QED
  BY <1>1, Invariance, PTL

\* The counter and the lockout bound the rate of wrong keys, for every number
\* of attempts and every lockout time.
THEOREM AttemptsRateLimited == Spec => []AttemptRate
<1>1. IInv => AttemptRate
  BY DEF IInv, FailureInv
<1> QED
  BY <1>1, Invariance, PTL

\* No seed is compared twice.
THEOREM SeedsSingleUse == Spec => []SeedUsedOnce
<1>1. IInv => SeedUsedOnce
  BY DEF IInv, SeedInv
<1> QED
  BY <1>1, Invariance, PTL

\* Every unlock answers the last seed, in time, outside a lockout.
THEOREM UnlocksJustified == Spec => UnlockAnswersSeed
<1> DEFINE Justified ==
      sec'.unlocked_level \notin {0, sec.unlocked_level} =>
       /\ issued.level = sec'.unlocked_level
       /\ issued.seed = sec.seed
       /\ issued.compares = 0
       /\ now - issued.at < SeedTimeoutSecs
       /\ ~ check_locked
<1>1. IInv /\ [Next]_vars => [Justified]_vars
  <2> SUFFICES ASSUME IInv, Next, sec'.unlocked_level \notin {0, sec.unlocked_level}
               PROVE  /\ issued.level = sec'.unlocked_level
                      /\ issued.seed = sec.seed
                      /\ issued.compares = 0
                      /\ now - issued.at < SeedTimeoutSecs
                      /\ ~ check_locked
    BY DEF vars
  <2>1. sec \in Security
    BY DEF IInv, TypeOK
  <2>2. /\ LockChecked \in Security
        /\ LockChecked.unlocked_level = sec.unlocked_level
    <3>1. 0 \in 0 .. MaxAttempts
      BY SecurityAssumption
    <3> QED
      BY <2>1, <3>1 DEF LockChecked, Security
  <2>3. PICK sub_fn \in {0} \cup {l + 1 : l \in Levels}, key \in Keys, len_ok \in BOOLEAN :
               uds_core_sec_send_key(sub_fn, key, len_ok)
    <3>1. ASSUME NEW sub_fn \in Levels, NEW seed \in Seeds,
                 uds_core_sec_request_seed(sub_fn, seed)
          PROVE  FALSE
      BY <2>1, <2>2, <3>1 DEF uds_core_sec_request_seed, Answer, Security
    <3>2. ~ Tick /\ ~ SecurityReset
      BY DEF Tick, SecurityReset, Answer, uds_core_security_init
    <3> QED
      BY <3>1, <3>2 DEF Next
  <2>4. ~ WrongKey
    BY <2>1, <2>2 DEF WrongKey, Answer, Security
  <2>5. /\ sub_fn # 0 /\ ~ check_locked /\ sec.seed_valid
        /\ sec.pending_level = sub_fn - 1 /\ ~ seed_expired
        /\ RightKey(sub_fn - 1)
    BY <2>1, <2>2, <2>3, <2>4 DEF uds_core_sec_send_key, Answer, Security
  <2>6. sec'.unlocked_level = sub_fn - 1
    BY <2>2, <2>5 DEF RightKey, Answer, Security
  <2>7. /\ issued.compares = 0 /\ issued.level = sec.pending_level
        /\ issued.seed = sec.seed /\ issued.at = sec.seed_ts
    BY <2>5 DEF IInv, SeedInv
  <2>8. now - sec.seed_ts < SeedTimeoutSecs
    BY <2>1, <2>5, SecurityAssumption DEF seed_expired, IInv, TypeOK, Security
  <2> QED
    BY <2>5, <2>6, <2>7, <2>8
<1>2. []IInv /\ [][Next]_vars => [][Justified]_vars
  BY <1>1, PTL
<1> QED
  BY <1>2, Invariance DEF Spec, UnlockAnswersSeed
=============================================================================
