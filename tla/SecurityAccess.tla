--------------------------- MODULE SecurityAccess ---------------------------
(***************************************************************************)
(* Service 0x27 SecurityAccess of the ECU (src/src/core/security.c): seeds *)
(* that expire, keys, the attempt counter and the lockout.                 *)
(*                                                                         *)
(* One action is one request handled by the single-threaded dispatcher,    *)
(* at some reading of CLOCK_MONOTONIC; Tick is the clock.  All of the      *)
(* code's time arithmetic is on tv_sec, so the clock counts seconds.       *)
(***************************************************************************)
EXTENDS Integers, Sequences

CONSTANTS
  Levels,           \* the odd requestSeed sub-functions testers use
  Seeds,            \* the values of the random seed
  KeyOf,            \* uds_core_sec_compute_key: seed XOR KEY_MASK
  MaxAttempts,      \* UDS_CORE_MAX_ATTEMPTS (3)
  LockoutSecs,      \* UDS_CORE_LOCKOUT_SECS (300)
  SeedTimeoutSecs,  \* UDS_CORE_SEED_TIMEOUT_SECS (10)
  MaxTime           \* bound: the last second of the modelled clock

\* An XOR with a fixed mask is a bijection on the seeds.
Keys == Seeds
uds_core_sec_compute_key(seed) == KeyOf[seed]

ASSUME SecurityAssumption ==
  /\ Levels \subseteq {n \in Nat : n % 2 = 1}
  /\ KeyOf \in [Seeds -> Keys]
  /\ \A s, t \in Seeds : KeyOf[s] = KeyOf[t] => s = t
  /\ 0 \in Seeds
  /\ MaxAttempts \in Nat \ {0}
  /\ LockoutSecs \in Nat \ {0}
  /\ SeedTimeoutSecs \in Nat \ {0}
  /\ MaxTime \in Nat

VARIABLES
  now,       \* CLOCK_MONOTONIC, tv_sec
  sec,       \* UdsCoreSecurity
  reply,     \* the response of the last request
  issued,    \* history: the last seed sent out and what became of it
  failures   \* history: times of the wrong keys since the last success or reset

vars == <<now, sec, reply, issued, failures>>
history == <<issued, failures>>

Security == [seed : Seeds, seed_valid : BOOLEAN, pending_level : Levels \cup {0},
             seed_ts : Nat, unlocked_level : Levels \cup {0},
             fail_count : 0 .. MaxAttempts, locked : BOOLEAN, locked_ts : Nat]

Nrcs == {"SUB_FUNCTION_NOT_SUPPORTED", "EXCEEDED_NUMBER_OF_ATTEMPTS",
         "REQUEST_SEQUENCE_ERROR", "INCORRECT_MSG_LEN_OR_FORMAT", "INVALID_KEY"}
NoReply == "none"
Positive == "positive"
Replies == {NoReply, Positive} \cup Nrcs

----------------------------------------------------------------------------
\* memset(sec, 0, sizeof *sec), also the body of uds_core_sec_reset
uds_core_security_init ==
  [seed |-> 0, seed_valid |-> FALSE, pending_level |-> 0, seed_ts |-> 0,
   unlocked_level |-> 0, fail_count |-> 0, locked |-> FALSE, locked_ts |-> 0]

\* What check_locked returns ...
check_locked == sec.locked /\ now - sec.locked_ts < LockoutSecs

\* Mutant of LockChecked: an expired lockout leaves the attempt counter.
LockClearedOnly == [sec EXCEPT !.locked = check_locked]

\* ... and its side effect: an elapsed lockout is cleared with its counter.
LockChecked ==
  IF sec.locked /\ ~ check_locked
  THEN [sec EXCEPT !.locked = FALSE, !.fail_count = 0]
  ELSE sec

\* Mutant of seed_expired: the age of the seed is not looked at.
SeedNeverExpires == ~ sec.seed_valid

seed_expired == ~ sec.seed_valid \/ now - sec.seed_ts >= SeedTimeoutSecs

Answer(r, s) ==
  /\ reply' = r
  /\ sec' = s
  /\ UNCHANGED now

\* requestSeed.  sub_fn is odd: the dispatcher sends even ones to sendKey.
uds_core_sec_request_seed(sub_fn, seed) ==
  \/ /\ check_locked
     /\ Answer("EXCEEDED_NUMBER_OF_ATTEMPTS", sec)
     /\ UNCHANGED history
  \/ \* already unlocked at this level: an all-zero seed, nothing issued
     /\ ~ check_locked /\ sec.unlocked_level = sub_fn
     /\ Answer(Positive, LockChecked)
     /\ UNCHANGED history
  \/ /\ ~ check_locked /\ sec.unlocked_level # sub_fn
     /\ Answer(Positive, [LockChecked EXCEPT !.seed = seed, !.seed_valid = TRUE,
                                             !.pending_level = sub_fn, !.seed_ts = now])
     /\ issued' = [level |-> sub_fn, seed |-> seed, at |-> now, compares |-> 0]
     /\ UNCHANGED failures

\* Mutant of WrongKey: one attempt too many before the lockout.
WrongKeyLateLock ==
  LET count == LockChecked.fail_count + 1
      failed == [LockChecked EXCEPT !.fail_count = count, !.seed_valid = FALSE]
  IN  /\ \/ count > MaxAttempts
            /\ Answer("EXCEEDED_NUMBER_OF_ATTEMPTS",
                      [failed EXCEPT !.locked = TRUE, !.locked_ts = now])
         \/ count <= MaxAttempts /\ Answer("INVALID_KEY", failed)
      /\ issued' = [issued EXCEPT !.compares = @ + 1]
      /\ failures' = Append(failures, now)

\* The mismatch branch of sendKey.
WrongKey ==
  LET count == LockChecked.fail_count + 1
      failed == [LockChecked EXCEPT !.fail_count = count, !.seed_valid = FALSE]
  IN  /\ \/ count >= MaxAttempts
            /\ Answer("EXCEEDED_NUMBER_OF_ATTEMPTS",
                      [failed EXCEPT !.locked = TRUE, !.locked_ts = now])
         \/ count < MaxAttempts /\ Answer("INVALID_KEY", failed)
      /\ issued' = [issued EXCEPT !.compares = @ + 1]
      /\ failures' = Append(failures, now)

RightKey(level) ==
  /\ Answer(Positive, [LockChecked EXCEPT !.seed_valid = FALSE, !.fail_count = 0,
                                          !.unlocked_level = level])
  /\ issued' = [issued EXCEPT !.compares = @ + 1]
  /\ failures' = <<>>

\* sendKey.  sub_fn is even.  len_ok: the key has the seed's length (the
\* dispatcher lets longer ones through).
uds_core_sec_send_key(sub_fn, key, len_ok) ==
  \/ /\ sub_fn = 0
     /\ Answer("SUB_FUNCTION_NOT_SUPPORTED", sec)
     /\ UNCHANGED history
  \/ /\ sub_fn # 0 /\ check_locked
     /\ Answer("EXCEEDED_NUMBER_OF_ATTEMPTS", sec)
     /\ UNCHANGED history
  \/ /\ sub_fn # 0 /\ ~ check_locked
     /\ ~ sec.seed_valid \/ sec.pending_level # sub_fn - 1
     /\ Answer("REQUEST_SEQUENCE_ERROR", LockChecked)
     /\ UNCHANGED history
  \/ /\ sub_fn # 0 /\ ~ check_locked
     /\ sec.seed_valid /\ sec.pending_level = sub_fn - 1
     /\ \/ /\ seed_expired
           /\ Answer("REQUEST_SEQUENCE_ERROR", [LockChecked EXCEPT !.seed_valid = FALSE])
           /\ UNCHANGED history
        \/ /\ ~ seed_expired /\ ~ len_ok
           /\ Answer("INCORRECT_MSG_LEN_OR_FORMAT", LockChecked)
           /\ UNCHANGED history
        \/ /\ ~ seed_expired /\ len_ok
           /\ key # uds_core_sec_compute_key(sec.seed)
           /\ WrongKey
        \/ /\ ~ seed_expired /\ len_ok
           /\ key = uds_core_sec_compute_key(sec.seed)
           /\ RightKey(sub_fn - 1)

\* An accepted ECUReset reinitialises the whole record, lockout included.
SecurityReset ==
  /\ Answer(Positive, uds_core_security_init)
  /\ failures' = <<>>
  /\ UNCHANGED issued

Tick ==
  /\ now < MaxTime
  /\ now' = now + 1
  /\ UNCHANGED <<sec, reply, history>>

uds_core_sec_is_unlocked(level) == sec.unlocked_level = level /\ level # 0

----------------------------------------------------------------------------
NoSeed == [level |-> 0, seed |-> 0, at |-> 0, compares |-> 1]

Init ==
  /\ now = 0
  /\ sec = uds_core_security_init
  /\ reply = NoReply
  /\ issued = NoSeed
  /\ failures = <<>>

Next ==
  \/ \E sub_fn \in Levels, seed \in Seeds : uds_core_sec_request_seed(sub_fn, seed)
  \/ \E sub_fn \in {0} \cup {l + 1 : l \in Levels}, key \in Keys, len_ok \in BOOLEAN :
        uds_core_sec_send_key(sub_fn, key, len_ok)
  \/ SecurityReset
  \/ Tick

Spec == Init /\ [][Next]_vars

----------------------------------------------------------------------------
(* Properties *)

TypeOK ==
  /\ now \in Nat
  /\ sec \in Security
  /\ reply \in Replies
  /\ issued \in [level : Levels \cup {0}, seed : Seeds, at : Nat, compares : Nat]
  /\ failures \in Seq(Nat)

\* However the tester spreads its requests, any MaxAttempts + 1 consecutive
\* wrong keys (no success or reset between them) span at least the lockout:
\* the counter, the lockout and its automatic expiry add up to a rate limit.
AttemptRate ==
  \A i \in 1 .. Len(failures) :
    i + MaxAttempts <= Len(failures)
      => failures[i + MaxAttempts] - failures[i] >= LockoutSecs

\* A seed is compared with at most one key, right or wrong.
SeedUsedOnce == issued.compares <= 1

\* A level is unlocked only by the key of the seed issued last, for that level,
\* before the seed's time is up, and outside a lockout.
UnlockAnswersSeed ==
  [][sec'.unlocked_level \notin {0, sec.unlocked_level} =>
       /\ issued.level = sec'.unlocked_level
       /\ issued.seed = sec.seed
       /\ issued.compares = 0
       /\ now - issued.at < SeedTimeoutSecs
       /\ ~ check_locked]_vars
============================================================================
