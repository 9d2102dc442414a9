# A TLA+ verification of the UDS stack

The repository implements Unified Diagnostic Services (ISO 14229) over CAN: an
ECU simulator in C with an ISO-TP transport, session, security, data, trouble
code and flash services, and a tester library and tools in Python. This
directory holds TLA+ models of its core, the TLC configurations that check
them on small instances, and TLAPS proofs for the parts where a small instance
is not enough.

Paths below are relative to the repository's root, as `src/...` for the C code
and `tools/...` for the Python code.

## 1. Inventory

| Component | State | Operations | Talks to |
|---|---|---|---|
| Flash device, `src/bootloader/flash.c` | `UdsFlashMemory`: region table, `data[]` | init, address check, erase, write, read | called by the transfer services |
| Transfer services, `src/bootloader/flash_services.c` | `UdsXferSession`: mode, window, progress, block counter | 0x34, 0x35, 0x36, 0x37 | dispatcher, flash device |
| Security access, `src/core/security.c` | `UdsCoreSecurity`: pending seed and its time, unlocked level, attempt counter, lockout and its time | requestSeed, sendKey, reset, the check of a level | dispatcher, clock, random source |
| Session, `src/core/session.c` | `UdsCoreSession`: type, copy of the security level, last activity | 0x10, 0x3E, expiry test | dispatcher, clock |
| Data identifiers, `src/core/data.c` | DID registry | 0x22, 0x2E, 0x11, 0x28 | dispatcher; the unlocked level gates writes |
| Trouble codes, `src/core/dtc.c` | DTC registry | 0x14, 0x19 | dispatcher |
| Dispatcher and loop, `src/ecusim/ecusim.c` | `EcuSimulator`: all of the above, `running` | `ecusim_init`, `ecusim_dispatch`, `ecusim_run` | transport, every service |
| Process, `src/ecusim/main.c` | `g_stop` | `main`, `handle_signal` | dispatcher loop |
| Transport, `src/tp/iso_tp.c` | the locals of a call, the socket's queue | `uds_tp_send`, `uds_tp_recv`, FD variants | SocketCAN wrapper |
| SocketCAN wrapper, `src/can/can_socket.c` | socket | open, send, receive with timeout | kernel |
| Routine control, `src/core/routine_control.c` | routine registry | 0x31 | not called by the dispatcher |
| Tester client and flash service, `tools/uds/client.py`, `flash.py` | the locals of a call, the socket's queue | `_request`, `download`, `upload` | transport, ECU |
| Tester transport, `tools/uds/transport.py` | the locals of a call | send, receive | ECU's transport |
| Other tester services, `session.py`, `security.py`, `data.py`, `dtc.py` | the client's socket queue | session change, tester present, unlock, read and write, reset, communication control, DTC reports and clear | client, ECU |
| Python ECU, `tools/uds/ecusim.py` | a second, simpler ECU | the same services | tests |
| Command lines, `diag_cli.py`, `flash_tool.py` | none | argument parsing, output | tester services |

What is hard to test here, and where each component's correctness lies:

* *Transfers* are long sequences of requests in which any request may be
  repeated, dropped or out of place. A transfer must stay in its region, must
  write what was accepted and nothing else, must not touch protected cells, and
  a refusal must change nothing. The arithmetic is on `uint32_t`, the block
  counter wraps from 0xFF to 1.
* *Security access* depends on three clocks running against each other: the age
  of a seed, the lockout, and the requests. The lockout must amount to a rate
  limit whatever the order of requests.
* *The server* keeps the unlocked level twice, in the session and in the
  security record, and different services update them.
* *The transport* is two loops that decide independently when a block ends and
  meet only through frames that may be lost, late or left over from an aborted
  call.
* *The tester* may time out before the answer arrives; the late answer then
  sits in front of the next one.
* *The tester's services* put requests together and take responses apart byte by
  byte, against C code that does the same from the other end; most of them look
  at the first byte of a response only, some at none.
* *The process* has two nested loops and a signal handler.

`PROJECT.json` lists these as hazards, each at its line, with the properties
that look at it.

## 2. Modules

| Module | Models | Composes |
|---|---|---|
| `FlashTransfer` | flash device and transfer services | |
| `SecurityAccess` | security access | |
| `EcuServer` | dispatcher, session, data, DTC, reset | `SecurityAccess`, `FlashTransfer` |
| `PduChannel` | what a transport promises (abstract) | |
| `IsoTp` | `uds_tp_send` against `uds_tp_recv`, classic CAN and CAN FD | refines `PduChannel` |
| `TesterTransport` | the Python transport against `ecusim_run` on the C one | `IsoTp` twice, refines `PduChannel` twice |
| `FlashProgrammer` | tester's client and flash service against the ECU | `FlashTransfer` |
| `TesterServices` | tester's session, security, data and DTC services against the ECU, byte by byte | `EcuServer` |
| `EcuSimMain` | the process's loops and signal handler | |
| `FlashTransferProofs`, `SecurityAccessProofs`, `IsoTpProofs` | theorems about one component | |
| `EcuServerProofs`, `FlashProgrammerProofs`, `TesterTransportProofs`, `TesterServicesProofs` | theorems about compositions | the proofs of their components |
| `SetInduction` | induction over the natural numbers, for proofs | |

Definitions carry the names of the C and Python functions they translate, and
`PROJECT.json` maps each to its lines. A definition whose comment begins with
*Mutant of* is a plausible bug kept beside the definition it changes; no
specification uses it.

**FlashTransfer.** `data` is `UdsFlashMemory.data`, `xfer` the
`UdsXferSession`. One action is one request, because the dispatcher is single
threaded and handles a request to its end. Requests of every kind are possible
in every state. Words are taken modulo `WordMod` (2^32 in the code) wherever the
code computes with `uint32_t`. `parse_addr_len_fmt` is abstracted to its
outcome: a failure, or any pair of words. `origin`, `image` and `counters` are
history variables: the flash when the transfer was accepted, the bytes accepted
or served, and the counters they came with.

**SecurityAccess.** `sec` is `UdsCoreSecurity`, field by field. `now` is the
`tv_sec` of the monotonic clock: all of the code's time arithmetic is on whole
seconds. `LockChecked` is the side effect of `check_locked`, which clears an
elapsed lockout together with the counter. `issued` and `failures` are history
variables.

**EcuServer.** One action per service of `ecusim_dispatch`. It instantiates the
two modules above on its own variables; each of their actions is a step of the
server, with the copy of the unlocked level into the session added as the
dispatcher does. `flashReply`, `secReply` and `reply` are the last responses of
the transfer services, of 0x27, and of the others. Requests that fail the
dispatcher's length checks are one action. Identifiers, values and trouble codes
are bytes, so that `TesterServices` can put them on the wire. `granted` is a
history variable: the level of the last right key since the last reset.

**IsoTp.** The two calls are loops around blocking reads and writes, so each
frame read or written is a step and the sides interleave between frames. `tx`
and `rx` are the locals of the calls, `toRx` and `toTx` the socket queues. A
failed call leaves its unread frames in the queue. The variable `fd` says whether
a behaviour is on classic CAN or on CAN FD: the loops of `uds_tp_send_fd` and
`uds_tp_recv_fd` have the same steps, but other sizes and, for long single and
first frames, a second form with the length in a field of its own (`ext`). What
the sender takes as the size of its first frame (`ff_embed`) is worked out
separately from the frame, as in the code. Faults are lost frames, failed writes
and reads, and frames of somebody else at a waiting sender. The variable `bus`
says whether a behaviour has any: on a faulty bus a timeout may fire whenever a
queue is empty, on a clean one it needs nothing to be under way. `PduChannel` is
the abstract specification; the refinement mapping takes the histories as they
are, but for the one exception of section 6, and reads the position of the last
delivered PDU off the PDU's own bytes, which are all different.

**TesterTransport.** One request at a time from the tester and its response,
frame by frame, on the two queues that carry everything: requests and the
tester's flow control in one direction, responses and the ECU's flow control in
the other. The ECU is `ecusim_run`, which receives, dispatches and sends in a
single thread; its two calls are instances of `IsoTp` on these queues. The
tester is `_request` with `send` and `recv` of `transport.py`, whose
multi-frame receive has one deadline for all frames. On CAN FD both sides take
their CAN FD variants; the frames of each side are built by that side's own rules
and read by the other's. Each direction is shown to refine a `PduChannel` of its
own.

**FlashProgrammer.** The tester's `download` and `upload` step by step, each
step one turn of `_request`, against an instance of `FlashTransfer`, over a bus
of whole PDUs that is clean, loses PDUs, or is faulty: there PDUs get lost and
the client may also time out before the answer is there. A job that fails may be
followed by another on the same client while old requests and responses are
still in flight. `lost` and `clear` are history variables: whether a PDU was
lost, and whether the last call found nothing in flight. The start request is packed as `flash.py` packs it, with field lengths
chosen by the caller, and unpacked by `parse_addr_len_fmt`; arguments that do not
fit their field raise before anything is sent. The block length in the response
is a constant of the ECU and is taken as such.

**TesterServices.** A call is a method of one of the four services: a request of
bytes, the turns of `_request`, and what the method makes of the response. `call`
is the current or last one, `pc` where it waits, `outcome` how it ended. `unlock`
is two exchanges. The ECU is an instance of `EcuServer`; `ecusim_dispatch` takes
the request apart, `PositiveResponse` and `build_nrc` put the response together.
The channels carry whole PDUs on a clean, a lossy or a late bus (no loss, but early
timeouts), and any call may follow a call that raised. What a method returns (`ReadDids`,
`ReadSession`, `ReadCount`, `_parse_dtc_records`) is a function of the response,
compared in the properties with what the ECU holds.

**EcuSimMain.** Only control flow: the two loops, the signal handler, and the
fact that nothing writes `running` after `ecusim_init`.

## 3. Runs

Passing runs:

* `flash_transfer`: every request in every state on a six-cell flash with a
  protected region, a writable one and a hole. `WordMod` is 8, so addresses
  beyond the flash exist and sums wrap; `SeqMax` is 2 while the writable region
  takes three blocks, so the counter wraps. Checks the window, the contents of
  downloads and uploads, block order, atomicity of refusals, protection and
  exclusiveness.
* `security_access`: two levels, two seeds, two attempts, and a clock that runs
  past two lockouts, so that seeds expire, survive a lockout or are replaced, and
  attempts before and after a lockout are counted together.
* `ecu_server`: the composition with a one-cell flash, two levels and two DIDs.
  Checks that the session's copy of the level is sound, that DID writes are
  gated, and that no service of one component disturbs another: the server
  implements `SecurityAccess`; between resets no service gives a tester more
  attempts (`AttemptsKept`), and none but 0x34 to 0x37 changes the transfer or the
  flash (`FlashBetweenResets`). What a reset does to a transfer is left open by that
  property, since code and design disagree about it (section 5); the flash it has
  to keep. The `VIEW` leaves the last responses out: no
  guard reads one, so states that differ only there have the same successors;
  action properties are still evaluated on every step generated, responses
  included. The component runs cover the sizes this instance is too small for.
* `iso_tp`: three calls of `uds_tp_send`, or of `uds_tp_send_fd`, on a clean bus
  and on one with two faults, where frames of every type may be lost. Frames carry
  two bytes (four on CAN FD) and sequence numbers have one bit, so a PDU of seven
  bytes takes three consecutive frames: numbers repeat within a PDU and two blocks
  are needed; a PDU longer than the receiver's buffer and one too long for
  classic CAN occur. The CAN FD lengths lie on both sides of the thresholds between
  the forms of single and first frames, and between the two. Two aborted calls
  and a third call that meets their remains is the shortest scenario for a mix-up,
  hence the bound of three calls. Checks the refinement of `PduChannel` and that
  both calls always return. On the clean bus, over lengths that end inside a
  block, at its end and in a single frame, it checks that every PDU that fits is
  delivered and that no flow control is left over.
* `tester_transport`: three requests, each with a response, of one frame and of
  several, on classic CAN and on CAN FD, on a clean bus and on one with two faults.
  The block size is 0, which is what the simulator configures. Checks that each
  direction refines `PduChannel` although both share queues with the other's flow
  control and with the remains of aborted calls, that a request always ends, that
  the ECU always returns to listening, and that on a clean bus every request gets
  the response to itself.
* `flash_programmer`: downloads and uploads that overlap, with address and length
  fields of different lengths, two disturbances and up to three PDUs in flight,
  on a clean and on a faulty bus, the second of which includes what a lossy bus
  does. Checks that a job that reports success did what was asked for whatever is
  left of earlier jobs, that jobs end, and that on a clean bus none fails whose
  arguments fit their fields. `DownloadOk` and `UploadOk` have one exception
  (`Trusted`), explained in section 6.
* `tester_services`: calls of every service, accepted and refused ones, in any
  order, on a clean bus and on one that loses a request or a response; one
  disturbance, which is a loss or a RESPONSE_PENDING answer, and two PDUs in
  flight (a client that runs out of turns for RESPONSE_PENDING is in
  `flash_programmer`). Two trouble codes of different groups and statuses, three
  identifiers, of which one can be told from the end of another's value only with
  care and one needs an unlock; seeds of one byte, zero among them. Checks that
  what a call returns is what the ECU holds (`ReadOk`, `ReportsOk`), that a
  successful `unlock` unlocked (`UnlockOk`), that on a clean bus nothing times out
  or is misunderstood (`CleanCallUnderstood`), and that every call ends. Two
  conditions are stated in the properties because the code needs them: the
  values read are `Unambiguous`, and the seed drawn is not zero (section 5). The
  clock stands still in this run; expiry and lockout are those of
  `security_access`.

Runs that show a disagreement between the code and what the repository says of
it (section 5): `default_session_locks`, `flash_restart`, `shutdown`,
`read_count`, `unlock_late`.

Deadlock is checked except in `flash_programmer` and `flash_restart`, where the
user may stop starting jobs, `shutdown`, where the process may exit, and `unlock_late`,
where late responses fill the bound on PDUs in flight (`MaxInFlight`) and the program
makes no further call.

### Fairness

* `IsoTp`: weak fairness of each side. Both are ordinary processes; a blocking
  read is a `select()` with a timeout. No fairness of the bus is assumed: frames
  may be lost up to the bound.
* `TesterTransport`: weak fairness of the tester and of the ECU, for the same
  reason; `recv` of `transport.py` has a timeout or a deadline on every path.
* `FlashProgrammer`: weak fairness of the client, whose `recv` ends with a
  response or a timeout, and of the ECU's loop. `RetrySpec` adds that the user
  tries again after a failure, which is the assumption of the requirement that
  run tests.
* `TesterServices`: the same fairness of client and ECU.
* `EcuSimMain`: weak fairness of the process. Signals are not fair; the property
  says what follows one.
* `FlashTransfer`, `SecurityAccess` and `EcuServer` have safety properties only
  and no fairness: a tester need not send anything.

## 4. Proofs

TLC covers instances of a few cells, seconds, frames and jobs. The theorems hold
for all values of the constants under the `ASSUME`s of the modules, which TLC
evaluates on the instances. An invariant that is about to be proved was first
checked by TLC on instances like those of the runs.

**`FlashTransferProofs`**, from `SizesAssumption` (the flash is not empty and
smaller than the word, sizes are positive) and `RegionsAssumption` (the regions
lie in `data[]` and do not overlap; `uds_flash_init` checks neither). The
properties are not inductive one by one: that a block lands inside `data[]` needs
the window, that the window holds the accepted blocks needs a position that does
not wrap, and the counter's type needs the block order. The inductive invariant
`IInv` is the conjunction of `TypeOK`, `WindowInRegion`, `DownloadContents`,
`UploadServed` and `BlocksInOrder`. `NoWrap` shows that under it every
`uint32_t` expression of `uds_svc_transfer_data` equals its mathematical value;
there is one lemma for each way a request changes the state, and `NextInv`
combines them. `BlocksProgrammable`, `ProtectedCellsFixed` and `TransferExclusive`
follow from the invariant and a look at each action. `ProtectionHolds` is where
non-overlap is used: the region that contains a written range is then the only
one that contains its cells.

**`SecurityAccessProofs`**, from `SecurityAssumption`. `AttemptRate` says that any
`MaxAttempts + 1` consecutive wrong keys span at least a lockout. It is not
inductive; the invariant adds that failures are sorted and in the past
(`FailuresSorted`), that a lockout starts at the last failure with the counter
full (`LockoutInv`), and that the failures the counter counts are separated from
earlier ones by a lockout (`GapInv`). With them, the failure `MaxAttempts` places
back always lies before such a gap. `SeedInv` ties the pending seed to the
history of issued ones, from which `UnlockAnswersSeed` follows, and that a seed is
compared with one key at most (`SeedsSingleUse`).

**`EcuServerProofs`**, from `ServerAssumption` and from what the two components
assume (`ComponentsAssumption`). `SecurityRefined` and `FlashRefined` prove the
refinements step by step: an action of the server is an action of the component
or leaves the component's variables alone. In this code that goes for ECUReset and
the transfer too; `TransfersUndisturbed` is the part that does not depend on it. The
theorems of the two modules above then hold of the server (`EcuUnlocksJustified`,
`EcuDownloadCorrect`, `EcuProtectionHolds`), with all other services in between, and
so do the types of their variables (`EcuTypeCorrect`). The rate limit on wrong keys
is one between resets: an accepted ECUReset clears counter, lockout and record of
wrong keys. `EcuAttemptsRateLimited` says that nothing else does but the right key
and, for counter and lockout, the end of the lockout, and that the wrong keys on
record are as far apart as `AttemptRate` demands.
The server's own invariant is `TypeOK` with `SecurityLevelSound`: the copy of the
level is written from the request, so that it is right depends on what a
positive answer to sendKey says of the record (`SendKeyOutcome`), and `granted`
ties the record to the last right key. `WritesGated` follows, since the check of
a write looks at the record.

**`IsoTpProofs`**, from `TransportAssumption` (sizes are positive, a first frame
carries no more than a single one could, a sequence number has more than one
value). `TransportIsChannel` is the refinement of `PduChannel`, for any number of
calls and faults. The inductive invariant says what every frame
under way is: a piece of one PDU, at a place of that PDU, with the sequence
number of that place; the frames of the queue are in the order of sending, behind
the sender and ahead of the receiver (`QueueInv`, `SenderInv`, `ReceiverInv`).
The receiver takes a frame by its sequence number only, so frames of an aborted
call could continue another: `StartedInv` and `FlowInv` show that consecutive
frames follow their own PDU's first frame, unless the call took flow control of
an earlier one and lost its first frame, the exception of section 6. Which
PDUs are left out of the mapping is a recursive function over the history
(`Regular`); the facts about it are proved by induction over its length.

The second half of the module is about a clean bus. There the sender is never ahead of the flow
control it waits for. `CleanInv` relates the two loops: the receiver's next frame
is what it expects, the frames under way leave no gap, and the two block counters,
which each side keeps for itself, differ by the frames in the queue. That no flow
control is left over (`FlowAllTaken`) and that everything that fits arrives
(`CleanBusDelivers`, the safety half of `EveryPduDelivered`) follow.

**`FlashProgrammerProofs`**, from `ProgrammerAssumption` (a byte has `Radix`
values, the word `WordBytes` bytes, the jobs are well formed) and what the ECU
assumes (`EcuAssumption`). First, what `to_bytes` packs, `parse_addr_len_fmt`
unpacks, for every radix and every pair of field lengths (`RequestParsed`); this
needs the division of a number into digits and back, by induction over the
length. Then the invariant, which has `FlashTransfer`'s and two views of the
queues. `SyncInv` is about a call that started with a quiet bus: at most one final
answer is under way, its own, and the ECU's transfer is exactly as far as the
call, before and after the answer. `StaleInv` is about any other call, as long as
no PDU was lost: answers are taken in the order of the requests, at most one of
them is a positive answer to a transfer start, and if a call takes it for its
own, the answer to its own start is still to come and not positive. It meets this
answer where it waits for one to 0x36 and raises; so no such call returns
(`StaleCall`). `DownloadsOk` and `UploadsOk` follow with the flash contents that
`FlashTransferProofs` shows. `CleanJobsSucceed` has one assumption more,
`JobsAccepted`: the flash device accepts the ranges of the jobs, as it does those
of the instance (`MCFlashProgrammer` asserts it). Its invariant `CleanInv` says
that on a clean bus the answer a call waits for is under way: either its request
is, and the ECU is in a state to grant it (`OwnGranted`), or the last response is
the positive one; and that RESPONSE_PENDING answers, taken and still to be taken,
are no more than the disturbances. That the ECU grants every block until the last
byte is `BlockGranted` of `FlashTransferProofs`.

**`TesterTransportProofs`**, from `SidesAssumption`, which is `IsoTp`'s assumption
about the constants of the two sides. `TesterTypeCorrect`: the tester's buffer
grows by what is missing of the announced length (`_recv_multi`), so that it
stays within that length needs an invariant about the frames in its queue, left
over ones included: a first frame from the ECU announces at least what it brings
(`TesterFrame`). Of a first frame to the ECU this is false, since the tester cuts
the length to 12 bits (`FirstFrame`); the ECU refuses such a frame, whose length a
single frame could have.

The two refinements use `IsoTpProofs` twice. The frames of a request and the flow
control for it are in different queues, each among frames of the other direction:
the two queues, split by the kind of frame (`Picked`), and the locals of `send()`
(`pyTx`) or `recv()` (`pyRx`) in the terms of the C functions make an `IsoTp` for
the requests (`ReqTp`) and one for the responses (`RespTp`). A step of the whole
is one of `IsoTp`, with its invariant and its step of the channel; or one in
which this direction loses flow control that nobody waits for
(`RequestFlowStep`); or a frame is taken for what it is not, a call gives up on
it, and the reception it belonged to cannot be completed (`RequestGivenUp`,
`RequestDropped`); likewise for responses. `recv()` counts no blocks and has no
bound on a response: its half is `IsoTp` without blocks, with a buffer as large as
the longest PDU.

What the theorems assume beyond `SidesAssumption` is what the two programs need:

* `RequestsRefined`: `NoBlocks`, since with blocks `send()` waits for flow control
  that never comes after a complete last one, and raises for a request that arrived;
  and `RequestsFit`, since a longer length is cut to 12 bits on classic CAN (both in
  section 5);
* `ResponsesRefined`: `BoundedBy` some number: there is a longest PDU.

`MCTesterTransport` asserts the three of its instance.

**`TesterServicesProofs`**, from `ServicesAssumption` (seeds and values are numbers
and sequences of them, P2* is sent in units of 10 ms), `EcuAssumption` (what
`EcuServer` assumes of its constants) and `CallsAssumption`: the calls are calls of
the methods with some arguments (`MethodCall`), a written value of the right length is
one of `DidValues`, and no trouble code is the group of all of them, `FF FF FF`. The
instance asserts all three, and `TimesAssumption`: P2 and P2* are `uint16_t`. Four
layers:

* The data. `FlattenSeq` is a recursive function: that its result is the sequences one
  after the other (`FlattenPlaces`) is proved by induction over their number. From
  the places follow that `_parse_dtc_records`, which cuts a response every four bytes,
  finds the records of the selected trouble codes and those only (`RecordsParsed`),
  and that the search of `read()` for the two bytes of the next identifier stops where
  the ECU has put it (`NextIsNext`), so that the split returns every identifier with
  its value (`ReadBack`), unless a value, or its end together with the identifier after
  it, contains that identifier. An identifier asked for twice is covered.
* The ECU. Every request that is or may come under way (`Shape`) is taken apart by
  `ecusim_dispatch` into a step of `EcuServer` (`EcuInsideRefined`), whose invariants
  then hold here, with the tester as the only user.
* Types (`ServicesTypeCorrect`). `Inv` says what the requests and responses in flight
  look like (`WellFormed`, `IsResponse`), and has the invariants of the ECU.
* What the answers mean. `RightAnswer` says, service by service, what a positive answer
  tells of the ECU. That it is still true when the call returns is not inductive.
  `StepInv` follows the one request that counts: it is on its way, last and behind
  suppressed Tester Present requests, which change nothing that answers speak of
  (`SuppressedRun`); or it or its response is lost, and nothing but RESPONSE_PENDING
  answers is under way; or its right answer is on its way, last, and the ECU has
  nothing more to serve. `Understood` keeps what was returned true until another
  request is sent. It also counts the turns of `_request` against the disturbances, so
  that on a clean bus the attempts suffice.

`CleanCallsUnderstood`, `UnlocksGranted`, `ReportsTrue` and `ReadsTrue` follow. All
four are about responses in step (`InStep`): no early timeout, and no more
disturbances than the client takes RESPONSE_PENDING answers, since beyond that it gives
up with responses under way. A status mask is tested bit by bit (`Selected`), which is
what `status & mask` is not 0 says, in terms the provers have.

`SetInduction` states induction over the natural numbers for a set instead of a
predicate: a theorem that takes an operator as its parameter cannot be instantiated
by the provers at hand.

Only model-checked:

* liveness (`CallsReturn`, `EveryPduDelivered`, `RequestEnds`, `EcuRecovers`,
  `CleanExchange`, `JobEnds`, `CallEnds`), which needs `ENABLED` and fairness;
* the refutations of section 5, which are behaviours of the instances.

Every invariant and action property of the passing runs has its theorem.

## 5. Where the code and its documents disagree

* `shutdown`: `main.c:9` promises a clean shutdown on SIGTERM or SIGINT. The
  handler sets `g_stop`, which `main` tests only between calls of `ecusim_run`;
  that function loops on `sim->running`, which nothing clears.
* `default_session_locks`: `session.c:87` says that a return to the default
  session clears security access. It clears the session's copy; the level that
  gates DID writes is in the security record and stays.
* `flash_restart`: the requirements ask for recovery and restart after an
  interruption. An interrupted transfer stays active through session changes and
  ECUReset, and `flash.py` never sends 0x37 except at the end, so every later
  attempt is refused.
* `read_count`: `dtc.py:35` promises the number of matching trouble codes. The
  ECU answers `59 01 mask format count_hi count_lo`; the method takes the format
  and the high byte of the count for the number, 256 for two codes.
* `unlock_late`: `security.py:61` says `True` if the ECU granted access and an
  exception otherwise. A first call asks for a seed and times out; the second asks
  again, takes the late first seed for its own, sends the key for it, takes the
  second seed response, which begins with 0x67 as well, for the answer to its
  key, and returns `True`. The ECU has replaced the first seed and refuses the
  key.

Without a run of their own:

* The S3 timeout of the protocol design returns an idle session to default; nothing
  in the simulator calls `uds_core_session_expired`.
* The bootloader design has 0x37 check that all blocks have arrived;
  `uds_svc_transfer_exit` checks only that a transfer is active.
* The bootloader design makes the block size of flow control configurable, with 4
  as its value. With a block size that divides the number of consecutive frames
  `_send_multi_classic` and `_send_multi_fd` wait for flow control after the last
  block, which the C receiver does not send, and take the response for it or time
  out. The simulator configures 0 and is not affected; with another value
  `CleanExchange` fails.
* `read()` of several identifiers ends a value at the first occurrence of the two
  bytes of the next identifier, which the value may contain, or its last byte
  together with the identifier after it. `ReadOk` holds for the other values.
* The ECU draws seeds with `rand()`; a seed of zeros tells the tester that it is
  already unlocked. `UnlockOk` names the case.
* A request of more than 4095 bytes on classic CAN is sent by `transport.py` with
  its length cut to 12 bits.
* The protocol design (03, lines 289 to 293) has an accepted ECUReset clear the
  transfer context, and all state with it (line 306); its table of negative
  responses (line 329) would refuse the reset while a transfer is active. The
  dispatcher does neither: it reinitialises session and security record, and a
  transfer that was active stays so. `FlashBetweenResets` holds of the code as it is
  and of one that does what the design says.
* The comment at `flash_services.c:36` swaps the nibbles that the code
  reads; `uds_svc_read_did` does not look at `min_session`, which `uds_data.h:44`
  describes as the minimum session to read.

## 6. Limits

* `DownloadOk` and `UploadOk` have one exception. The client tells responses apart
  by service only. A call that starts while a response of an aborted call is in
  flight can take the aborted call's positive answer to 0x34 for its own, and then
  a block's; the negative answer to its own 0x34 gives that away. If this
  answer is lost as well, the call goes on in the aborted call's transfer and
  may return although its data went elsewhere. `Trusted` excludes a call that did not start
  with a quiet bus once a PDU was lost, and nothing else: either alone does no
  harm, which is proved.

* The transport's refinements (`iso_tp` and `tester_transport`) have one
  exception: a call that starts on flow control left over from an aborted call,
  and whose own first frame is lost as well. Its consecutive frames then complete
  the older reception. ISO-TP has no field that could tell the two apart, and no
  document of the repository claims that the transport does. The histories
  `stale` and `lost` mark exactly these calls; a PDU with bytes of such a call is
  left out of the refinement mapping. Either alone does no harm, which the runs
  show.
* STmin pauses, malformed frames and the identifiers and filters of the sockets
  are not modelled, nor is the padding of CAN FD frames to the next valid length.
* `FlashProgrammer` and `TesterServices` take the transport to be a `PduChannel` in
  each direction, which is what `tester_transport` checks.
* `TesterServices` allows for late responses in `unlock_late` only: since most
  methods look at the first byte of a response at best, its other properties are
  stated for responses that are in step with their requests (`InStep`). They are
  so after any loss, because a client that got no response left none behind.
* Not modelled: routine control (a library function that no program of the
  repository calls), the names of the NRCs (a table of strings), socket set-up
  (system calls), the Python ECU (a second, smaller server for the tester's
  tests), command lines (parsing and output).

## 7. Plan

Every safety property that a passing run checks is proved. What could follow:

* for `TesterTransport` on a clean bus what `IsoTpProofs` shows for `IsoTp`, the safety
  half of `CleanExchange`;
* `InStep` counts lost PDUs like RESPONSE_PENDING answers, as one number of
  disturbances; with two numbers `TesterServices` would allow any number of losses.
