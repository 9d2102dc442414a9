--------------------------- MODULE FlashTransfer ---------------------------
(***************************************************************************)
(* The ECU's flash device (src/src/bootloader/flash.c) and the transfer    *)
(* services built on it (src/src/bootloader/flash_services.c):             *)
(*                                                                         *)
(*   0x34 RequestDownload, 0x35 RequestUpload, 0x36 TransferData,          *)
(*   0x37 RequestTransferExit.                                             *)
(*                                                                         *)
(* One action is one request handled to its end by the single-threaded     *)
(* dispatcher.  Requests arrive in any order and any number of times (a    *)
(* tester that retries, gives up, or starts again), so the environment is  *)
(* every legal or illegal request in every state.                          *)
(*                                                                         *)
(* Left out: NULL-pointer checks and the ERR_BUF returns.  The dispatcher  *)
(* passes a 4095-byte response buffer and the longest response here has    *)
(* 2 + FLASH_MAX_BLOCK_DATA = 17 bytes, so those returns are not reachable.*)
(***************************************************************************)
EXTENDS Integers, Sequences

CONSTANTS
  WordMod,        \* 2^32: a uint32_t is taken modulo this
  FlashSize,      \* UDS_FLASH_MAX_SIZE, the length of data[]
  Regions,        \* the region table, a sequence of region records
  Byte,           \* the values of a flash cell
  EraseValue,     \* UDS_FLASH_ERASE_VALUE (0xFF)
  MaxBlockData,   \* FLASH_MAX_BLOCK_DATA (15)
  SeqMax,         \* 0xFF, the last block sequence counter before the wrap
  MaxDataLen      \* bound: the longest block a TransferData request carries

Word == 0 .. WordMod - 1
Cells == 0 .. FlashSize - 1
Region == [base_address : Word, size : Word, protected : BOOLEAN]

(***************************************************************************)
(* uds_flash_init() copies the region table unchecked, and the code        *)
(* indexes data[] with the addresses it accepts: a table must lie inside   *)
(* data[], and protection is only meaningful for regions that do not       *)
(* overlap.                                                                *)
(***************************************************************************)
ASSUME SizesAssumption ==
  /\ FlashSize \in Nat
  /\ WordMod \in Nat
  /\ 0 < FlashSize
  /\ FlashSize < WordMod
  /\ MaxBlockData \in Nat \ {0}
  /\ SeqMax \in Nat \ {0}
  /\ MaxDataLen \in Nat
  /\ EraseValue \in Byte

ASSUME RegionsAssumption ==
  /\ Regions \in Seq(Region)
  /\ \A i \in 1 .. Len(Regions) :
        Regions[i].base_address + Regions[i].size <= FlashSize
  /\ \A i, j \in 1 .. Len(Regions) :
        i # j =>
          \/ Regions[i].base_address + Regions[i].size <= Regions[j].base_address
          \/ Regions[j].base_address + Regions[j].size <= Regions[i].base_address

VARIABLES
  data,      \* UdsFlashMemory.data
  xfer,      \* UdsXferSession
  reply,     \* the response of the last request
  origin,    \* history: data as it was when the active transfer was accepted
  image,     \* history: the bytes accepted (download) or served (upload) so far
  counters   \* history: block counters of the blocks accepted in this transfer

vars == <<data, xfer, reply, origin, image, counters>>
history == <<origin, image, counters>>

Modes == {"IDLE", "DOWNLOAD", "UPLOAD"}

Xfer == [mode : Modes, address : Word, total_length : Word,
         transferred : Word, block_seq : 0 .. SeqMax]

Nrcs == {"CONDITIONS_NOT_CORRECT", "INCORRECT_MSG_LEN_OR_FORMAT",
         "REQUEST_OUT_OF_RANGE", "GENERAL_PROGRAMMING_FAILURE",
         "WRONG_BLOCK_SEQUENCE_COUNTER", "TRANSFER_DATA_SUSPENDED"}

\* The dispatcher's three outcomes: no response at all, a negative response
\* 7F sid nrc, or a positive one.
NoReply == "none"
Positive == "positive"
Replies == {NoReply, Positive} \cup Nrcs

----------------------------------------------------------------------------
(* The flash device *)

\* Mutant of Contains: the range test as a sum, which wraps in uint32_t.
ContainsBySum(r, address, length) ==
  /\ address >= r.base_address
  /\ address - r.base_address < r.size
  /\ (address + length) % WordMod <= r.base_address + r.size

\* Mutant of Contains: the region's last cell is not accepted as a start.
ContainsLastCellMissed(r, address, length) ==
  /\ address >= r.base_address
  /\ address - r.base_address < r.size - 1
  /\ length <= r.size - (address - r.base_address)

\* The test find_region makes of region r.  Both subtractions are guarded by
\* the comparisons before them, so neither wraps.
Contains(r, address, length) ==
  /\ address >= r.base_address
  /\ address - r.base_address < r.size
  /\ length <= r.size - (address - r.base_address)

\* find_region returns region i: the first of the table that contains the range.
find_region(i, address, length) ==
  /\ i \in 1 .. Len(Regions)
  /\ Contains(Regions[i], address, length)
  /\ \A j \in 1 .. i - 1 : ~ Contains(Regions[j], address, length)

uds_flash_address_valid(address, length) ==
  /\ length # 0
  /\ \E i \in 1 .. Len(Regions) : find_region(i, address, length)

\* Mutant of Programmable: the protected flag is not looked at.
ProgrammableAnyRegion(address, length) ==
  /\ length # 0
  /\ \E i \in 1 .. Len(Regions) : find_region(i, address, length)

\* The guard shared by uds_flash_erase and uds_flash_write: they succeed on a
\* non-empty range of one region that is not protected.
Programmable(address, length) ==
  /\ length # 0
  /\ \E i \in 1 .. Len(Regions) :
        find_region(i, address, length) /\ ~ Regions[i].protected

\* Mutant of uds_flash_erase: the last cell of the range is not erased.
EraseOneShort(address, length) ==
  [c \in Cells |-> IF c \in address .. address + length - 2
                   THEN EraseValue ELSE data[c]]

uds_flash_erase(address, length) ==
  [c \in Cells |-> IF c \in address .. address + length - 1
                   THEN EraseValue ELSE data[c]]

uds_flash_write(address, bytes) ==
  [c \in Cells |-> IF c \in address .. address + Len(bytes) - 1
                   THEN bytes[c - address + 1] ELSE data[c]]

uds_flash_read(address, length) == [k \in 1 .. length |-> data[address + k - 1]]

----------------------------------------------------------------------------
(* The transfer services *)

\* memset(xfer, 0, sizeof *xfer): UDS_XFER_IDLE is 0.
uds_xfer_init == [mode |-> "IDLE", address |-> 0, total_length |-> 0,
                  transferred |-> 0, block_seq |-> 0]

\* The code's start of a transfer; max_block_size is always MaxBlockData.
StartXfer(mode, address, mem_size) ==
  /\ xfer' = [mode |-> mode, address |-> address, total_length |-> mem_size,
              transferred |-> 0, block_seq |-> 1]
  /\ reply' = Positive
  /\ origin' = data
  /\ image' = <<>>
  /\ counters' = <<>>

Refuse(nrc) ==
  /\ reply' = nrc
  /\ UNCHANGED <<data, xfer, history>>

\* parse_addr_len_fmt decodes the request into an address and a size, or
\* fails: fmt_ok says which.  Every pair of words is some request's value.
uds_svc_request_download(fmt_ok, address, mem_size) ==
  \/ xfer.mode # "IDLE" /\ Refuse("CONDITIONS_NOT_CORRECT")
  \/ xfer.mode = "IDLE" /\ ~ fmt_ok /\ Refuse("INCORRECT_MSG_LEN_OR_FORMAT")
  \/ /\ xfer.mode = "IDLE" /\ fmt_ok
     /\ ~ uds_flash_address_valid(address, mem_size)
     /\ Refuse("REQUEST_OUT_OF_RANGE")
  \/ /\ xfer.mode = "IDLE" /\ fmt_ok
     /\ uds_flash_address_valid(address, mem_size)
     /\ ~ Programmable(address, mem_size)
     /\ Refuse("GENERAL_PROGRAMMING_FAILURE")
  \/ /\ xfer.mode = "IDLE" /\ fmt_ok
     /\ uds_flash_address_valid(address, mem_size)
     /\ Programmable(address, mem_size)
     /\ data' = uds_flash_erase(address, mem_size)
     /\ StartXfer("DOWNLOAD", address, mem_size)

\* Mutant of uds_svc_request_upload: an active transfer is not checked for.
UploadAnyTime(fmt_ok, address, mem_size) ==
  \/ ~ fmt_ok /\ Refuse("INCORRECT_MSG_LEN_OR_FORMAT")
  \/ /\ fmt_ok
     /\ uds_flash_address_valid(address, mem_size)
     /\ UNCHANGED data
     /\ StartXfer("UPLOAD", address, mem_size)

uds_svc_request_upload(fmt_ok, address, mem_size) ==
  \/ xfer.mode # "IDLE" /\ Refuse("CONDITIONS_NOT_CORRECT")
  \/ xfer.mode = "IDLE" /\ ~ fmt_ok /\ Refuse("INCORRECT_MSG_LEN_OR_FORMAT")
  \/ /\ xfer.mode = "IDLE" /\ fmt_ok
     /\ ~ uds_flash_address_valid(address, mem_size)
     /\ Refuse("REQUEST_OUT_OF_RANGE")
  \/ /\ xfer.mode = "IDLE" /\ fmt_ok
     /\ uds_flash_address_valid(address, mem_size)
     /\ UNCHANGED data
     /\ StartXfer("UPLOAD", address, mem_size)

\* uint32_t arithmetic on the session's fields
Remaining == (xfer.total_length - xfer.transferred) % WordMod
\* Mutant of Position: transferred is not added.
PositionOfWindow == xfer.address

Position == (xfer.address + xfer.transferred) % WordMod
ToRead == IF Remaining < MaxBlockData THEN Remaining ELSE MaxBlockData

\* Mutants of NextBlockSeq: no wrap at all, and uint8_t's own wrap to 0.
BlockSeqNoWrap(seq) == seq + 1
BlockSeqWrapsToZero(seq) == (seq + 1) % (SeqMax + 1)

\* "wrap 0xFF -> 0x01, never 0x00"
NextBlockSeq(seq) == IF seq = SeqMax THEN 1 ELSE seq + 1

\* What both directions do once a block went through.
Advance(seq, bytes) ==
  /\ xfer' = [xfer EXCEPT !.transferred = (@ + Len(bytes)) % WordMod,
                          !.block_seq = NextBlockSeq(@)]
  /\ reply' = Positive
  /\ image' = image \o bytes
  /\ counters' = Append(counters, seq)
  /\ UNCHANGED origin

\* Mutant of TransferDownload: a block that is too long is programmed as far as
\* it fits before the request is refused.
LongBlockHalfWritten(seq, bytes) ==
  \/ /\ Len(bytes) > Remaining
     /\ data' = uds_flash_write(Position, SubSeq(bytes, 1, Remaining))
     /\ reply' = "TRANSFER_DATA_SUSPENDED"
     /\ UNCHANGED <<xfer, history>>
  \/ /\ bytes # <<>> /\ Len(bytes) <= Remaining
     /\ Programmable(Position, Len(bytes))
     /\ data' = uds_flash_write(Position, bytes)
     /\ Advance(seq, bytes)

\* An empty block returns ERR_PARAM with no NRC, so nothing is sent back.
TransferDownload(seq, bytes) ==
  \/ /\ bytes = <<>>
     /\ reply' = NoReply
     /\ UNCHANGED <<data, xfer, history>>
  \/ /\ Len(bytes) > Remaining
     /\ Refuse("TRANSFER_DATA_SUSPENDED")
  \/ /\ bytes # <<>> /\ Len(bytes) <= Remaining
     /\ Programmable(Position, Len(bytes))
     /\ data' = uds_flash_write(Position, bytes)
     /\ Advance(seq, bytes)

TransferUpload(seq) ==
  /\ uds_flash_address_valid(Position, ToRead)
  /\ Advance(seq, uds_flash_read(Position, ToRead))
  /\ UNCHANGED data

\* uds_flash_write or uds_flash_read refuses the range: in an upload that is
\* the request after the last byte, whose to_read is 0.
DeviceRefuses(bytes) ==
  \/ /\ xfer.mode = "DOWNLOAD"
     /\ bytes # <<>> /\ Len(bytes) <= Remaining
     /\ ~ Programmable(Position, Len(bytes))
  \/ xfer.mode = "UPLOAD" /\ ~ uds_flash_address_valid(Position, ToRead)

uds_svc_transfer_data(seq, bytes) ==
  \/ xfer.mode = "IDLE" /\ Refuse("CONDITIONS_NOT_CORRECT")
  \/ /\ xfer.mode # "IDLE" /\ seq # xfer.block_seq
     /\ Refuse("WRONG_BLOCK_SEQUENCE_COUNTER")
  \/ /\ xfer.mode # "IDLE" /\ seq = xfer.block_seq /\ DeviceRefuses(bytes)
     /\ Refuse("GENERAL_PROGRAMMING_FAILURE")
  \/ /\ xfer.mode = "DOWNLOAD" /\ seq = xfer.block_seq
     /\ TransferDownload(seq, bytes)
  \/ /\ xfer.mode = "UPLOAD" /\ seq = xfer.block_seq
     /\ TransferUpload(seq)

uds_svc_transfer_exit ==
  \/ xfer.mode = "IDLE" /\ Refuse("CONDITIONS_NOT_CORRECT")
  \/ /\ xfer.mode # "IDLE"
     /\ xfer' = uds_xfer_init
     /\ reply' = Positive
     /\ origin' = data
     /\ image' = <<>>
     /\ counters' = <<>>
     /\ UNCHANGED data

----------------------------------------------------------------------------
Init ==
  /\ data = [c \in Cells |-> EraseValue]
  /\ xfer = uds_xfer_init
  /\ reply = NoReply
  /\ origin = data
  /\ image = <<>>
  /\ counters = <<>>

Blocks == UNION {[1 .. n -> Byte] : n \in 0 .. MaxDataLen}

Next ==
  \/ \E fmt_ok \in BOOLEAN, address, mem_size \in Word :
        \/ uds_svc_request_download(fmt_ok, address, mem_size)
        \/ uds_svc_request_upload(fmt_ok, address, mem_size)
  \/ \E seq \in 0 .. SeqMax, bytes \in Blocks : uds_svc_transfer_data(seq, bytes)
  \/ uds_svc_transfer_exit

Spec == Init /\ [][Next]_vars

----------------------------------------------------------------------------
(* Properties *)

TypeOK ==
  /\ data \in [Cells -> Byte]
  /\ xfer \in Xfer
  /\ reply \in Replies
  /\ origin \in [Cells -> Byte]
  /\ image \in Seq(Byte)
  /\ counters \in Seq(1 .. SeqMax)

Window == xfer.address .. xfer.address + xfer.total_length - 1

\* An active transfer owns a non-empty window inside one region, a download's
\* region is not protected, and progress never passes the window's end: no
\* uint32_t sum or difference in uds_svc_transfer_data wraps, and no block
\* reaches outside data[].
WindowInRegion ==
  xfer.mode # "IDLE" =>
    /\ xfer.transferred <= xfer.total_length
    /\ xfer.total_length > 0
    /\ \E i \in 1 .. Len(Regions) :
         /\ xfer.mode = "DOWNLOAD" => ~ Regions[i].protected
         /\ Regions[i].base_address <= xfer.address
         /\ xfer.address + xfer.total_length
              <= Regions[i].base_address + Regions[i].size

\* Once a download is accepted the device takes every block that fits into
\* what is left of its window, however the tester cuts the blocks: no download
\* stops half-way with GENERAL_PROGRAMMING_FAILURE.
BlocksProgrammable ==
  xfer.mode = "DOWNLOAD" =>
    \A n \in 1 .. xfer.total_length - xfer.transferred :
      Programmable(xfer.address + xfer.transferred, n)

\* During a download the window holds exactly the accepted blocks in order,
\* followed by erased cells, and every other cell is as it was when the
\* download was accepted.
DownloadContents ==
  xfer.mode = "DOWNLOAD" =>
    /\ Len(image) = xfer.transferred
    /\ \A c \in Cells :
         data[c] = IF c \notin Window THEN origin[c]
                   ELSE IF c - xfer.address < xfer.transferred
                        THEN image[c - xfer.address + 1]
                        ELSE EraseValue

\* What an upload has served so far is the flash contents of its window, each
\* byte once and in order, and the flash does not change under it.
UploadServed ==
  xfer.mode = "UPLOAD" =>
    /\ data = origin
    /\ Len(image) = xfer.transferred
    /\ \A k \in 1 .. Len(image) : image[k] = data[xfer.address + k - 1]

\* Blocks are accepted exactly once and in order: the i-th accepted block
\* carried counter 1, 2, ..., SeqMax, 1, ..., and the session expects the next
\* one (design/04: "blockNumber" runs cyclically, no block is repeated).
BlocksInOrder ==
  xfer.mode # "IDLE" =>
    LET expected == Append(counters, xfer.block_seq) IN
    /\ expected[1] = 1
    /\ \A i \in 1 .. Len(counters) :
          expected[i + 1] = IF expected[i] = SeqMax THEN 1 ELSE expected[i] + 1

\* A request that is not answered positively leaves flash and transfer session
\* as they were: no handler fails half-way (the erase of 0x34 comes after every
\* check that can fail).
FailureChangesNothing ==
  [][reply' # Positive => UNCHANGED <<data, xfer>>]_vars

\* The cells of a protected region never change.
ProtectedCellsFixed ==
  [][\A i \in 1 .. Len(Regions) : Regions[i].protected =>
       \A c \in Regions[i].base_address ..
                Regions[i].base_address + Regions[i].size - 1 :
          data'[c] = data[c]]_vars

\* A transfer is never replaced or re-aimed: while one is active its mode and
\* window stay, until a 0x37 ends it, and progress only grows.
TransferExclusive ==
  [][xfer.mode # "IDLE" /\ xfer'.mode # "IDLE" =>
       /\ xfer'.mode = xfer.mode
       /\ xfer'.address = xfer.address
       /\ xfer'.total_length = xfer.total_length
       /\ xfer'.transferred >= xfer.transferred]_vars
============================================================================
