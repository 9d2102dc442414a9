------------------------ MODULE FlashTransferProofs ------------------------
(***************************************************************************)
(* Theorems about FlashTransfer, for every flash size, region table, block *)
(* length and counter width that meet the module's assumptions.            *)
(*                                                                         *)
(* None of the properties is inductive alone: that a block lands inside    *)
(* data[] needs the window, that the window's contents are the accepted    *)
(* blocks needs the position not to wrap, and that the counters are in     *)
(* range needs the block order.  IInv is their conjunction.                *)
(***************************************************************************)
EXTENDS FlashTransfer, SequenceTheorems, TLAPS

IInv ==
  /\ TypeOK
  /\ WindowInRegion
  /\ DownloadContents
  /\ UploadServed
  /\ BlocksInOrder

----------------------------------------------------------------------------
(* The region table *)

\* Every region lies inside data[].
LEMMA RegionBounds ==
  ASSUME NEW i \in 1 .. Len(Regions)
  PROVE  /\ Regions[i].base_address \in Nat
         /\ Regions[i].size \in Nat
         /\ Regions[i].protected \in BOOLEAN
         /\ Regions[i].base_address + Regions[i].size <= FlashSize
<1>1. Regions[i] \in Region
  BY RegionsAssumption
<1> QED
  BY <1>1, RegionsAssumption, SizesAssumption DEF Region, Word

\* Distinct regions share no cell.
LEMMA RegionsDisjoint ==
  ASSUME NEW i \in 1 .. Len(Regions), NEW j \in 1 .. Len(Regions),
         NEW c \in Int,
         Regions[i].base_address <= c, c < Regions[i].base_address + Regions[i].size,
         Regions[j].base_address <= c, c < Regions[j].base_address + Regions[j].size
  PROVE  i = j
<1> SUFFICES ASSUME i # j PROVE FALSE
  OBVIOUS
<1>1. \/ Regions[i].base_address + Regions[i].size <= Regions[j].base_address
      \/ Regions[j].base_address + Regions[j].size <= Regions[i].base_address
  BY RegionsAssumption
<1>2. /\ Regions[i].base_address \in Nat /\ Regions[i].size \in Nat
      /\ Regions[j].base_address \in Nat /\ Regions[j].size \in Nat
  BY RegionBounds
<1> QED
  BY <1>1, <1>2, SMTT(30)

\* A range uds_flash_address_valid accepts lies inside one region.
LEMMA ValidRange ==
  ASSUME NEW address \in Nat, NEW length \in Nat,
         uds_flash_address_valid(address, length)
  PROVE  \E i \in 1 .. Len(Regions) :
            /\ Regions[i].base_address <= address
            /\ address + length <= Regions[i].base_address + Regions[i].size
BY RegionBounds DEF uds_flash_address_valid, find_region, Contains

\* A range uds_flash_erase or uds_flash_write accepts lies inside one region
\* that is not protected.
LEMMA ProgrammableRange ==
  ASSUME NEW address \in Nat, NEW length \in Nat, Programmable(address, length)
  PROVE  \E i \in 1 .. Len(Regions) :
            /\ ~ Regions[i].protected
            /\ Regions[i].base_address <= address
            /\ address + length <= Regions[i].base_address + Regions[i].size
BY RegionBounds DEF Programmable, find_region, Contains

\* Conversely, every non-empty range inside a region is found there: the regions
\* before it in the table do not contain the range.
LEMMA InsideIsFound ==
  ASSUME NEW address \in Nat, NEW length \in Nat, length # 0,
         NEW i \in 1 .. Len(Regions),
         Regions[i].base_address <= address,
         address + length <= Regions[i].base_address + Regions[i].size
  PROVE  /\ uds_flash_address_valid(address, length)
         /\ ~ Regions[i].protected => Programmable(address, length)
<1>1. Contains(Regions[i], address, length)
  BY RegionBounds DEF Contains
<1>2. \A j \in 1 .. i - 1 : ~ Contains(Regions[j], address, length)
  <2> SUFFICES ASSUME NEW j \in 1 .. i - 1, Contains(Regions[j], address, length)
               PROVE  FALSE
    OBVIOUS
  <2>1. j \in 1 .. Len(Regions) /\ j # i
    OBVIOUS
  <2>2. /\ Regions[j].base_address <= address
        /\ address < Regions[j].base_address + Regions[j].size
    BY <2>1, RegionBounds DEF Contains
  <2>3. address < Regions[i].base_address + Regions[i].size
    BY RegionBounds
  <2> QED
    BY <2>1, <2>2, <2>3, RegionsDisjoint
<1> QED
  BY <1>1, <1>2 DEF uds_flash_address_valid, Programmable, find_region

----------------------------------------------------------------------------
(* Arithmetic of the transfer session *)

\* A sum or difference that fits a word is not changed by the reduction.
LEMMA ModSmall ==
  ASSUME NEW x \in Nat, NEW m \in Nat, x < m
  PROVE  x % m = x
OBVIOUS

\* A cell of a block that starts n1 cells into a window at a.
LEMMA CellOfBlock ==
  ASSUME NEW a \in Nat, NEW n1 \in Nat, NEW n2 \in Nat, NEW total \in Nat,
         NEW c \in Int,
         a + n1 <= c, c < a + n1 + n2, n1 + n2 <= total
  PROVE  /\ c \in a .. a + total - 1
         /\ c - a < n1 + n2
         /\ c - (a + n1) + 1 \in 1 .. n2
         /\ n1 + (c - (a + n1) + 1) = c - a + 1
OBVIOUS

\* A cell of the window below the end of that block, and not in it, lies before.
LEMMA CellBeforeBlock ==
  ASSUME NEW a \in Nat, NEW n1 \in Nat, NEW n2 \in Nat, NEW total \in Nat,
         NEW c \in Int,
         c \notin a + n1 .. a + n1 + n2 - 1,
         c \in a .. a + total - 1, c - a < n1 + n2
  PROVE  c - a + 1 \in 1 .. n1
OBVIOUS

\* The two parts of a concatenation.
LEMMA ConcatParts ==
  ASSUME NEW S, NEW s \in Seq(S), NEW t \in Seq(S)
  PROVE  /\ Len(s \o t) = Len(s) + Len(t)
         /\ \A k \in 1 .. Len(s) : (s \o t)[k] = s[k]
         /\ \A k \in 1 .. Len(t) : (s \o t)[Len(s) + k] = t[k]
<1>1. Len(s) \in Nat /\ Len(t) \in Nat
  OBVIOUS
<1>2. /\ Len(s \o t) = Len(s) + Len(t)
      /\ \A i \in 1 .. Len(s) + Len(t) :
            (s \o t)[i] = IF i <= Len(s) THEN s[i] ELSE t[i - Len(s)]
  BY ConcatProperties
<1>3. ASSUME NEW k \in 1 .. Len(s) PROVE (s \o t)[k] = s[k]
  BY <1>1, <1>2
<1>4. ASSUME NEW k \in 1 .. Len(t) PROVE (s \o t)[Len(s) + k] = t[k]
  <2>1. /\ Len(s) + k \in 1 .. Len(s) + Len(t)
        /\ ~ (Len(s) + k <= Len(s))
        /\ (Len(s) + k) - Len(s) = k
    BY <1>1
  <2> QED
    BY <1>2, <2>1
<1> QED
  BY <1>2, <1>3, <1>4

\* No uint32_t expression of uds_svc_transfer_data wraps.
LEMMA NoWrap ==
  ASSUME TypeOK, WindowInRegion, xfer.mode # "IDLE"
  PROVE  /\ xfer.address \in Nat
         /\ xfer.total_length \in Nat
         /\ xfer.transferred \in Nat
         /\ xfer.transferred <= xfer.total_length
         /\ xfer.address + xfer.total_length <= FlashSize
         /\ Remaining = xfer.total_length - xfer.transferred
         /\ Position = xfer.address + xfer.transferred
         /\ ToRead \in 0 .. Remaining
<1>1. /\ xfer.address \in Word
      /\ xfer.total_length \in Word
      /\ xfer.transferred \in Word
  BY DEF TypeOK, Xfer
<1>2. PICK i \in 1 .. Len(Regions) :
         xfer.address + xfer.total_length <= Regions[i].base_address + Regions[i].size
  BY DEF WindowInRegion
<1>3. xfer.address + xfer.total_length <= FlashSize
  <2>1. /\ Regions[i].base_address \in Nat /\ Regions[i].size \in Nat
        /\ Regions[i].base_address + Regions[i].size <= FlashSize
    BY RegionBounds
  <2>2. xfer.address \in Nat /\ xfer.total_length \in Nat /\ FlashSize \in Nat
    BY <1>1, SizesAssumption DEF Word
  <2> QED
    BY <1>2, <2>1, <2>2
<1>4. xfer.transferred <= xfer.total_length
  BY DEF WindowInRegion
<1>5. /\ xfer.address \in Nat
      /\ xfer.total_length \in Nat
      /\ xfer.transferred \in Nat
  BY <1>1, SizesAssumption DEF Word
<1>6. Remaining = xfer.total_length - xfer.transferred
  <2>1. /\ xfer.total_length - xfer.transferred \in Nat
        /\ xfer.total_length - xfer.transferred < WordMod
    BY <1>3, <1>4, <1>5, SizesAssumption
  <2> QED
    BY <2>1, ModSmall, SizesAssumption DEF Remaining
<1>7. Position = xfer.address + xfer.transferred
  <2>1. /\ xfer.address + xfer.transferred \in Nat
        /\ xfer.address + xfer.transferred < WordMod
    BY <1>3, <1>4, <1>5, SizesAssumption
  <2> QED
    BY <2>1, ModSmall, SizesAssumption DEF Position
<1>8. ToRead \in 0 .. Remaining
  BY <1>4, <1>5, <1>6, SizesAssumption DEF ToRead
<1> QED
  BY <1>3, <1>4, <1>5, <1>6, <1>7, <1>8
----------------------------------------------------------------------------
(* The invariant *)

\* The initial state: an erased flash, no transfer.
LEMMA InitInv == Init => IInv
<1> SUFFICES ASSUME Init PROVE IInv
  OBVIOUS
<1> USE DEF Init, uds_xfer_init
<1>1. TypeOK
  BY SizesAssumption DEF TypeOK, Cells, Xfer, Modes, Word, Replies, NoReply
<1>2. xfer.mode = "IDLE"
  OBVIOUS
<1> QED
  BY <1>1, <1>2 DEF IInv, WindowInRegion, DownloadContents, UploadServed, BlocksInOrder

\* A step that only sets the reply keeps the invariant: every refusal.
LEMMA ReplyOnlyInv ==
  ASSUME IInv, UNCHANGED <<data, xfer, history>>, reply' \in Replies
  PROVE  IInv'
BY DEF IInv, history, TypeOK, WindowInRegion, DownloadContents, UploadServed,
       BlocksInOrder, Window

\* An accepted 0x34: the window is erased and owned, nothing is transferred.
LEMMA StartDownloadInv ==
  ASSUME IInv, NEW address \in Word, NEW mem_size \in Word,
         Programmable(address, mem_size),
         data' = uds_flash_erase(address, mem_size),
         StartXfer("DOWNLOAD", address, mem_size)
  PROVE  IInv'
<1> USE DEF StartXfer
<1>1. address \in Nat /\ mem_size \in Nat /\ mem_size # 0
  BY SizesAssumption DEF Word, Programmable
<1>2. TypeOK'
  <2>1. data' \in [Cells -> Byte]
    BY SizesAssumption DEF IInv, TypeOK, uds_flash_erase
  <2>2. xfer' \in Xfer
    BY SizesAssumption DEF Xfer, Modes, Word
  <2> QED
    BY <2>1, <2>2 DEF IInv, TypeOK, Replies, Positive
<1>3. WindowInRegion'
  BY <1>1, ProgrammableRange DEF WindowInRegion
<1>4. DownloadContents'
  <2> SUFFICES ASSUME NEW c \in Cells
               PROVE  data'[c] = IF c \notin Window' THEN origin'[c] ELSE EraseValue
    BY <1>1, SizesAssumption DEF DownloadContents, Window, Cells
  <2> QED
    BY <1>1 DEF uds_flash_erase, Window
<1>5. UploadServed'
  BY DEF UploadServed
<1>6. BlocksInOrder'
  BY DEF BlocksInOrder
<1> QED
  BY <1>2, <1>3, <1>4, <1>5, <1>6 DEF IInv

\* An accepted 0x35: the window is owned, the flash is not touched.
LEMMA StartUploadInv ==
  ASSUME IInv, NEW address \in Word, NEW mem_size \in Word,
         uds_flash_address_valid(address, mem_size),
         UNCHANGED data,
         StartXfer("UPLOAD", address, mem_size)
  PROVE  IInv'
<1> USE DEF StartXfer
<1>1. address \in Nat /\ mem_size \in Nat /\ mem_size # 0
  BY SizesAssumption DEF Word, uds_flash_address_valid
<1>2. TypeOK'
  <2>1. xfer' \in Xfer
    BY SizesAssumption DEF Xfer, Modes, Word
  <2> QED
    BY <2>1 DEF IInv, TypeOK, Replies, Positive
<1>3. WindowInRegion'
  BY <1>1, ValidRange DEF WindowInRegion
<1>4. DownloadContents'
  BY DEF DownloadContents
<1>5. UploadServed'
  BY DEF UploadServed
<1>6. BlocksInOrder'
  BY DEF BlocksInOrder
<1> QED
  BY <1>2, <1>3, <1>4, <1>5, <1>6 DEF IInv

\* What every accepted block does to the session, whichever its direction.
LEMMA AdvanceFacts ==
  ASSUME IInv, xfer.mode # "IDLE",
         NEW seq, seq = xfer.block_seq,
         NEW bytes \in Seq(Byte), Len(bytes) <= Remaining,
         Advance(seq, bytes)
  PROVE  /\ xfer' \in Xfer
         /\ xfer'.mode = xfer.mode
         /\ xfer'.address = xfer.address
         /\ xfer'.total_length = xfer.total_length
         /\ xfer'.transferred = xfer.transferred + Len(bytes)
         /\ image' \in Seq(Byte)
         /\ counters' \in Seq(1 .. SeqMax)
         /\ BlocksInOrder'
         /\ WindowInRegion'
<1> USE DEF IInv
<1>1. /\ xfer.transferred \in Nat
      /\ Remaining = xfer.total_length - xfer.transferred
      /\ xfer.total_length \in Nat
      /\ xfer.address + xfer.total_length <= FlashSize
      /\ xfer.address \in Nat
  BY NoWrap
<1>2. xfer \in Xfer
  BY DEF TypeOK
<1>3. (xfer.transferred + Len(bytes)) % WordMod = xfer.transferred + Len(bytes)
  <2>1. /\ xfer.transferred + Len(bytes) \in Nat
        /\ xfer.transferred + Len(bytes) < WordMod
    BY <1>1, SizesAssumption
  <2> QED
    BY <2>1, ModSmall, SizesAssumption
<1>4. xfer.block_seq \in 1 .. SeqMax
  <2>1. counters \in Seq(1 .. SeqMax) /\ xfer.block_seq \in 0 .. SeqMax
    BY DEF TypeOK, Xfer
  <2>2. CASE counters = <<>>
    BY <2>1, <2>2, SizesAssumption DEF BlocksInOrder
  <2>3. CASE counters # <<>>
    <3> DEFINE n == Len(counters)
    <3>1. n \in 1 .. Len(counters) /\ counters[n] \in 1 .. SeqMax
      <4>1. Len(counters) \in Nat \ {0}
        BY <2>1, <2>3, EmptySeq
      <4>2. n \in 1 .. Len(counters)
        BY <4>1
      <4> QED
        BY <4>2, <2>1, ElementOfSeq
    <3>2. xfer.block_seq = IF counters[n] = SeqMax THEN 1 ELSE counters[n] + 1
      BY <2>1, <3>1 DEF BlocksInOrder
    <3> QED
      BY <3>1, <3>2, SizesAssumption
  <2> QED
    BY <2>2, <2>3
<1>5. xfer' = [xfer EXCEPT !.transferred = xfer.transferred + Len(bytes),
                           !.block_seq = NextBlockSeq(xfer.block_seq)]
  BY <1>2, <1>3 DEF Advance, Xfer
<1>6. NextBlockSeq(xfer.block_seq) \in 1 .. SeqMax
  BY <1>4, SizesAssumption DEF NextBlockSeq
<1>7. xfer.transferred + Len(bytes) \in Word
  BY <1>1, SizesAssumption DEF Word
<1>8. /\ xfer' \in Xfer
      /\ xfer'.mode = xfer.mode
      /\ xfer'.address = xfer.address
      /\ xfer'.total_length = xfer.total_length
      /\ xfer'.transferred = xfer.transferred + Len(bytes)
      /\ xfer'.block_seq = NextBlockSeq(xfer.block_seq)
  <2>1. NextBlockSeq(xfer.block_seq) \in 0 .. SeqMax
    BY <1>6
  <2> HIDE DEF IInv
  <2> QED
    BY <1>2, <1>5, <2>1, <1>7 DEF Xfer
<1>9. image' \in Seq(Byte)
  BY DEF Advance, TypeOK
<1>10. counters' \in Seq(1 .. SeqMax)
  BY <1>4 DEF Advance, TypeOK
<1>11. BlocksInOrder'
  <2> DEFINE old == Append(counters, xfer.block_seq)
             new == Append(counters', xfer'.block_seq)
  <2>1. counters \in Seq(1 .. SeqMax) /\ Len(counters) \in Nat
    BY DEF TypeOK
  <2>2. counters' = old
    BY DEF Advance
  <2>3. /\ Len(counters') = Len(counters) + 1
        /\ \A i \in 1 .. Len(counters') : new[i] = old[i]
        /\ new[Len(counters') + 1] = xfer'.block_seq
        /\ old[Len(counters) + 1] = xfer.block_seq
    BY <2>1, <2>2, <1>4, <1>6, <1>8
  <2>4. /\ old[1] = 1
        /\ \A i \in 1 .. Len(counters) :
              old[i + 1] = IF old[i] = SeqMax THEN 1 ELSE old[i] + 1
    BY DEF BlocksInOrder
  <2>5. \A i \in 1 .. Len(counters') :
           new[i + 1] = IF new[i] = SeqMax THEN 1 ELSE new[i] + 1
    <3> SUFFICES ASSUME NEW i \in 1 .. Len(counters')
                 PROVE  new[i + 1] = IF new[i] = SeqMax THEN 1 ELSE new[i] + 1
      OBVIOUS
    <3> HIDE DEF old, new
    <3>1. CASE i \in 1 .. Len(counters)
      BY <2>1, <2>3, <2>4, <3>1
    <3>2. CASE i = Len(counters) + 1
      BY <2>1, <2>3, <1>8, <3>2 DEF NextBlockSeq
    <3> QED
      BY <2>1, <2>3, <3>1, <3>2
  <2>6. new[1] = 1
    BY <2>1, <2>3, <2>4
  <2> QED
    BY <2>5, <2>6 DEF BlocksInOrder
<1>12. WindowInRegion'
  <2>1. xfer'.transferred <= xfer'.total_length
    BY <1>1, <1>8
  <2> QED
    BY <2>1, <1>8 DEF WindowInRegion
<1> QED
  BY <1>8, <1>9, <1>10, <1>11, <1>12

\* An accepted download block lands in the window, right after the blocks
\* before it.
LEMMA DownloadBlockInv ==
  ASSUME IInv, xfer.mode = "DOWNLOAD",
         NEW seq, seq = xfer.block_seq,
         NEW bytes \in Seq(Byte), bytes # <<>>, Len(bytes) <= Remaining,
         data' = uds_flash_write(Position, bytes),
         Advance(seq, bytes)
  PROVE  IInv'
<1> DEFINE len == Len(bytes)
<1>1. /\ xfer' \in Xfer
      /\ xfer'.mode = xfer.mode
      /\ xfer'.address = xfer.address
      /\ xfer'.total_length = xfer.total_length
      /\ xfer'.transferred = xfer.transferred + Len(bytes)
      /\ image' \in Seq(Byte)
      /\ counters' \in Seq(1 .. SeqMax)
      /\ BlocksInOrder'
      /\ WindowInRegion'
  BY AdvanceFacts
<1>2. /\ xfer.address \in Nat
      /\ xfer.total_length \in Nat
      /\ xfer.transferred \in Nat
      /\ Remaining = xfer.total_length - xfer.transferred
      /\ Position = xfer.address + xfer.transferred
      /\ xfer.address + xfer.total_length <= FlashSize
  BY NoWrap DEF IInv
<1>3. len \in Nat /\ \A k \in 1 .. len : bytes[k] \in Byte
  BY ElementOfSeq
<1>4. data' \in [Cells -> Byte]
  <2> SUFFICES ASSUME NEW c \in Cells, c \in Position .. Position + Len(bytes) - 1
               PROVE  bytes[c - Position + 1] \in Byte
    BY DEF uds_flash_write, IInv, TypeOK
  <2> QED
    BY <1>2, <1>3 DEF Cells
<1>5. TypeOK'
  BY <1>1, <1>4 DEF IInv, TypeOK, Advance, Replies, Positive
<1>6. DownloadContents'
  <2>1. /\ Len(image) = xfer.transferred
        /\ image \in Seq(Byte)
        /\ \A c \in Cells :
             data[c] = IF c \notin Window THEN origin[c]
                       ELSE IF c - xfer.address < xfer.transferred
                            THEN image[c - xfer.address + 1]
                            ELSE EraseValue
    BY DEF IInv, TypeOK, DownloadContents
  <2>2. /\ Len(image') = xfer.transferred + len
        /\ \A k \in 1 .. xfer.transferred : image'[k] = image[k]
        /\ \A k \in 1 .. len : image'[xfer.transferred + k] = bytes[k]
    <3>1. image' = image \o bytes
      BY DEF Advance
    <3>2. /\ Len(image \o bytes) = Len(image) + Len(bytes)
          /\ \A k \in 1 .. Len(image) : (image \o bytes)[k] = image[k]
          /\ \A k \in 1 .. Len(bytes) : (image \o bytes)[Len(image) + k] = bytes[k]
      BY <2>1, ConcatParts
    <3> QED
      BY <3>1, <3>2, <2>1, <1>3
  <2>3. Window' = Window /\ origin' = origin
    BY <1>1 DEF Window, Advance
  <2>4. ASSUME NEW c \in Cells
        PROVE  data'[c] = IF c \notin Window THEN origin[c]
                          ELSE IF c - xfer.address < xfer.transferred + len
                               THEN image'[c - xfer.address + 1]
                               ELSE EraseValue
    <3>1. c \in Int
      BY SizesAssumption DEF Cells
    <3>2. CASE c \in Position .. Position + len - 1
      <4>1. data'[c] = bytes[c - Position + 1]
        BY <3>2 DEF uds_flash_write
      <4>0. /\ xfer.address + xfer.transferred <= c
            /\ c < xfer.address + xfer.transferred + len
            /\ xfer.transferred + len <= xfer.total_length
        BY <1>2, <1>3, <3>1, <3>2
      <4>2. c \in Window /\ c - xfer.address < xfer.transferred + len
        BY <1>2, <1>3, <3>1, <4>0, CellOfBlock DEF Window
      <4>3. /\ c - Position + 1 \in 1 .. len
            /\ xfer.transferred + (c - Position + 1) = c - xfer.address + 1
        <5> DEFINE start == xfer.address + xfer.transferred
        <5>1. /\ c - start + 1 \in 1 .. len
              /\ xfer.transferred + (c - start + 1) = c - xfer.address + 1
          <6>1. /\ xfer.address \in Nat /\ xfer.transferred \in Nat
                /\ xfer.total_length \in Nat /\ len \in Nat /\ c \in Int
            BY <1>2, <1>3, <3>1
          <6> HIDE DEF len
          <6> QED
            BY <6>1, <4>0, CellOfBlock
        <5>2. Position = start
          BY <1>2
        <5> QED
          BY <5>1, <5>2
      <4>4. image'[c - xfer.address + 1] = bytes[c - Position + 1]
        BY <2>2, <4>3
      <4> QED
        BY <4>1, <4>2, <4>4
    <3>3. CASE c \notin Position .. Position + len - 1
      <4>1. data'[c] = data[c]
        BY <3>3 DEF uds_flash_write
      <4>2. c \in Window /\ c - xfer.address < xfer.transferred + len
              => c - xfer.address + 1 \in 1 .. xfer.transferred
        <5>1. /\ xfer.address \in Nat /\ xfer.transferred \in Nat
              /\ xfer.total_length \in Nat /\ len \in Nat /\ c \in Int
          BY <1>2, <1>3, <3>1
        <5>2. c \notin xfer.address + xfer.transferred ..
                         xfer.address + xfer.transferred + len - 1
          BY <1>2, <3>3
        <5> HIDE DEF len
        <5> QED
          BY <5>1, <5>2, CellBeforeBlock DEF Window
      <4>3. c \in Window /\ c - xfer.address < xfer.transferred
              => c - xfer.address < xfer.transferred + len
        BY <1>2, <1>3, <3>1 DEF Window
      <4>4. c - xfer.address + 1 \in 1 .. xfer.transferred
              => c - xfer.address < xfer.transferred
        BY <1>2, <3>1
      <4> QED
        BY <2>1, <2>2, <4>1, <4>2, <4>3, <4>4
    <3> QED
      BY <3>2, <3>3
  <2> QED
    BY <1>1, <2>2, <2>3, <2>4 DEF DownloadContents
<1>7. UploadServed'
  BY <1>1 DEF UploadServed
<1> QED
  BY <1>1, <1>5, <1>6, <1>7 DEF IInv

\* An upload block serves the next ToRead cells of the window.
LEMMA UploadBlockInv ==
  ASSUME IInv, xfer.mode = "UPLOAD",
         NEW seq, seq = xfer.block_seq,
         TransferUpload(seq)
  PROVE  IInv'
<1> DEFINE bytes == uds_flash_read(Position, ToRead)
<1>1. /\ xfer.address \in Nat
      /\ xfer.total_length \in Nat
      /\ xfer.transferred \in Nat
      /\ Remaining = xfer.total_length - xfer.transferred
      /\ Position = xfer.address + xfer.transferred
      /\ xfer.address + xfer.total_length <= FlashSize
      /\ ToRead \in 0 .. Remaining
  BY NoWrap DEF IInv
<1>2. /\ data \in [Cells -> Byte]
      /\ image \in Seq(Byte)
  BY DEF IInv, TypeOK
<1>3. /\ bytes \in Seq(Byte)
      /\ Len(bytes) = ToRead
      /\ \A k \in 1 .. ToRead : bytes[k] = data[Position + k - 1]
  <2>1. \A k \in 1 .. ToRead : data[Position + k - 1] \in Byte
    <3> SUFFICES ASSUME NEW k \in 1 .. ToRead
                 PROVE  Position + k - 1 \in Cells
      BY <1>2
    <3>1. k \in Nat /\ 1 <= k /\ k <= xfer.total_length - xfer.transferred
      BY <1>1
    <3> QED
      BY <1>1, <3>1, SizesAssumption DEF Cells
  <2> QED
    BY <1>1, <2>1 DEF uds_flash_read
<1>4. Advance(seq, bytes) /\ UNCHANGED data
  BY DEF TransferUpload
<1> HIDE DEF bytes
<1>5. /\ xfer' \in Xfer
      /\ xfer'.mode = xfer.mode
      /\ xfer'.address = xfer.address
      /\ xfer'.total_length = xfer.total_length
      /\ xfer'.transferred = xfer.transferred + Len(bytes)
      /\ image' \in Seq(Byte)
      /\ counters' \in Seq(1 .. SeqMax)
      /\ BlocksInOrder'
      /\ WindowInRegion'
  BY <1>1, <1>3, <1>4, AdvanceFacts
<1>6. TypeOK'
  BY <1>4, <1>5 DEF IInv, TypeOK, Advance, Replies, Positive
<1>7. UploadServed'
  <2>1. /\ data = origin
        /\ Len(image) = xfer.transferred
        /\ \A k \in 1 .. Len(image) : image[k] = data[xfer.address + k - 1]
    BY DEF IInv, UploadServed
  <2>2. /\ Len(image') = xfer.transferred + ToRead
        /\ \A k \in 1 .. xfer.transferred : image'[k] = image[k]
        /\ \A k \in 1 .. ToRead : image'[xfer.transferred + k] = bytes[k]
    <3>1. image' = image \o bytes
      BY <1>4 DEF Advance
    <3>2. /\ Len(image \o bytes) = Len(image) + Len(bytes)
          /\ \A k \in 1 .. Len(image) : (image \o bytes)[k] = image[k]
          /\ \A k \in 1 .. Len(bytes) : (image \o bytes)[Len(image) + k] = bytes[k]
      <4>1. image \in Seq(Byte) /\ bytes \in Seq(Byte)
        BY <1>2, <1>3
      <4> QED
        BY <4>1, ConcatParts
    <3> QED
      BY <3>1, <3>2, <2>1, <1>2, <1>3
  <2>3. ASSUME NEW k \in 1 .. Len(image')
        PROVE  image'[k] = data[xfer.address + k - 1]
    <3>1. CASE k <= xfer.transferred
      BY <1>1, <2>1, <2>2, <3>1
    <3>2. CASE k > xfer.transferred
      <4>1. /\ k - xfer.transferred \in 1 .. ToRead
            /\ xfer.transferred + (k - xfer.transferred) = k
            /\ Position + (k - xfer.transferred) - 1 = xfer.address + k - 1
        <5>1. /\ k \in Nat /\ k <= xfer.transferred + ToRead
              /\ xfer.address \in Nat /\ xfer.transferred \in Nat /\ ToRead \in Nat
              /\ Position = xfer.address + xfer.transferred
          BY <1>1, <2>2
        <5> QED
          BY SMTT(30), <3>2, <5>1
      <4>2. image'[k] = bytes[k - xfer.transferred]
        BY <2>2, <4>1
      <4> QED
        BY <1>3, <4>1, <4>2
    <3> QED
      BY <1>1, <2>2, <3>1, <3>2
  <2>4. data' = origin' /\ Len(image') = xfer'.transferred
    BY <1>3, <1>4, <1>5, <2>1, <2>2 DEF Advance
  <2> QED
    BY <1>4, <1>5, <2>3, <2>4 DEF UploadServed
<1>8. DownloadContents'
  BY <1>5 DEF DownloadContents
<1> QED
  BY <1>5, <1>6, <1>7, <1>8 DEF IInv

\* An accepted 0x37 returns to the idle session.
LEMMA ExitInv ==
  ASSUME IInv, uds_svc_transfer_exit
  PROVE  IInv'
<1>1. CASE Refuse("CONDITIONS_NOT_CORRECT")
  BY <1>1, ReplyOnlyInv DEF Refuse, Replies, Nrcs
<1>2. CASE ~ Refuse("CONDITIONS_NOT_CORRECT")
  <2> USE DEF uds_svc_transfer_exit, uds_xfer_init
  <2>1. TypeOK'
    <3>1. xfer' = uds_xfer_init
      BY <1>2
    <3>2. xfer' \in Xfer
      BY <3>1, SizesAssumption DEF Xfer, Modes, Word
    <3>3. data' = data /\ origin' = data /\ reply' = Positive
      BY <1>2
    <3>4. image' = <<>> /\ counters' = <<>>
      BY <1>2
    <3> QED
      BY <3>2, <3>3, <3>4 DEF IInv, TypeOK, Replies
  <2>2. xfer'.mode = "IDLE"
    BY <1>2
  <2> QED
    BY <2>1, <2>2 DEF IInv, WindowInRegion, DownloadContents, UploadServed, BlocksInOrder
<1> QED
  BY <1>1, <1>2

\* What an upload block carries are flash cells.
LEMMA UploadBlockRead ==
  ASSUME IInv, xfer.mode # "IDLE"
  PROVE  /\ uds_flash_read(Position, ToRead) \in Seq(Byte)
         /\ Len(uds_flash_read(Position, ToRead)) = ToRead
         /\ ToRead <= Remaining
         /\ Len(uds_flash_read(Position, ToRead)) <= Remaining
<1>1. /\ xfer.address \in Nat
      /\ xfer.total_length \in Nat
      /\ xfer.transferred \in Nat
      /\ Remaining = xfer.total_length - xfer.transferred
      /\ Position = xfer.address + xfer.transferred
      /\ xfer.address + xfer.total_length <= FlashSize
      /\ ToRead \in 0 .. Remaining
  BY NoWrap DEF IInv
<1>2. data \in [Cells -> Byte]
  BY DEF IInv, TypeOK
<1>3. ASSUME NEW k \in 1 .. ToRead PROVE data[Position + k - 1] \in Byte
  <2>1. k \in Nat /\ 1 <= k /\ k <= xfer.total_length - xfer.transferred
    BY <1>1
  <2>2. Position + k - 1 \in Cells
    BY <1>1, <2>1, SizesAssumption DEF Cells
  <2> QED
    BY <1>2, <2>2
<1> QED
  BY <1>1, <1>3 DEF uds_flash_read

\* A TransferData request of any length keeps the invariant, accepted or not.
LEMMA TransferDataInv ==
  ASSUME IInv, NEW seq, NEW bytes \in Seq(Byte), uds_svc_transfer_data(seq, bytes)
  PROVE  IInv'
<1>1. ASSUME NEW nrc \in Nrcs, Refuse(nrc) PROVE IInv'
  BY <1>1, ReplyOnlyInv DEF Refuse, Replies
<1>2. CASE \E nrc \in Nrcs : Refuse(nrc)
  BY <1>1, <1>2
<1>3. CASE xfer.mode = "DOWNLOAD" /\ seq = xfer.block_seq /\ TransferDownload(seq, bytes)
  <2>1. CASE reply' = NoReply /\ UNCHANGED <<data, xfer, history>>
    BY <2>1, ReplyOnlyInv DEF Replies
  <2>2. CASE /\ bytes # <<>> /\ Len(bytes) <= Remaining
             /\ data' = uds_flash_write(Position, bytes)
             /\ Advance(seq, bytes)
    BY <1>3, <2>2, DownloadBlockInv
  <2> QED
    BY <1>1, <1>3, <2>1, <2>2 DEF TransferDownload, Nrcs
<1>4. CASE xfer.mode = "UPLOAD" /\ seq = xfer.block_seq /\ TransferUpload(seq)
  BY <1>4, UploadBlockInv
<1> QED
  BY <1>2, <1>3, <1>4 DEF uds_svc_transfer_data, Nrcs

\* What a positive answer to TransferData says: the block the request carries, or
\* the one the answer brings, is the next of the transfer.
LEMMA BlockAccepted ==
  ASSUME IInv, NEW seq, NEW bytes \in Seq(Byte),
         uds_svc_transfer_data(seq, bytes), reply' = Positive
  PROVE  /\ xfer.mode # "IDLE"
         /\ \E b \in Seq(Byte) :
              /\ xfer.mode = "DOWNLOAD" => b = bytes
              /\ image' = image \o b
              /\ xfer'.mode = xfer.mode
              /\ xfer'.address = xfer.address
              /\ xfer'.total_length = xfer.total_length
              /\ xfer'.transferred = xfer.transferred + Len(b)
              /\ xfer'.block_seq = NextBlockSeq(xfer.block_seq)
<1>1. \A nrc \in Nrcs : ~ Refuse(nrc)
  BY DEF Refuse, Nrcs, Positive
<1>2. xfer.mode # "IDLE" /\ xfer \in Xfer
  BY <1>1 DEF uds_svc_transfer_data, Nrcs, IInv, TypeOK
<1>3. ASSUME NEW b \in Seq(Byte), Len(b) <= Remaining, seq = xfer.block_seq, Advance(seq, b)
      PROVE  /\ image' = image \o b
             /\ xfer'.mode = xfer.mode
             /\ xfer'.address = xfer.address
             /\ xfer'.total_length = xfer.total_length
             /\ xfer'.transferred = xfer.transferred + Len(b)
             /\ xfer'.block_seq = NextBlockSeq(xfer.block_seq)
  <2>1. /\ xfer'.mode = xfer.mode
        /\ xfer'.address = xfer.address
        /\ xfer'.total_length = xfer.total_length
        /\ xfer'.transferred = xfer.transferred + Len(b)
    BY <1>2, <1>3, AdvanceFacts
  <2>2. image' = image \o b /\ xfer'.block_seq = NextBlockSeq(xfer.block_seq)
    BY <1>2, <1>3 DEF Advance, Xfer
  <2> QED
    BY <2>1, <2>2
<1>4. CASE xfer.mode = "DOWNLOAD"
  <2>1. Len(bytes) <= Remaining /\ seq = xfer.block_seq /\ Advance(seq, bytes)
    BY <1>1, <1>4
       DEF uds_svc_transfer_data, TransferDownload, Nrcs, NoReply, Positive
  <2> QED
    BY <1>2, <1>3, <2>1
<1>5. CASE xfer.mode = "UPLOAD"
  <2> DEFINE b == uds_flash_read(Position, ToRead)
  <2>1. seq = xfer.block_seq /\ Advance(seq, b)
    BY <1>1, <1>5 DEF uds_svc_transfer_data, TransferUpload, Nrcs
  <2>2. b \in Seq(Byte) /\ Len(b) <= Remaining
    BY <1>2, UploadBlockRead
  <2> HIDE DEF b
  <2> QED
    BY <1>2, <1>3, <1>5, <2>1, <2>2
<1> QED
  BY <1>2, <1>4, <1>5 DEF Xfer, Modes

\* The device takes any part of what is left of the window that starts at the
\* transfer's position.
LEMMA RestAccepted ==
  ASSUME IInv, xfer.mode # "IDLE",
         NEW n \in 1 .. xfer.total_length - xfer.transferred
  PROVE  /\ uds_flash_address_valid(xfer.address + xfer.transferred, n)
         /\ xfer.mode = "DOWNLOAD" => Programmable(xfer.address + xfer.transferred, n)
<1>1. /\ xfer.address \in Nat
      /\ xfer.total_length \in Nat
      /\ xfer.transferred \in Nat
      /\ xfer.transferred <= xfer.total_length
  BY NoWrap DEF IInv
<1>2. PICK i \in 1 .. Len(Regions) :
         /\ xfer.mode = "DOWNLOAD" => ~ Regions[i].protected
         /\ Regions[i].base_address <= xfer.address
         /\ xfer.address + xfer.total_length
              <= Regions[i].base_address + Regions[i].size
  BY DEF IInv, WindowInRegion
<1>3. /\ n \in Nat /\ n # 0
      /\ xfer.address + xfer.transferred \in Nat
      /\ Regions[i].base_address <= xfer.address + xfer.transferred
      /\ (xfer.address + xfer.transferred) + n
           <= Regions[i].base_address + Regions[i].size
  <2>1. Regions[i].base_address \in Nat /\ Regions[i].size \in Nat
    BY RegionBounds
  <2>2. n \in Nat /\ n # 0 /\ n <= xfer.total_length - xfer.transferred
    BY <1>1
  <2>3. /\ xfer.address <= xfer.address + xfer.transferred
        /\ (xfer.address + xfer.transferred) + n <= xfer.address + xfer.total_length
    BY <1>1, <2>2
  <2>4. xfer.address + xfer.transferred \in Nat /\ xfer.address + xfer.total_length \in Nat
    BY <1>1
  <2> QED
    BY SMTT(30), <1>1, <1>2, <2>1, <2>2, <2>3, <2>4
<1> QED
  BY <1>2, <1>3, InsideIsFound

\* TransferData with the counter the session expects is answered positively as
\* long as bytes are left, if the block fits into them.
LEMMA BlockGranted ==
  ASSUME IInv, xfer.mode # "IDLE", xfer.transferred < xfer.total_length,
         NEW bytes \in Seq(Byte),
         xfer.mode = "DOWNLOAD" =>
           bytes # <<>> /\ Len(bytes) <= xfer.total_length - xfer.transferred,
         uds_svc_transfer_data(xfer.block_seq, bytes)
  PROVE  reply' = Positive
<1>1. /\ xfer.address \in Nat /\ xfer.total_length \in Nat /\ xfer.transferred \in Nat
      /\ Remaining = xfer.total_length - xfer.transferred
      /\ Position = xfer.address + xfer.transferred
      /\ xfer \in Xfer
  BY NoWrap DEF IInv, TypeOK
<1>2. CASE xfer.mode = "DOWNLOAD"
  <2>1. Len(bytes) \in 1 .. xfer.total_length - xfer.transferred
    <3>1. Len(bytes) \in Nat /\ Len(bytes) # 0
      BY <1>2, EmptySeq
    <3> QED
      BY <1>1, <1>2, <3>1
  <2>2. Programmable(Position, Len(bytes))
    BY <1>1, <1>2, <2>1, RestAccepted
  <2>3. ~ DeviceRefuses(bytes)
    BY <1>2, <2>2 DEF DeviceRefuses
  <2>4. ~ (Len(bytes) > Remaining)
    BY <1>1, <2>1
  <2>5. TransferDownload(xfer.block_seq, bytes)
    BY <1>2, <2>3 DEF uds_svc_transfer_data
  <2> QED
    BY <1>2, <2>4, <2>5 DEF TransferDownload, Advance
<1>3. CASE xfer.mode = "UPLOAD"
  <2>1. ToRead \in 1 .. xfer.total_length - xfer.transferred
    BY <1>1, SizesAssumption DEF ToRead
  <2>2. uds_flash_address_valid(Position, ToRead)
    BY <1>1, <2>1, RestAccepted
  <2>3. ~ DeviceRefuses(bytes)
    BY <1>3, <2>2 DEF DeviceRefuses
  <2>4. TransferUpload(xfer.block_seq)
    BY <1>3, <2>3 DEF uds_svc_transfer_data
  <2> QED
    BY <2>4 DEF TransferUpload, Advance
<1> QED
  BY <1>1, <1>2, <1>3 DEF Xfer, Modes

\* Every step keeps the invariant: a step is a refusal or one of the five
\* accepted requests above.
LEMMA NextInv == IInv /\ [Next]_vars => IInv'
<1> SUFFICES ASSUME IInv, [Next]_vars PROVE IInv'
  OBVIOUS
<1>1. ASSUME NEW nrc \in Nrcs, Refuse(nrc) PROVE IInv'
  BY <1>1, ReplyOnlyInv DEF Refuse, Replies
<1>2. ASSUME NEW fmt_ok \in BOOLEAN, NEW address \in Word, NEW mem_size \in Word,
             uds_svc_request_download(fmt_ok, address, mem_size)
      PROVE  IInv'
  BY <1>1, <1>2, StartDownloadInv DEF uds_svc_request_download, Nrcs
<1>3. ASSUME NEW fmt_ok \in BOOLEAN, NEW address \in Word, NEW mem_size \in Word,
             uds_svc_request_upload(fmt_ok, address, mem_size)
      PROVE  IInv'
  BY <1>1, <1>3, StartUploadInv DEF uds_svc_request_upload, Nrcs
<1>4. ASSUME NEW seq \in 0 .. SeqMax, NEW bytes \in Blocks,
             uds_svc_transfer_data(seq, bytes)
      PROVE  IInv'
  <2>1. bytes \in Seq(Byte)
    BY SizesAssumption DEF Blocks
  <2> QED
    BY <1>4, <2>1, TransferDataInv
<1>5. CASE uds_svc_transfer_exit
  BY <1>5, ExitInv
<1>6. CASE UNCHANGED vars
  BY <1>6, ReplyOnlyInv DEF vars, history, IInv, TypeOK
<1> QED
  BY <1>2, <1>3, <1>4, <1>5, <1>6 DEF Next

\* The invariant holds in every reachable state.
LEMMA Invariance == Spec => []IInv
BY InitInv, NextInv, PTL DEF Spec

----------------------------------------------------------------------------
(* Theorems *)

\* Type correctness of the flash, the transfer session and their history.
THEOREM TypeCorrect == Spec => []TypeOK
<1>1. IInv => TypeOK
  BY DEF IInv
<1> QED
  BY <1>1, Invariance, PTL

\* uds_svc_transfer_data never leaves the window 0x34/0x35 checked.
THEOREM WindowSafe == Spec => []WindowInRegion
<1>1. IInv => WindowInRegion
  BY DEF IInv
<1> QED
  BY <1>1, Invariance, PTL

\* A download's window holds exactly the accepted blocks, in order.
THEOREM DownloadCorrect == Spec => []DownloadContents
<1>1. IInv => DownloadContents
  BY DEF IInv
<1> QED
  BY <1>1, Invariance, PTL

\* An upload serves its window, each byte once and in order.
THEOREM UploadCorrect == Spec => []UploadServed
<1>1. IInv => UploadServed
  BY DEF IInv
<1> QED
  BY <1>1, Invariance, PTL

\* Blocks are accepted once each and in the order of their counters.
THEOREM OrderCorrect == Spec => []BlocksInOrder
<1>1. IInv => BlocksInOrder
  BY DEF IInv
<1> QED
  BY <1>1, Invariance, PTL

\* No accepted download is later refused by the device.
THEOREM DownloadNeverStuck == Spec => []BlocksProgrammable
<1>1. IInv => BlocksProgrammable
  BY RestAccepted DEF BlocksProgrammable
<1> QED
  BY <1>1, Invariance, PTL

\* A request that is not answered positively changes neither flash nor session.
THEOREM FailureAtomic == Spec => FailureChangesNothing
<1>1. [Next]_vars => [reply' # Positive => UNCHANGED <<data, xfer>>]_vars
  BY DEF Next, vars, uds_svc_request_download, uds_svc_request_upload,
         uds_svc_transfer_data, uds_svc_transfer_exit, TransferDownload,
         TransferUpload, Refuse, StartXfer, Advance
<1> QED
  BY <1>1, PTL DEF Spec, FailureChangesNothing

\* No step changes a cell of a protected region: what erases or writes has
\* passed Programmable, and regions share no cell.
THEOREM ProtectionHolds == Spec => ProtectedCellsFixed
<1> DEFINE Fixed == \A i \in 1 .. Len(Regions) : Regions[i].protected =>
                      \A c \in Regions[i].base_address ..
                               Regions[i].base_address + Regions[i].size - 1 :
                         data'[c] = data[c]
<1>1. ASSUME NEW address \in Nat, NEW length \in Nat, Programmable(address, length),
             \A c \in Cells : c \notin address .. address + length - 1
                                => data'[c] = data[c]
      PROVE  Fixed
  <2> SUFFICES ASSUME NEW i \in 1 .. Len(Regions), Regions[i].protected,
                      NEW c \in Regions[i].base_address ..
                                Regions[i].base_address + Regions[i].size - 1
               PROVE  data'[c] = data[c]
    OBVIOUS
  <2>1. /\ c \in Int /\ Regions[i].base_address <= c
        /\ c < Regions[i].base_address + Regions[i].size
        /\ c \in Cells
    BY RegionBounds, SizesAssumption DEF Cells
  <2>2. PICK j \in 1 .. Len(Regions) :
           /\ ~ Regions[j].protected
           /\ Regions[j].base_address <= address
           /\ address + length <= Regions[j].base_address + Regions[j].size
    BY <1>1, ProgrammableRange
  <2>3. c \notin address .. address + length - 1
    <3> SUFFICES ASSUME c \in address .. address + length - 1 PROVE FALSE
      OBVIOUS
    <3>0. Regions[j].base_address \in Nat /\ Regions[j].size \in Nat
      BY RegionBounds
    <3>1. /\ Regions[j].base_address <= c
          /\ c < Regions[j].base_address + Regions[j].size
      BY <1>1, <2>1, <2>2, <3>0
    <3>2. i = j
      BY <2>1, <3>1, RegionsDisjoint
    <3> QED
      BY <2>2, <3>2
  <2> QED
    BY <1>1, <2>1, <2>3
<1>2. ASSUME UNCHANGED data PROVE Fixed
  BY <1>2
<1> HIDE DEF Fixed
<1>3. IInv /\ [Next]_vars => [Fixed]_vars
  <2> SUFFICES ASSUME IInv, Next PROVE Fixed
    BY DEF vars
  <2>1. ASSUME NEW fmt_ok \in BOOLEAN, NEW address \in Word, NEW mem_size \in Word,
               uds_svc_request_download(fmt_ok, address, mem_size)
        PROVE  Fixed
    <3>1. CASE UNCHANGED data
      BY <1>2, <3>1
    <3>2. CASE Programmable(address, mem_size) /\ data' = uds_flash_erase(address, mem_size)
      <4>1. address \in Nat /\ mem_size \in Nat
        BY SizesAssumption DEF Word
      <4>2. \A c \in Cells : c \notin address .. address + mem_size - 1
                               => data'[c] = data[c]
        BY <3>2 DEF uds_flash_erase
      <4> QED
        BY <1>1, <3>2, <4>1, <4>2
    <3> QED
      BY <2>1, <3>1, <3>2 DEF uds_svc_request_download, Refuse
  <2>2. ASSUME NEW seq \in 0 .. SeqMax, NEW bytes \in Blocks,
               uds_svc_transfer_data(seq, bytes)
        PROVE  Fixed
    <3>1. CASE UNCHANGED data
      BY <1>2, <3>1
    <3>2. CASE /\ xfer.mode = "DOWNLOAD"
               /\ Programmable(Position, Len(bytes))
               /\ data' = uds_flash_write(Position, bytes)
      <4>1. Position \in Nat /\ Len(bytes) \in Nat
        <5>1. Position \in Nat
          BY <3>2, NoWrap DEF IInv
        <5>2. bytes \in Seq(Byte)
          BY SizesAssumption DEF Blocks
        <5> QED
          BY <5>1, <5>2
      <4>2. \A c \in Cells : c \notin Position .. Position + Len(bytes) - 1
                               => data'[c] = data[c]
        BY <3>2 DEF uds_flash_write
      <4> QED
        BY <1>1, <3>2, <4>1, <4>2
    <3> QED
      BY <2>2, <3>1, <3>2 DEF uds_svc_transfer_data, TransferDownload,
                              TransferUpload, Refuse
  <2>3. ASSUME NEW fmt_ok \in BOOLEAN, NEW address \in Word, NEW mem_size \in Word,
               uds_svc_request_upload(fmt_ok, address, mem_size)
        PROVE  Fixed
    BY <1>2, <2>3 DEF uds_svc_request_upload, Refuse
  <2>4. CASE uds_svc_transfer_exit
    BY <1>2, <2>4 DEF uds_svc_transfer_exit, Refuse
  <2> QED
    BY <2>1, <2>2, <2>3, <2>4 DEF Next
<1>4. []IInv /\ [][Next]_vars => [][Fixed]_vars
  BY <1>3, PTL
<1> QED
  BY <1>4, Invariance DEF Spec, ProtectedCellsFixed, Fixed

\* A transfer is replaced only after a 0x37.
THEOREM OneTransferAtATime == Spec => TransferExclusive
<1> DEFINE Same == xfer.mode # "IDLE" /\ xfer'.mode # "IDLE" =>
                     /\ xfer'.mode = xfer.mode
                     /\ xfer'.address = xfer.address
                     /\ xfer'.total_length = xfer.total_length
                     /\ xfer'.transferred >= xfer.transferred
<1>1. IInv /\ [Next]_vars => [Same]_vars
  <2> SUFFICES ASSUME IInv, Next, xfer.mode # "IDLE", xfer'.mode # "IDLE"
               PROVE  /\ xfer'.mode = xfer.mode
                      /\ xfer'.address = xfer.address
                      /\ xfer'.total_length = xfer.total_length
                      /\ xfer'.transferred >= xfer.transferred
    BY DEF vars
  <2>1. xfer.transferred \in Nat
    BY NoWrap DEF IInv
  <2>2. CASE UNCHANGED xfer
    BY <2>1, <2>2
  <2>3. ASSUME NEW seq, seq = xfer.block_seq, NEW bytes \in Seq(Byte),
               Len(bytes) <= Remaining, Advance(seq, bytes)
        PROVE  /\ xfer'.mode = xfer.mode
               /\ xfer'.address = xfer.address
               /\ xfer'.total_length = xfer.total_length
               /\ xfer'.transferred >= xfer.transferred
    <3>1. /\ xfer'.mode = xfer.mode
          /\ xfer'.address = xfer.address
          /\ xfer'.total_length = xfer.total_length
          /\ xfer'.transferred = xfer.transferred + Len(bytes)
      BY <2>3, AdvanceFacts
    <3>2. Len(bytes) \in Nat
      BY <2>3
    <3> QED
      BY <2>1, <3>1, <3>2
  <2>4. ASSUME NEW seq \in 0 .. SeqMax, NEW bytes \in Blocks,
               uds_svc_transfer_data(seq, bytes), xfer' # xfer
        PROVE  \E b \in Seq(Byte) : Len(b) <= Remaining /\ Advance(seq, b)
    <3>1. CASE xfer.mode = "DOWNLOAD"
      <4>1. bytes \in Seq(Byte)
        BY SizesAssumption DEF Blocks
      <4> QED
        BY <2>4, <3>1, <4>1 DEF uds_svc_transfer_data, TransferDownload, Refuse
    <3>2. CASE xfer.mode = "UPLOAD"
      <4>1. Advance(seq, uds_flash_read(Position, ToRead))
        BY <2>4, <3>2 DEF uds_svc_transfer_data, TransferUpload, Refuse
      <4>2. /\ Position = xfer.address + xfer.transferred
            /\ xfer.address \in Nat /\ xfer.total_length \in Nat
            /\ Remaining = xfer.total_length - xfer.transferred
            /\ xfer.address + xfer.total_length <= FlashSize
            /\ ToRead \in 0 .. Remaining
        BY NoWrap DEF IInv
      <4>3. \A k \in 1 .. ToRead : data[Position + k - 1] \in Byte
        <5> SUFFICES ASSUME NEW k \in 1 .. ToRead
                     PROVE  Position + k - 1 \in Cells
          BY DEF IInv, TypeOK
        <5>1. k \in Nat /\ 1 <= k /\ k <= xfer.total_length - xfer.transferred
          BY <2>1, <4>2
        <5> QED
          BY <2>1, <4>2, <5>1, SizesAssumption DEF Cells
      <4>4. /\ uds_flash_read(Position, ToRead) \in Seq(Byte)
            /\ Len(uds_flash_read(Position, ToRead)) = ToRead
        BY <4>2, <4>3, <2>1 DEF uds_flash_read
      <4>5. ToRead <= Remaining
        BY <4>2, <2>1
      <4> QED
        BY <4>1, <4>4, <4>5
    <3> QED
      BY <3>1, <3>2 DEF IInv, TypeOK, Xfer, Modes
  <2>5. ASSUME NEW seq \in 0 .. SeqMax, NEW bytes \in Blocks,
               uds_svc_transfer_data(seq, bytes), xfer' # xfer
        PROVE  seq = xfer.block_seq
    BY <2>5 DEF uds_svc_transfer_data, Refuse
  <2>6. ASSUME xfer' # xfer
        PROVE  \E seq \in 0 .. SeqMax, bytes \in Blocks :
                  uds_svc_transfer_data(seq, bytes)
    BY <2>6 DEF Next, uds_svc_request_download, uds_svc_request_upload,
                uds_svc_transfer_exit, Refuse, uds_xfer_init
  <2> QED
    BY <2>2, <2>3, <2>4, <2>5, <2>6
<1>2. []IInv /\ [][Next]_vars => [][Same]_vars
  BY <1>1, PTL
<1> QED
  BY <1>2, Invariance DEF Spec, TransferExclusive
============================================================================
