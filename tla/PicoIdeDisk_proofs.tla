-------------------------- MODULE PicoIdeDisk_proofs --------------------------
(***************************************************************************)
(* Proofs about the emulated drive and its driver for every size of        *)
(* sector, FIFO and card and any number of sectors in a call: the two      *)
(* cores and the DMA channels never work on one buffer at a time, DRQ and  *)
(* BSY always have somebody behind them, what the driver reads is what the *)
(* card holds and what it was told is written is on the card.              *)
(*                                                                         *)
(* The theorems are about the settings that are Orderly, and a core 1      *)
(* between whose stores of the status and of the direction no bus cycle    *)
(* slips.                                                                  *)
(***************************************************************************)
EXTENDS PicoIdeDisk, Integers, SequenceTheorems, TLAPS

\* ata_identify does not wait for BSY, so no call before it may have given up
\* on a busy drive; and between two sectors of a read the DMA_B interrupt must
\* have been handled before the status is read.
Orderly(s) ==
  /\ s.timeOuts => "identify" \notin s.calls
  /\ s.dmaIrqFirst \/ "read" \notin s.calls

-----------------------------------------------------------------------------
(* The inductive invariant: types.                                         *)

WordSet  == {Sector(d)[i] : d \in Data \cup {"identity"}, i \in 1 .. Words}
StBusy   == {"DRDY", "BSY"}
StDrq    == {"DRDY", "DRQ"}
Over     == {Idle, Failed}
CoreAt   == {"idle", "fetch_args", "sd_read", "fetch_test", "fetch_drq", "flush_args",
             "sd_write", "flush_count", "flush_arm", "flush_drq", "idle_status",
             "fail_status", "end_dir"}
Ops      == {"none", "read", "write", "identify", "diagnostic", "nop", "unknown"}
PcSet    == Waits \cup {"idle", "select", "command", "identify", "transfer"}

FetchSet == [need : BOOLEAN, buf : {0, 1}, lba : Nat]
FlushSet == [need : BOOLEAN, lba : Nat]
DmaBSet  == [left : 0 .. Words, buf : {0, 1}, irq : BOOLEAN]
DmaCSet  == [left : 0 .. Words, irq : BOOLEAN]
CoreSet  == [at : CoreAt, buf : {0, 1}, lba : Nat]

FirmwareTypes ==
  /\ dir \in {"NONE", "READ", "WRITE"}
  /\ lba \in Nat /\ remaining \in Int /\ active \in {0, 1}
  /\ fetch \in FetchSet
  /\ flush \in FlushSet
  /\ dmaB \in DmaBSet
  /\ dmaC \in DmaCSet
  /\ tx \in Seq(WordSet) /\ Len(tx) <= FifoDepth
  /\ rx \in Seq(WordSet) /\ Len(rx) <= FifoDepth
  /\ core1 \in CoreSet
  /\ buf \in [Buffers -> [1 .. Words -> WordSet]]
  /\ sd \in [Lbas -> [1 .. Words -> WordSet]]

HostTypes ==
  /\ setting \in Settings /\ Orderly(setting)
  /\ pc \in PcSet
  /\ call.op \in Ops
  /\ call.op \in {"read", "write"} =>
       /\ call.lba \in 0 .. Capacity /\ call.count \in 1 .. CountMax - 1
       /\ call.op \in setting.calls
  /\ call.op = "write" => call.data \in [1 .. call.count -> Data]
  /\ call.op = "identify" => "identify" \in setting.calls
  /\ pc \in {"select", "identify"} => "identify" \in setting.calls
  /\ sector \in Nat /\ word \in Nat /\ word < Words
  /\ got \in Seq(WordSet)

-----------------------------------------------------------------------------
(* The inductive invariant: who works, and how far.                        *)

\* The drive took the last command; it asks for Sectors sectors, of which
\* Done have passed, and of the one underway DMA_B has moved Pushed words.
Served  == call.op \in {"read", "write"} \/ (call.op = "identify" /\ setting.sizeKnown)
Sectors == IF call.op = "identify" THEN 1 ELSE call.count
Done    == Sectors - remaining
Pushed  == IF dmaB.irq \/ dmaB.left > 0 THEN Words - dmaB.left ELSE 0

\* Nothing in the drive moves by itself, except that a last sector may end.
Rest ==
  /\ core1.at = "idle" /\ ~fetch.need /\ ~flush.need
  /\ status # StBusy /\ ~dmaC.irq
  /\ dmaB.irq => remaining = 1
  /\ DmaSettled

\* A refused command, or one without data, leaves the drive at rest.
Unserved == Rest /\ status \in Over /\ pc \notin {"transfer", "wait_end"}

\* Core 1 fetches the next sector of a read: the channel is armed last.
Fetching ==
  /\ status = StBusy /\ dir = "READ" /\ call.op = "read" /\ remaining >= 1
  /\ ~dmaB.irq
  /\ \/ fetch.need /\ core1.at = "idle"
     \/ ~fetch.need /\ core1.at \in {"fetch_args", "sd_read", "fetch_test", "fetch_drq",
                                     "fail_status"}
  /\ core1.at # "fetch_drq" => dmaB.left = 0
  /\ core1.at = "fetch_drq" => dmaB.left > 0 /\ dmaB.buf = active
  /\ (fetch.need \/ core1.at = "fetch_args") => fetch.buf = active
  /\ core1.at \in {"sd_read", "fetch_test"} => core1.buf = active
  /\ pc = "transfer" => sector = Done - 1
  /\ sector = Done => word = 0

\* DMA_B moves a sector to the 68000.
Sending ==
  /\ status = StDrq /\ dir = "READ" /\ remaining >= 1
  /\ core1.at = "idle" /\ ~fetch.need
  /\ dmaB.irq <=> dmaB.left = 0
  /\ dmaB.buf = active
  /\ pc = "transfer" => sector <= Done

\* A read has ended, by its last sector or by an error of the card.
ReadOver ==
  /\ status \in Over /\ ~fetch.need
  /\ dmaB.left = 0 /\ ~dmaB.irq
  /\ \/ core1.at = "idle"
     \/ core1.at = "end_dir" /\ status = Failed
  /\ status = Idle => remaining = 0
  /\ status = Failed => remaining >= 1
  /\ pc = "transfer" => sector = Done - 1

\* The words of the sector underway are with the driver or in the FIFO; the
\* driver may lag one sector behind or, until the interrupt, be one ahead.
ReadCount ==
  \/ sector = Done /\ word + Len(tx) = Pushed
  \/ sector = Done - 1 /\ word + Len(tx) = Words + Pushed
  \/ sector = Done + 1 /\ word = 0 /\ tx = <<>> /\ Pushed = Words

ReadPhase ==
  /\ ~flush.need /\ dmaC.left = 0 /\ ~dmaC.irq
  /\ remaining \in 0 .. Sectors
  /\ ReadCount
  /\ Fetching \/ Sending \/ ReadOver

\* DMA_C takes a sector from the 68000; until its interrupt is handled a
\* status read may already have shown BSY.
Taking ==
  /\ status \in {StDrq, StBusy} /\ dir = "WRITE" /\ remaining >= 1
  /\ core1.at = "idle" /\ ~flush.need
  /\ dmaC.irq <=> dmaC.left = 0
  /\ status = StBusy => dmaC.irq
  /\ \/ sector = Done /\ word = Words - dmaC.left + Len(rx)
     \/ sector = Done + 1 /\ word = 0 /\ Len(rx) = dmaC.left
  /\ pc = "transfer" => sector = Done

\* Core 1 writes a sector, and then counts it and arms the channel again.
Flushing ==
  /\ status = StBusy /\ dir = "WRITE" /\ ~dmaC.irq /\ rx = <<>>
  /\ \/ flush.need /\ core1.at = "idle"
     \/ ~flush.need /\ core1.at \in {"flush_args", "sd_write", "flush_count", "flush_arm",
                                     "flush_drq", "idle_status", "fail_status"}
  /\ dmaC.left = IF core1.at = "flush_drq" THEN Words ELSE 0
  /\ core1.at # "idle_status" => remaining >= 1
  /\ core1.at = "idle_status" => remaining = 0
  /\ word = 0
  /\ sector = IF core1.at \in {"flush_arm", "flush_drq", "idle_status"} THEN Done ELSE Done + 1
  /\ core1.at \in {"sd_write", "flush_count"} => core1.buf = 0
  /\ pc # "transfer"

WriteOver ==
  /\ status \in Over /\ ~flush.need
  /\ core1.at \in {"idle", "end_dir"}
  /\ dmaC.left = 0 /\ ~dmaC.irq /\ rx = <<>>
  /\ status = Idle => remaining = 0
  /\ pc # "transfer"

WritePhase ==
  /\ ~fetch.need /\ dmaB.left = 0 /\ ~dmaB.irq /\ tx = <<>>
  /\ remaining \in 0 .. Sectors
  /\ Taking \/ Flushing \/ WriteOver

DriveInv ==
  /\ ~Served => Unserved
  /\ Served /\ call.op # "write" => ReadPhase
  /\ call.op = "write" => WritePhase

\* The driver is inside a sector only while it transfers, and gives a command
\* only to a drive at rest.
HostInv ==
  /\ pc \in {"wait_bsy", "wait_drq", "wait_end"} => word = 0
  /\ pc \in {"wait_bsy", "wait_drq", "transfer"} =>
       call.op \in {"read", "write", "identify"} /\ sector < Sectors
  /\ pc = "wait_end" => call.op = "write" /\ sector = Sectors
  /\ pc \in {"command", "select", "identify"} => Rest
  /\ ~setting.timeOuts /\ pc \in {"idle", "wait_idle"} => Rest

WorkInv == FirmwareTypes /\ HostTypes /\ DriveInv /\ HostInv

-----------------------------------------------------------------------------
(* The inductive invariant: what the words are.                            *)

\* w is what the i-th word of the read has to be.
Right(i, w) ==
  /\ call.op = "read" => call.lba + ((i - 1) \div Words) \in Lbas
  /\ w = Expected(i)

\* The sector the drive is at is in the buffer it sends from.
Loaded ==
  IF call.op = "read" THEN lba \in Lbas /\ buf[active] = sd[lba] ELSE buf[active] = Identity

\* The words with the driver and those in the FIFO are one stream, and it
\* ends where DMA_B is.
Stream ==
  /\ Len(got) + Len(tx) = Words * Done + Pushed
  /\ \A i \in 1 .. Len(got) : Right(i, got[i])
  /\ \A i \in 1 .. Len(tx) : Right(Len(got) + i, tx[i])

\* What is fetched, and into which buffer, is the sector the drive is at.
ReadPlace ==
  /\ call.op = "read" => lba = call.lba + Done /\ lba <= Capacity
  /\ (fetch.need \/ core1.at = "fetch_args") => fetch.lba = lba
  /\ core1.at = "sd_read" => core1.lba = lba
  /\ (core1.at \in {"fetch_test", "fetch_drq"} \/ status = StDrq) => Loaded

\* The sector to be written at call.lba + s.
Want(s) == Sector(call.data[s + 1])

\* Sectors already counted are on the card.
Stored ==
  \A s \in 0 .. Done - 1 : call.lba + s \in Lbas /\ sd[call.lba + s] = Want(s)

\* The words of the sector underway are in the buffer and in the FIFO.
TakeData ==
  (core1.at = "idle" /\ ~flush.need /\ status \notin Over) =>
    /\ lba = call.lba + Done
    /\ \A i \in 1 .. Words - dmaC.left : buf[0][i] = Want(Done)[i]
    /\ \A i \in 1 .. Len(rx) : rx[i] = Want(Done)[Words - dmaC.left + i]

FlushData ==
  /\ (flush.need \/ core1.at = "flush_args") => flush.lba = call.lba + Done
  /\ (flush.need \/ core1.at \in {"flush_args", "sd_write"}) => buf[0] = Want(Done)
  /\ core1.at \in {"sd_write", "flush_count"} => core1.lba = call.lba + Done
  /\ core1.at = "flush_count" => core1.lba \in Lbas /\ sd[core1.lba] = Want(Done)
  /\ core1.at = "flush_arm" => core1.lba \in Lbas /\ core1.lba + 1 = call.lba + Done
  /\ core1.at = "flush_drq" => lba = call.lba + Done

\* What a return of ATA_OK tells.
WriteEnded ==
  /\ pc = "idle" /\ result = "ok" => status \in Over
  /\ pc = "boot" => result # "ok"

DataInv ==
  /\ Served /\ call.op # "write" => Stream /\ ReadPlace
  /\ ~Served \/ call.op = "write" => got = <<>>
  /\ call.op = "write" => Stored /\ TakeData /\ FlushData /\ WriteEnded

-----------------------------------------------------------------------------
(* The registers and the words.                                            *)

\* The four values of the status register and the helpers on them.
LEMMA StatusValues ==
  /\ "BSY" \in StBusy /\ "DRQ" \notin StBusy /\ "ERR" \notin StBusy
  /\ "BSY" \notin StDrq /\ "DRQ" \in StDrq /\ "ERR" \notin StDrq
  /\ "BSY" \notin Idle /\ "DRQ" \notin Idle /\ "ERR" \notin Idle
  /\ "BSY" \notin Failed /\ "DRQ" \notin Failed /\ "ERR" \in Failed
  /\ StBusy # StDrq /\ StBusy # Idle /\ StBusy # Failed
  /\ StDrq # Idle /\ StDrq # Failed /\ Idle # Failed
<1>1. /\ "BSY" \in StBusy /\ "DRQ" \notin StBusy /\ "ERR" \notin StBusy
      /\ "BSY" \notin StDrq /\ "DRQ" \in StDrq /\ "ERR" \notin StDrq
      /\ "BSY" \notin Idle /\ "DRQ" \notin Idle /\ "ERR" \notin Idle
      /\ "BSY" \notin Failed /\ "DRQ" \notin Failed /\ "ERR" \in Failed
  BY DEF StBusy, StDrq, Idle, Failed
<1>. QED  BY <1>1

LEMMA StatusHelpers ==
  Busy(StDrq) = StBusy /\ Busy(StBusy) = StBusy /\ Drq(StBusy) = StDrq
BY DEF Busy, Drq, StBusy, StDrq

LEMMA CommandStatus ==
  {"DRDY", "BSY"} = StBusy /\ {"DRDY", "DRQ"} = StDrq
BY DEF StBusy, StDrq

\* A word passes the byte swap of the channel and the load unchanged.
LEMMA SwapTwice ==
  ASSUME NEW w \in WordSet
  PROVE  /\ Bswap(Load16(w)) = w /\ Load16(Bswap(w)) = w
         /\ <<w[1], w[2]>> = w
<1>1. PICK d \in Data \cup {"identity"}, i \in 1 .. Words : w = <<<<d, 2 * i - 1>>, <<d, 2 * i>>>>
  BY DEF WordSet, Sector
<1>. QED  BY <1>1 DEF Bswap, Load16

LEMMA SectorType ==
  ASSUME NEW d \in Data \cup {"identity"}
  PROVE  Sector(d) \in [1 .. Words -> WordSet]
<1>1. \A i \in 1 .. Words : Sector(d)[i] \in WordSet
  BY DEF WordSet
<1>2. Sector(d) = [i \in 1 .. Words |-> Sector(d)[i]]
  BY DEF Sector
<1>. QED  BY <1>1, <1>2

-----------------------------------------------------------------------------
(* Types.                                                                  *)

LEMMA CoreTypes ==
  ASSUME FirmwareTypes, Core1
  PROVE  /\ core1' \in CoreSet
         /\ fetch' \in FetchSet
         /\ flush' \in FlushSet
<1>. USE DEF FirmwareTypes, Core1At, CoreAt, CoreSet, FetchSet, FlushSet
<1>1. CASE FetchTake
  BY <1>1 DEF FetchTake
<1>2. CASE FetchArgs
  BY <1>2 DEF FetchArgs
<1>3. CASE SdReadOk
  BY <1>3 DEF SdReadOk
<1>4. CASE SdReadFail
  BY <1>4 DEF SdReadFail
<1>5. CASE FetchTest
  BY <1>5 DEF FetchTest
<1>6. CASE SetDrq
  BY <1>6 DEF SetDrq
<1>7. CASE FlushTake
  BY <1>7 DEF FlushTake
<1>8. CASE FlushArgs
  BY <1>8 DEF FlushArgs
<1>9. CASE SdWriteOk
  BY <1>9 DEF SdWriteOk
<1>10. CASE SdWriteFail
  BY <1>10 DEF SdWriteFail
<1>11. CASE FlushCount
  BY <1>11 DEF FlushCount
<1>12. CASE FlushArm
  BY <1>12 DEF FlushArm
<1>13. CASE EndStatus
  BY <1>13 DEF EndStatus
<1>14. CASE EndDir
  BY <1>14 DEF EndDir
<1>. QED
  BY <1>1, <1>2, <1>3, <1>4, <1>5, <1>6, <1>7, <1>8, <1>9, <1>10, <1>11, <1>12, <1>13, <1>14
     DEF Core1

\* A channel is armed, moves a word and raises its interrupt with the last one.
LEMMA DmaTypes ==
  ASSUME NEW b \in DmaBSet, NEW c \in DmaCSet
  PROVE  /\ b.left > 0 => /\ [b EXCEPT !.left = @ - 1, !.irq = @ \/ b.left = 1] \in DmaBSet
                          /\ Words - b.left + 1 \in 1 .. Words
         /\ c.left > 0 => /\ [c EXCEPT !.left = @ - 1, !.irq = @ \/ c.left = 1] \in DmaCSet
                          /\ Words - c.left + 1 \in 1 .. Words
         /\ [b EXCEPT !.irq = FALSE] \in DmaBSet /\ [c EXCEPT !.irq = FALSE] \in DmaCSet
         /\ \A k \in {0, 1} : [b EXCEPT !.left = Words, !.buf = k] \in DmaBSet
         /\ [c EXCEPT !.left = Words] \in DmaCSet
         /\ b.buf \in Buffers
<1>0. Words \in Nat
  BY SizesAssumption
<1>1. b.left \in 0 .. Words /\ b.irq \in BOOLEAN /\ b.buf \in {0, 1}
  BY DEF DmaBSet
<1>2. c.left \in 0 .. Words /\ c.irq \in BOOLEAN
  BY DEF DmaCSet
<1>3. ASSUME b.left > 0
      PROVE  [b EXCEPT !.left = @ - 1, !.irq = @ \/ b.left = 1] \in DmaBSet
  <2>1. b.left - 1 \in 0 .. Words /\ (b.irq \/ b.left = 1) \in BOOLEAN
    BY <1>0, <1>1, <1>3
  <2>. QED  BY <2>1 DEF DmaBSet
<1>4. ASSUME c.left > 0
      PROVE  [c EXCEPT !.left = @ - 1, !.irq = @ \/ c.left = 1] \in DmaCSet
  <2>1. c.left - 1 \in 0 .. Words /\ (c.irq \/ c.left = 1) \in BOOLEAN
    BY <1>0, <1>2, <1>4
  <2>. QED  BY <2>1 DEF DmaCSet
<1>5. /\ b.left > 0 => Words - b.left + 1 \in 1 .. Words
      /\ c.left > 0 => Words - c.left + 1 \in 1 .. Words
  BY <1>0, <1>1, <1>2
<1>6. Words \in 0 .. Words
  BY <1>0
<1>7. [b EXCEPT !.irq = FALSE] \in DmaBSet
  BY DEF DmaBSet
<1>8. \A k \in {0, 1} : [b EXCEPT !.left = Words, !.buf = k] \in DmaBSet
  BY <1>6 DEF DmaBSet
<1>9. [c EXCEPT !.irq = FALSE] \in DmaCSet
  BY DEF DmaCSet
<1>10. [c EXCEPT !.left = Words] \in DmaCSet
  BY <1>6 DEF DmaCSet
<1>. QED  BY <1>1, <1>3, <1>4, <1>5, <1>7, <1>8, <1>9, <1>10 DEF Buffers

LEMMA CoreDataTypes ==
  ASSUME FirmwareTypes, Core1
  PROVE  /\ dir' \in {"NONE", "READ", "WRITE"} /\ lba' \in Nat /\ remaining' \in Int
         /\ active' = active /\ tx' = tx /\ rx' = rx
         /\ dmaB' \in DmaBSet /\ dmaC' \in DmaCSet
         /\ buf' \in [Buffers -> [1 .. Words -> WordSet]]
         /\ sd' \in [Lbas -> [1 .. Words -> WordSet]]
<1>. USE DEF FirmwareTypes
<1>0. /\ Words \in Nat /\ LbaMod \in Nat /\ LbaMod > 0
      /\ core1.buf \in Buffers /\ core1.buf \in {0, 1} /\ core1.lba \in Nat
  BY SizesAssumption DEF Buffers, CoreSet
<1>1. CASE FetchTake \/ FetchArgs \/ SdReadFail \/ SetDrq \/ FlushTake \/ FlushArgs \/ EndStatus
  BY <1>1 DEF FetchTake, FetchArgs, SdReadFail, SetDrq, FlushTake, FlushArgs, EndStatus
<1>2. CASE SdReadOk
  BY <1>0, <1>2 DEF SdReadOk
<1>3. CASE FetchTest
  <2>1. [dmaB EXCEPT !.left = Words, !.buf = core1.buf] \in DmaBSet
    BY <1>0, DmaTypes
  <2>. QED  BY <1>3, <2>1 DEF FetchTest, ArmDmaB
<1>4. CASE SdWriteOk \/ SdWriteFail
  BY <1>0, <1>4 DEF SdWriteOk, SdWriteFail
<1>5. CASE FlushCount
  BY <1>5 DEF FlushCount
<1>6. CASE FlushArm
  <2>1. (core1.lba + 1) % LbaMod \in Nat
    BY <1>0
  <2>2. [dmaC EXCEPT !.left = Words] \in DmaCSet
    BY <1>0, DmaTypes
  <2>. QED  BY <1>6, <2>1, <2>2 DEF FlushArm, ArmDmaC
<1>7. CASE EndDir
  BY <1>7 DEF EndDir
<1>. QED
  BY <1>1, <1>2, <1>3, <1>4, <1>5, <1>6, <1>7 DEF Core1

LEMMA FirmwareTypesStep ==
  ASSUME FirmwareTypes, FirmwareStep
  PROVE  FirmwareTypes'
<1>0. /\ Words \in Nat /\ FifoDepth \in Nat /\ FifoDepth > 0 /\ FifoDepth < Words
      /\ LbaMod \in Nat /\ LbaMod > 0
  BY SizesAssumption
<1>a. dmaB \in DmaBSet /\ dmaC \in DmaCSet /\ fetch \in FetchSet /\ lba \in Nat
  BY DEF FirmwareTypes
<1>b. /\ tx \in Seq(WordSet) /\ Len(tx) <= FifoDepth
      /\ rx \in Seq(WordSet) /\ Len(rx) <= FifoDepth
      /\ buf \in [Buffers -> [1 .. Words -> WordSet]]
  BY DEF FirmwareTypes
<1>1. CASE Core1
  BY <1>1, CoreTypes, CoreDataTypes DEF FirmwareTypes
<1>2. CASE DmaBMove
  <2>. DEFINE k == Words - dmaB.left + 1
              w == Bswap(Load16(buf[dmaB.buf][k]))
  <2>1. k \in 1 .. Words /\ dmaB.buf \in Buffers /\ dmaB' \in DmaBSet
    BY <1>2, <1>a, DmaTypes DEF DmaBMove
  <2>2. tx' = Append(tx, w) /\ Len(tx) < FifoDepth
    BY <1>2 DEF DmaBMove
  <2>. HIDE DEF k
  <2>3. buf[dmaB.buf][k] \in WordSet
    BY <1>b, <2>1
  <2>4. w \in WordSet
    BY <2>3, SwapTwice
  <2>. HIDE DEF w
  <2>5. tx' \in Seq(WordSet) /\ Len(tx') <= FifoDepth
    BY <1>0, <1>b, <2>2, <2>4
  <2>. QED  BY <1>2, <2>1, <2>5 DEF DmaBMove, FirmwareTypes
<1>3. CASE DmaCMove
  <2>. DEFINE k == Words - dmaC.left + 1
              w == Load16(Bswap(Head(rx)))
  <2>1. k \in 1 .. Words /\ dmaC' \in DmaCSet /\ 0 \in Buffers
    BY <1>3, <1>a, DmaTypes DEF DmaCMove, Buffers
  <2>2. rx # <<>>
    BY <1>3 DEF DmaCMove
  <2>3. Head(rx) \in WordSet /\ Tail(rx) \in Seq(WordSet) /\ Len(Tail(rx)) <= FifoDepth
    BY <1>0, <1>b, <2>2
  <2>4. w \in WordSet
    BY <2>3, SwapTwice
  <2>5. buf' = [buf EXCEPT ![0] = [buf[0] EXCEPT ![k] = w]]
    BY <1>3 DEF DmaCMove
  <2>. HIDE DEF k, w
  <2>6. [buf[0] EXCEPT ![k] = w] \in [1 .. Words -> WordSet]
    BY <1>b, <2>1, <2>4
  <2>7. buf' \in [Buffers -> [1 .. Words -> WordSet]]
    BY <1>b, <2>5, <2>6
  <2>. QED  BY <1>3, <2>1, <2>3, <2>7 DEF DmaCMove, FirmwareTypes
<1>4. CASE DmaBIrq
  <2>1. (lba + 1) % LbaMod \in Nat
    BY <1>0, <1>a
  <2>2. active \in {0, 1} /\ 1 - active \in {0, 1}
    BY DEF FirmwareTypes
  <2>3. [need |-> TRUE, buf |-> 1 - active, lba |-> (lba + 1) % LbaMod] \in FetchSet
    BY <2>1, <2>2 DEF FetchSet
  <2>4. fetch' \in FetchSet /\ dmaB' \in DmaBSet /\ lba' \in Nat /\ active' \in {0, 1}
    BY <1>4, <1>a, <2>1, <2>2, <2>3, DmaTypes DEF DmaBIrq
  <2>5. remaining' \in Int /\ dir' \in {"NONE", "READ", "WRITE"}
    BY <1>4 DEF DmaBIrq, FirmwareTypes
  <2>. QED  BY <1>4, <2>4, <2>5 DEF DmaBIrq, FirmwareTypes
<1>5. CASE DmaCIrq
  <2>1. dmaC' \in DmaCSet /\ flush' \in FlushSet
    BY <1>5, <1>a, DmaTypes DEF DmaCIrq, FlushSet
  <2>. QED  BY <1>5, <2>1 DEF DmaCIrq, FirmwareTypes
<1>. QED  BY <1>1, <1>2, <1>3, <1>4, <1>5 DEF FirmwareStep, Dma, Irq
-----------------------------------------------------------------------------
(* What the firmware's steps do to the fields of the records.              *)

LEMMA AtEffect ==
  ASSUME FirmwareTypes, NEW p, Core1At(p)
  PROVE  core1'.at = p /\ core1'.buf = core1.buf /\ core1'.lba = core1.lba
<1>1. core1 \in CoreSet
  BY DEF FirmwareTypes
<1>. QED  BY <1>1 DEF Core1At, CoreSet

LEMMA NeedEffect ==
  ASSUME FirmwareTypes
  PROVE  /\ fetch' = [fetch EXCEPT !.need = FALSE] =>
              ~fetch'.need /\ fetch'.buf = fetch.buf /\ fetch'.lba = fetch.lba
         /\ flush' = [flush EXCEPT !.need = FALSE] => ~flush'.need /\ flush'.lba = flush.lba
<1>1. fetch \in FetchSet /\ flush \in FlushSet
  BY DEF FirmwareTypes
<1>. QED  BY <1>1 DEF FetchSet, FlushSet

LEMMA MoveEffect ==
  ASSUME FirmwareTypes
  PROVE  /\ DmaBMove => /\ dmaB.left > 0 /\ dmaB'.left = dmaB.left - 1 /\ dmaB'.buf = dmaB.buf
                        /\ dmaB'.irq <=> (dmaB.irq \/ dmaB.left = 1)
                        /\ Len(tx) < FifoDepth /\ Len(tx') = Len(tx) + 1
         /\ DmaCMove => /\ dmaC.left > 0 /\ dmaC'.left = dmaC.left - 1
                        /\ dmaC'.irq <=> (dmaC.irq \/ dmaC.left = 1)
                        /\ Len(rx) > 0 /\ Len(rx') = Len(rx) - 1
<1>1. dmaB \in DmaBSet /\ dmaC \in DmaCSet /\ tx \in Seq(WordSet) /\ rx \in Seq(WordSet)
  BY DEF FirmwareTypes
<1>2. ASSUME DmaBMove
      PROVE  /\ dmaB.left > 0 /\ dmaB'.left = dmaB.left - 1 /\ dmaB'.buf = dmaB.buf
             /\ dmaB'.irq <=> (dmaB.irq \/ dmaB.left = 1)
  BY <1>1, <1>2 DEF DmaBMove, DmaBSet
<1>3. ASSUME DmaBMove
      PROVE  Len(tx) < FifoDepth /\ Len(tx') = Len(tx) + 1
  <2>. DEFINE w == Bswap(Load16(buf[dmaB.buf][Words - dmaB.left + 1]))
  <2>1. tx' = Append(tx, w) /\ Len(tx) < FifoDepth
    BY <1>3 DEF DmaBMove
  <2>. HIDE DEF w
  <2>. QED  BY <1>1, <2>1
<1>4. ASSUME DmaCMove
      PROVE  /\ dmaC.left > 0 /\ dmaC'.left = dmaC.left - 1
             /\ dmaC'.irq <=> (dmaC.irq \/ dmaC.left = 1)
  BY <1>1, <1>4 DEF DmaCMove, DmaCSet
<1>5. ASSUME DmaCMove
      PROVE  Len(rx) > 0 /\ Len(rx') = Len(rx) - 1
  <2>1. rx # <<>> /\ rx' = Tail(rx)
    BY <1>5 DEF DmaCMove
  <2>. QED  BY <1>1, <2>1
<1>. QED  BY <1>2, <1>3, <1>4, <1>5

LEMMA IrqEffect ==
  ASSUME FirmwareTypes
  PROVE  /\ DmaBIrq => ~dmaB'.irq /\ dmaB'.left = dmaB.left /\ dmaB'.buf = dmaB.buf
         /\ DmaCIrq => ~dmaC'.irq /\ dmaC'.left = dmaC.left
<1>1. dmaB \in DmaBSet /\ dmaC \in DmaCSet
  BY DEF FirmwareTypes
<1>. QED  BY <1>1 DEF DmaBIrq, DmaCIrq, DmaBSet, DmaCSet

LEMMA ArmEffect ==
  ASSUME FirmwareTypes
  PROVE  /\ \A b : ArmDmaB(b) => dmaB'.left = Words /\ dmaB'.buf = b /\ dmaB'.irq = dmaB.irq
         /\ ArmDmaC => dmaC'.left = Words /\ dmaC'.irq = dmaC.irq
         /\ AbortB => dmaB'.left = 0 /\ dmaB'.buf = dmaB.buf /\ ~dmaB'.irq
         /\ AbortC => dmaC'.left = 0 /\ ~dmaC'.irq
<1>1. dmaB \in DmaBSet /\ dmaC \in DmaCSet
  BY DEF FirmwareTypes
<1>. QED  BY <1>1 DEF ArmDmaB, ArmDmaC, AbortB, AbortC, DmaBSet, DmaCSet

\* The numbers and flags the phases speak of.
LEMMA Numbers ==
  ASSUME FirmwareTypes, HostTypes
  PROVE  /\ Words \in Nat /\ FifoDepth \in Nat /\ FifoDepth > 0 /\ FifoDepth < Words
         /\ dmaB.left \in 0 .. Words /\ dmaC.left \in 0 .. Words
         /\ dmaB.irq \in BOOLEAN /\ dmaC.irq \in BOOLEAN
         /\ fetch.need \in BOOLEAN /\ flush.need \in BOOLEAN
         /\ Len(tx) \in 0 .. FifoDepth /\ Len(rx) \in 0 .. FifoDepth
         /\ tx = <<>> <=> Len(tx) = 0
         /\ rx = <<>> <=> Len(rx) = 0
         /\ remaining \in Int /\ sector \in Nat /\ word \in 0 .. Words - 1
         /\ active \in {0, 1}
<1>1. /\ Words \in Nat /\ FifoDepth \in Nat /\ FifoDepth > 0 /\ FifoDepth < Words
  BY SizesAssumption
<1>2. /\ dmaB \in DmaBSet /\ dmaC \in DmaCSet /\ fetch \in FetchSet /\ flush \in FlushSet
      /\ tx \in Seq(WordSet) /\ Len(tx) <= FifoDepth
      /\ rx \in Seq(WordSet) /\ Len(rx) <= FifoDepth
      /\ remaining \in Int /\ active \in {0, 1}
  BY DEF FirmwareTypes
<1>3. sector \in Nat /\ word \in Nat /\ word < Words
  BY DEF HostTypes
<1>4. /\ dmaB.left \in 0 .. Words /\ dmaC.left \in 0 .. Words
      /\ dmaB.irq \in BOOLEAN /\ dmaC.irq \in BOOLEAN
      /\ fetch.need \in BOOLEAN /\ flush.need \in BOOLEAN
  BY <1>2 DEF DmaBSet, DmaCSet, FetchSet, FlushSet
<1>5. Len(tx) \in 0 .. FifoDepth /\ Len(rx) \in 0 .. FifoDepth
  BY <1>1, <1>2
<1>6. (tx = <<>> <=> Len(tx) = 0) /\ (rx = <<>> <=> Len(rx) = 0)
  BY <1>2
<1>7. word \in 0 .. Words - 1
  BY <1>1, <1>3
<1>. QED  BY <1>1, <1>2, <1>3, <1>4, <1>5, <1>6, <1>7
-----------------------------------------------------------------------------
(* The firmware during a read.                                             *)

LEMMA SectorsType ==
  ASSUME HostTypes, Served
  PROVE  /\ Sectors \in Nat /\ Sectors >= 1
         /\ call.op = "identify" => Sectors = 1
BY DEF HostTypes, Served, Sectors

LEMMA ReadFirmware ==
  ASSUME FirmwareTypes, HostTypes, Served, call.op # "write", ReadPhase,
         FirmwareStep, UNCHANGED hostVars
  PROVE  ReadPhase'
<1>1. /\ pc' = pc /\ call' = call /\ sector' = sector /\ word' = word /\ setting' = setting
      /\ Sectors' = Sectors
  BY DEF hostVars, Sectors
<1>2. Sectors \in Nat /\ (call.op = "identify" => Sectors = 1) /\ call.op \in {"read", "identify"}
  BY SectorsType DEF Served, HostTypes, Ops
<1>3. /\ Words \in Nat /\ FifoDepth \in Nat /\ FifoDepth > 0 /\ FifoDepth < Words
      /\ dmaB.left \in 0 .. Words /\ dmaB.irq \in BOOLEAN
      /\ Len(tx) \in 0 .. FifoDepth
      /\ remaining \in Int /\ sector \in Nat /\ word \in 0 .. Words - 1
      /\ tx = <<>> <=> Len(tx) = 0
  BY Numbers
<1>4. core1.at \in {"idle", "fetch_args", "sd_read", "fetch_test", "fetch_drq", "fail_status",
                    "end_dir"}
  BY DEF ReadPhase, Fetching, Sending, ReadOver
<1>5. ~flush.need /\ dmaC.left = 0 /\ ~dmaC.irq
  BY DEF ReadPhase
<1>6. /\ status = StBusy => Fetching
      /\ status = StDrq => Sending
      /\ status \in Over => ReadOver
  BY StatusValues DEF ReadPhase, Fetching, Sending, ReadOver, Over
<1>7. ReadCount /\ remaining \in 0 .. Sectors
  BY DEF ReadPhase
<1>. USE DEF ReadCount, Done, Pushed
<1>8. ASSUME UNCHANGED <<dmaB, tx, remaining>>
      PROVE  ReadCount' /\ Done' = Done /\ Pushed' = Pushed
  BY <1>1, <1>7, <1>8
<1>9. CASE FetchTake
  <2>1. /\ fetch.need /\ core1.at = "idle" /\ ~fetch'.need /\ fetch'.buf = fetch.buf
        /\ core1'.at = "fetch_args"
        /\ UNCHANGED <<dir, remaining, active, flush, status, dmaB, dmaC, tx>>
    BY <1>9, NeedEffect, AtEffect DEF FetchTake
  <2>2. Fetching
    BY <2>1, <1>6 DEF ReadPhase, Sending, ReadOver
  <2>3. Fetching'
    BY <1>1, <1>8, <2>1, <2>2 DEF Fetching
  <2>. QED  BY <1>1, <1>5, <1>7, <1>8, <2>1, <2>3 DEF ReadPhase
<1>10. CASE FetchArgs
  <2>1. /\ core1.at = "fetch_args" /\ core1'.at = "sd_read" /\ core1'.buf = fetch.buf
        /\ UNCHANGED <<dir, remaining, active, fetch, flush, status, dmaB, dmaC, tx>>
    BY <1>10 DEF FetchArgs
  <2>2. Fetching
    BY <2>1 DEF ReadPhase, Sending, ReadOver
  <2>3. Fetching'
    BY <1>1, <1>8, <2>1, <2>2 DEF Fetching
  <2>. QED  BY <1>1, <1>5, <1>7, <1>8, <2>1, <2>3 DEF ReadPhase
<1>11. CASE SdReadOk \/ SdReadFail
  <2>1. /\ core1.at = "sd_read" /\ core1'.at \in {"fetch_test", "fail_status"}
        /\ core1'.buf = core1.buf
        /\ UNCHANGED <<dir, remaining, active, fetch, flush, status, dmaB, dmaC, tx>>
    BY <1>11, AtEffect DEF SdReadOk, SdReadFail
  <2>2. Fetching
    BY <2>1 DEF ReadPhase, Sending, ReadOver
  <2>3. Fetching'
    BY <1>1, <1>8, <2>1, <2>2 DEF Fetching
  <2>. QED  BY <1>1, <1>5, <1>7, <1>8, <2>1, <2>3 DEF ReadPhase
<1>12. CASE FetchTest
  <2>1. core1.at = "fetch_test"
    BY <1>12 DEF FetchTest
  <2>2. Fetching
    BY <2>1 DEF ReadPhase, Sending, ReadOver
  <2>3. dir = "READ" /\ active = core1.buf /\ "BSY" \in status
    BY <2>1, <2>2, StatusValues DEF Fetching
  <2>4. /\ dmaB'.left = Words /\ dmaB'.buf = active /\ dmaB'.irq = dmaB.irq
        /\ core1'.at = "fetch_drq"
        /\ UNCHANGED <<dir, remaining, active, fetch, flush, status, dmaC, tx>>
    BY <1>12, <2>3, ArmEffect, AtEffect DEF FetchTest
  <2>5. dmaB.left = 0 /\ ~dmaB.irq
    BY <2>1, <2>2 DEF Fetching
  <2>6. Pushed' = Pushed /\ Done' = Done
    BY <1>1, <1>3, <2>4, <2>5
  <2>7. ReadCount'
    BY <1>1, <1>7, <2>4, <2>6
  <2>8. Fetching'
    BY <1>1, <1>3, <2>1, <2>2, <2>4, <2>5, <2>6 DEF Fetching
  <2>. QED  BY <1>1, <1>5, <1>7, <2>4, <2>7, <2>8 DEF ReadPhase
<1>13. CASE SetDrq
  <2>1. /\ core1.at = "fetch_drq" /\ core1'.at = "idle" /\ status' = Drq(status)
        /\ UNCHANGED <<dir, remaining, active, fetch, flush, dmaB, dmaC, tx>>
    BY <1>4, <1>13, AtEffect DEF SetDrq
  <2>2. Fetching
    BY <2>1 DEF ReadPhase, Sending, ReadOver
  <2>3. status' = StDrq
    BY <2>1, <2>2, StatusHelpers DEF Fetching
  <2>4. Sending'
    BY <1>1, <1>2, <1>3, <1>8, <2>1, <2>2, <2>3 DEF Fetching, Sending
  <2>. QED  BY <1>1, <1>5, <1>7, <1>8, <2>1, <2>4 DEF ReadPhase
<1>14. CASE EndStatus
  <2>1. /\ core1.at = "fail_status" /\ core1'.at = "end_dir" /\ status' = Failed
        /\ UNCHANGED <<dir, remaining, active, fetch, flush, dmaB, dmaC, tx>>
    BY <1>4, <1>14, AtEffect DEF EndStatus
  <2>2. Fetching
    BY <2>1 DEF ReadPhase, Sending, ReadOver
  <2>3. ReadOver'
    BY <1>1, <1>3, <1>8, <2>1, <2>2, StatusValues DEF Fetching, ReadOver, Over
  <2>. QED  BY <1>1, <1>5, <1>7, <1>8, <2>1, <2>3 DEF ReadPhase
<1>15. CASE EndDir
  <2>1. /\ core1.at = "end_dir" /\ core1'.at = "idle"
        /\ UNCHANGED <<remaining, active, fetch, flush, status, dmaB, dmaC, tx>>
    BY <1>15, AtEffect DEF EndDir
  <2>2. ReadOver
    BY <2>1 DEF ReadPhase, Sending, Fetching
  <2>3. ReadOver'
    BY <1>1, <1>8, <2>1, <2>2 DEF ReadOver
  <2>. QED  BY <1>1, <1>5, <1>7, <1>8, <2>1, <2>3 DEF ReadPhase
<1>16. CASE FlushTake \/ FlushArgs \/ SdWriteOk \/ SdWriteFail \/ FlushCount \/ FlushArm
  BY <1>4, <1>5, <1>16 DEF FlushTake, FlushArgs, SdWriteOk, SdWriteFail, FlushCount, FlushArm
<1>17. CASE DmaBMove
  <2>1. /\ dmaB.left > 0 /\ dmaB'.left = dmaB.left - 1 /\ dmaB'.buf = dmaB.buf
        /\ dmaB'.irq <=> (dmaB.irq \/ dmaB.left = 1)
        /\ Len(tx) < FifoDepth /\ Len(tx') = Len(tx) + 1
        /\ UNCHANGED <<dir, remaining, active, fetch, flush, status, dmaC, core1>>
    BY <1>17, MoveEffect DEF DmaBMove
  <2>2. Pushed' = Pushed + 1 /\ Done' = Done
    BY <1>1, <1>3, <2>1
  <2>3. Pushed \in 0 .. Words - 1 /\ Done \in Int
    BY <1>2, <1>3, <2>1
  <2>4. ReadCount'
    <3>. HIDE DEF Pushed, Done
    <3>. QED  BY <1>1, <1>3, <1>7, <2>1, <2>2, <2>3
  <2>5. CASE Fetching
    <3>1. dmaB'.left > 0
      BY <1>3, <1>7, <2>1, <2>5 DEF Fetching
    <3>2. ~dmaB'.irq
      BY <1>3, <2>1, <2>5, <3>1 DEF Fetching
    <3>3. Fetching'
      BY <1>1, <2>1, <2>2, <2>5, <3>1, <3>2 DEF Fetching
    <3>. QED  BY <1>1, <1>5, <1>7, <2>1, <2>4, <3>3 DEF ReadPhase
  <2>6. CASE Sending
    <3>1. Sending'
      BY <1>1, <1>3, <2>1, <2>2, <2>6 DEF Sending
    <3>. QED  BY <1>1, <1>5, <1>7, <2>1, <2>4, <3>1 DEF ReadPhase
  <2>7. ~ReadOver
    BY <2>1 DEF ReadOver
  <2>. QED  BY <2>5, <2>6, <2>7 DEF ReadPhase
<1>18. CASE DmaBIrq
  <2>1. /\ dmaB.irq /\ ~dmaB'.irq /\ dmaB'.left = dmaB.left /\ dmaB'.buf = dmaB.buf
        /\ remaining' = remaining - 1
        /\ UNCHANGED <<flush, dmaC, tx, core1>>
    BY <1>18, IrqEffect DEF DmaBIrq
  <2>2. Sending /\ dmaB.left = 0 /\ Pushed = Words
    BY <1>3, <2>1 DEF ReadPhase, Fetching, ReadOver, Sending
  <2>3. Pushed' = 0 /\ Done' = Done + 1
    BY <1>1, <1>2, <1>3, <2>1, <2>2
  <2>4. sector # Done - 1
    BY <1>2, <1>3, <1>7, <2>2
  <2>5. ReadCount'
    BY <1>1, <1>2, <1>3, <1>7, <2>1, <2>2, <2>3, <2>4
  <2>6. pc' = "transfer" => sector' = Done' - 1
    BY <1>1, <1>2, <1>3, <1>7, <2>2, <2>3, <2>4 DEF Sending
  <2>7. remaining' \in 0 .. Sectors
    BY <1>2, <1>7, <2>1, <2>2 DEF Sending
  <2>8. sector' = Done' => word' = 0
    BY <1>1, <1>2, <1>3, <1>7, <2>2, <2>3, <2>4
  <2>9. CASE remaining = 1
    <3>1. status' = Idle /\ fetch' = fetch
      BY <1>18, <2>9 DEF DmaBIrq
    <3>2. ReadOver'
      BY <2>1, <2>2, <2>6, <2>9, <3>1, StatusValues DEF ReadOver, Over, Sending
    <3>. QED  BY <1>1, <1>5, <2>1, <2>5, <2>7, <3>2 DEF ReadPhase
  <2>10. CASE remaining # 1
    <3>1. /\ status' = Busy(status) /\ fetch'.need /\ fetch'.buf = active' /\ dir' = dir
      BY <1>18, <2>10 DEF DmaBIrq
    <3>2. status' = StBusy
      BY <2>2, <3>1, StatusHelpers DEF Sending
    <3>3. call.op = "read" /\ remaining' >= 1
      BY <1>2, <1>7, <2>1, <2>2, <2>10 DEF Sending
    <3>4. Fetching'
      BY <1>1, <2>1, <2>2, <2>6, <2>8, <3>1, <3>2, <3>3 DEF Fetching, Sending
    <3>. QED  BY <1>1, <1>5, <2>1, <2>5, <2>7, <3>4 DEF ReadPhase
  <2>. QED  BY <2>9, <2>10
<1>19. CASE DmaCMove
  BY <1>5, <1>19 DEF DmaCMove
<1>20. CASE DmaCIrq
  BY <1>5, <1>20 DEF DmaCIrq
<1>. QED
  BY <1>9, <1>10, <1>11, <1>12, <1>13, <1>14, <1>15, <1>16, <1>17, <1>18, <1>19, <1>20
     DEF FirmwareStep, Core1, Dma, Irq
-----------------------------------------------------------------------------
(* The firmware during a write, and at rest.                               *)

LEMMA WriteFirmware ==
  ASSUME FirmwareTypes, HostTypes, call.op = "write", WritePhase,
         FirmwareStep, UNCHANGED hostVars
  PROVE  WritePhase'
<1>1. /\ pc' = pc /\ call' = call /\ sector' = sector /\ word' = word /\ setting' = setting
      /\ Sectors' = Sectors
  BY DEF hostVars, Sectors
<1>2. Sectors \in Nat
  BY SectorsType DEF Served
<1>3. /\ Words \in Nat /\ FifoDepth \in Nat /\ FifoDepth > 0 /\ FifoDepth < Words
      /\ dmaC.left \in 0 .. Words /\ dmaC.irq \in BOOLEAN
      /\ Len(rx) \in 0 .. FifoDepth
      /\ remaining \in Int /\ sector \in Nat /\ word \in 0 .. Words - 1
      /\ rx = <<>> <=> Len(rx) = 0
  BY Numbers
<1>4. core1.at \in {"idle", "flush_args", "sd_write", "flush_count", "flush_arm", "flush_drq",
                    "idle_status", "fail_status", "end_dir"}
  BY DEF WritePhase, Taking, Flushing, WriteOver
<1>5. /\ ~fetch.need /\ dmaB.left = 0 /\ ~dmaB.irq /\ tx = <<>>
      /\ remaining \in 0 .. Sectors
  BY DEF WritePhase
<1>6. ASSUME UNCHANGED <<fetch, dmaB, tx>>, remaining' \in 0 .. Sectors,
             Taking' \/ Flushing' \/ WriteOver'
      PROVE  WritePhase'
  BY <1>1, <1>5, <1>6 DEF WritePhase
<1>. USE DEF Done
<1>7. CASE FlushTake
  <2>1. /\ flush.need /\ core1.at = "idle" /\ ~flush'.need
        /\ core1'.at = "flush_args"
        /\ UNCHANGED <<dir, remaining, fetch, status, dmaB, dmaC, tx, rx>>
    BY <1>7, NeedEffect, AtEffect DEF FlushTake
  <2>2. Flushing
    BY <2>1 DEF WritePhase, Taking, WriteOver
  <2>3. Flushing'
    BY <1>1, <2>1, <2>2 DEF Flushing
  <2>. QED  BY <1>5, <1>6, <2>1, <2>3
<1>8. CASE FlushArgs
  <2>1. /\ core1.at = "flush_args" /\ core1'.at = "sd_write" /\ core1'.buf = 0
        /\ UNCHANGED <<dir, remaining, fetch, flush, status, dmaB, dmaC, tx, rx>>
    BY <1>8 DEF FlushArgs
  <2>2. Flushing
    BY <2>1 DEF WritePhase, Taking, WriteOver
  <2>3. Flushing'
    BY <1>1, <2>1, <2>2 DEF Flushing
  <2>. QED  BY <1>5, <1>6, <2>1, <2>3
<1>9. CASE SdWriteOk \/ SdWriteFail
  <2>1. /\ core1.at = "sd_write" /\ core1'.at \in {"flush_count", "fail_status"}
        /\ core1'.buf = core1.buf
        /\ UNCHANGED <<dir, remaining, fetch, flush, status, dmaB, dmaC, tx, rx>>
    BY <1>9, AtEffect DEF SdWriteOk, SdWriteFail
  <2>2. Flushing
    BY <2>1 DEF WritePhase, Taking, WriteOver
  <2>3. Flushing'
    BY <1>1, <2>1, <2>2 DEF Flushing
  <2>. QED  BY <1>5, <1>6, <2>1, <2>3
<1>10. CASE FlushCount
  <2>1. /\ core1.at = "flush_count" /\ remaining' = remaining - 1
        /\ core1'.at = IF remaining = 1 THEN "idle_status" ELSE "flush_arm"
        /\ UNCHANGED <<dir, fetch, flush, status, dmaB, dmaC, tx, rx>>
    BY <1>10, AtEffect DEF FlushCount
  <2>2. Flushing
    BY <2>1 DEF WritePhase, Taking, WriteOver
  <2>3. Flushing' /\ remaining' \in 0 .. Sectors
    BY <1>1, <1>2, <1>3, <1>5, <2>1, <2>2 DEF Flushing
  <2>. QED  BY <1>6, <2>1, <2>3
<1>11. CASE FlushArm
  <2>1. /\ core1.at = "flush_arm" /\ core1'.at = "flush_drq"
        /\ dmaC'.left = Words /\ dmaC'.irq = dmaC.irq
        /\ UNCHANGED <<dir, remaining, fetch, flush, status, dmaB, tx, rx>>
    BY <1>11, AtEffect, ArmEffect DEF FlushArm
  <2>2. Flushing
    BY <2>1 DEF WritePhase, Taking, WriteOver
  <2>3. Flushing'
    BY <1>1, <2>1, <2>2 DEF Flushing
  <2>. QED  BY <1>5, <1>6, <2>1, <2>3
<1>12. CASE SetDrq
  <2>1. /\ core1.at = "flush_drq" /\ core1'.at = "idle" /\ status' = Drq(status)
        /\ UNCHANGED <<dir, remaining, fetch, flush, dmaB, dmaC, tx, rx>>
    BY <1>4, <1>12, AtEffect DEF SetDrq
  <2>2. Flushing
    BY <2>1 DEF WritePhase, Taking, WriteOver
  <2>3. status' = StDrq
    BY <2>1, <2>2, StatusHelpers DEF Flushing
  <2>4. Taking'
    BY <1>1, <1>2, <1>3, <2>1, <2>2, <2>3, StatusValues DEF Flushing, Taking
  <2>. QED  BY <1>5, <1>6, <2>1, <2>4
<1>13. CASE EndStatus
  <2>1. /\ core1.at \in {"idle_status", "fail_status"} /\ core1'.at = "end_dir"
        /\ status' = IF core1.at = "idle_status" THEN Idle ELSE Failed
        /\ UNCHANGED <<dir, remaining, fetch, flush, dmaB, dmaC, tx, rx>>
    BY <1>13, AtEffect DEF EndStatus
  <2>2. Flushing
    BY <2>1 DEF WritePhase, Taking, WriteOver
  <2>3. WriteOver'
    BY <1>1, <2>1, <2>2, StatusValues DEF Flushing, WriteOver, Over
  <2>. QED  BY <1>5, <1>6, <2>1, <2>3
<1>14. CASE EndDir
  <2>1. /\ core1.at = "end_dir" /\ core1'.at = "idle"
        /\ UNCHANGED <<remaining, fetch, flush, status, dmaB, dmaC, tx, rx>>
    BY <1>14, AtEffect DEF EndDir
  <2>2. WriteOver
    BY <2>1 DEF WritePhase, Taking, Flushing
  <2>3. WriteOver'
    BY <1>1, <2>1, <2>2 DEF WriteOver
  <2>. QED  BY <1>5, <1>6, <2>1, <2>3
<1>15. CASE FetchTake \/ FetchArgs \/ SdReadOk \/ SdReadFail \/ FetchTest
  BY <1>4, <1>5, <1>15 DEF FetchTake, FetchArgs, SdReadOk, SdReadFail, FetchTest
<1>16. CASE DmaBMove \/ DmaBIrq
  BY <1>5, <1>16 DEF DmaBMove, DmaBIrq
<1>17. CASE DmaCMove
  <2>1. /\ dmaC.left > 0 /\ dmaC'.left = dmaC.left - 1
        /\ dmaC'.irq <=> (dmaC.irq \/ dmaC.left = 1)
        /\ Len(rx) > 0 /\ Len(rx') = Len(rx) - 1
        /\ UNCHANGED <<dir, remaining, fetch, flush, status, dmaB, tx, core1>>
    BY <1>17, MoveEffect DEF DmaCMove
  <2>2. Taking
    BY <1>3, <2>1 DEF WritePhase, Flushing, WriteOver
  <2>3. Taking'
    BY <1>1, <1>2, <1>3, <2>1, <2>2 DEF Taking
  <2>. QED  BY <1>5, <1>6, <2>1, <2>3
<1>18. CASE DmaCIrq
  <2>1. /\ dmaC.irq /\ ~dmaC'.irq /\ dmaC'.left = dmaC.left /\ flush'.need
        /\ status' = Busy(status)
        /\ UNCHANGED <<dir, remaining, fetch, dmaB, tx, rx, core1>>
    BY <1>18, IrqEffect DEF DmaCIrq
  <2>2. Taking
    BY <2>1 DEF WritePhase, Flushing, WriteOver
  <2>3. status' = StBusy /\ dmaC.left = 0
    BY <2>1, <2>2, StatusHelpers DEF Taking
  <2>4. Len(rx) = 0 /\ word = 0 /\ sector = Done + 1 /\ pc # "transfer"
    BY <1>2, <1>3, <2>2, <2>3 DEF Taking
  <2>5. Flushing'
    BY <1>1, <1>2, <1>3, <2>1, <2>2, <2>3, <2>4 DEF Flushing, Taking
  <2>. QED  BY <1>5, <1>6, <2>1, <2>5
<1>. QED
  BY <1>7, <1>8, <1>9, <1>10, <1>11, <1>12, <1>13, <1>14, <1>15, <1>16, <1>17, <1>18
     DEF FirmwareStep, Core1, Dma, Irq

\* At rest only the end of a last sector can still come.
LEMMA RestFirmware ==
  ASSUME FirmwareTypes, Rest, FirmwareStep
  PROVE  Rest' /\ (status \in Over => status' \in Over)
<1>1. /\ core1.at = "idle" /\ ~fetch.need /\ ~flush.need /\ ~dmaC.irq
      /\ status # StBusy /\ (dmaB.irq => remaining = 1)
      /\ dmaB.left = 0 \/ Len(tx) = FifoDepth
      /\ dmaC.left = 0 \/ rx = <<>>
  BY DEF Rest, DmaSettled
<1>2. FifoDepth \in Nat /\ dmaB.left \in Int /\ dmaC.left \in Int
  BY SizesAssumption DEF FirmwareTypes, DmaBSet, DmaCSet
<1>3. ~Core1
  BY <1>1 DEF Core1, FetchTake, FetchArgs, SdReadOk, SdReadFail, FetchTest, SetDrq, FlushTake,
              FlushArgs, SdWriteOk, SdWriteFail, FlushCount, FlushArm, EndStatus, EndDir
<1>4. ~Dma /\ ~DmaCIrq
  BY <1>1, <1>2 DEF Dma, DmaBMove, DmaCMove, DmaCIrq
<1>5. DmaBIrq
  BY <1>3, <1>4 DEF FirmwareStep, Irq
<1>6. remaining = 1
  BY <1>1, <1>5 DEF DmaBIrq
<1>7. /\ status' = Idle /\ ~dmaB'.irq /\ dmaB'.left = dmaB.left
      /\ UNCHANGED <<core1, fetch, flush, dmaC, tx, rx>>
  BY <1>5, <1>6, IrqEffect DEF DmaBIrq
<1>. QED  BY <1>1, <1>7, StatusValues DEF Rest, DmaSettled, Over
-----------------------------------------------------------------------------
(* The arithmetic of the registers and of the words.                       *)

\* Quotient and remainder.
LEMMA DivParts ==
  ASSUME NEW a \in Nat, NEW m \in Nat, m > 0
  PROVE  /\ a = m * (a \div m) + (a % m)
         /\ a \div m \in Nat /\ (a % m) \in 0 .. m - 1
<1>1. a = m * (a \div m) + (a % m) /\ a \div m \in Int /\ (a % m) \in 0 .. m - 1
  OBVIOUS
<1>2. a \div m >= 0
  OBVIOUS
<1>. QED  BY <1>1, <1>2

\* They are the only ones.
LEMMA DivUnique ==
  ASSUME NEW m \in Nat, m > 0, NEW q \in Nat, NEW r \in 0 .. m - 1, NEW a \in Nat,
         a = m * q + r
  PROVE  a \div m = q /\ a % m = r
<1>. DEFINE p == a \div m
            t == a % m
<1>1. a = m * p + t /\ p \in Nat /\ t \in 0 .. m - 1
  BY DivParts
<1>. HIDE DEF p, t
<1>2. m * (p - q) = r - t
  <2>1. m * p - m * q = r - t
    BY <1>1
  <2>2. m * (p - q) = m * p - m * q
    BY <1>1
  <2>. QED  BY <2>1, <2>2
<1>3. ~(p - q >= 1)
  <2>1. SUFFICES ASSUME p - q >= 1 PROVE FALSE
    OBVIOUS
  <2>2. m * (p - q) >= m
    BY <1>1, <2>1
  <2>. QED  BY <1>1, <1>2, <2>2
<1>4. ~(p - q <= -1)
  <2>1. SUFFICES ASSUME p - q <= -1 PROVE FALSE
    OBVIOUS
  <2>2. m * (p - q) <= -m
    BY <1>1, <2>1
  <2>. QED  BY <1>1, <1>2, <2>2
<1>5. p = q
  BY <1>1, <1>3, <1>4
<1>6. t = r
  BY <1>1, <1>2, <1>5
<1>. QED  BY <1>5, <1>6 DEF p, t

\* Division by a product is division by the one and then by the other.
LEMMA DivDiv ==
  ASSUME NEW a \in Nat, NEW m \in Nat, m > 0, NEW n \in Nat, n > 0
  PROVE  a \div (m * n) = (a \div m) \div n
<1>. DEFINE q1 == a \div m
            r1 == a % m
            q2 == q1 \div n
            r2 == q1 % n
<1>1. a = m * q1 + r1 /\ q1 \in Nat /\ r1 \in 0 .. m - 1
  BY DivParts
<1>. HIDE DEF q1, r1
<1>2. q1 = n * q2 + r2 /\ q2 \in Nat /\ r2 \in 0 .. n - 1
  BY <1>1, DivParts
<1>. HIDE DEF q2, r2
<1>3. a = (m * n) * q2 + (m * r2 + r1)
  <2>1. m * (n * q2 + r2) = (m * n) * q2 + m * r2
    BY <1>2
  <2>. QED  BY <1>1, <1>2, <2>1
<1>4. m * r2 + r1 \in 0 .. m * n - 1
  <2>1. m * r2 >= 0 /\ m * r2 <= m * (n - 1)
    BY <1>2
  <2>2. m * (n - 1) = m * n - m
    OBVIOUS
  <2>. QED  BY <1>1, <1>2, <2>1, <2>2
<1>5. m * n \in Nat /\ m * n > 0
  OBVIOUS
<1>6. a \div (m * n) = q2
  BY <1>2, <1>3, <1>4, <1>5, DivUnique
<1>. QED  BY <1>6 DEF q1, q2

\* current_lba_from_regs reads back the LBA the driver wrote.
LEMMA LbaRoundTrip ==
  ASSUME NEW l \in 0 .. Capacity, NEW n,
         NEW r, r = [low |-> Split(l).low, mid |-> Split(l).mid, high |-> Split(l).high,
                     head |-> Split(l).head, count |-> n]
  PROVE  CurrentLba(r) = l
<1>. DEFINE R  == Radix
            q1 == l \div R
            q2 == q1 \div R
            q3 == q2 \div R
<1>1. R \in Nat /\ R > 0 /\ l \in Nat /\ l < ((R * R) * R) * R
  BY SizesAssumption
<1>2. l \div (R * R) = q2
  BY <1>1, DivDiv
<1>3. R * R \in Nat /\ R * R > 0 /\ (R * R) * R \in Nat /\ (R * R) * R > 0
  BY <1>1
<1>4. l \div ((R * R) * R) = q3
  BY <1>1, <1>2, <1>3, DivDiv
<1>5. l = R * q1 + (l % R) /\ q1 \in Nat /\ (l % R) \in Int
  BY <1>1, DivParts
<1>6. q1 = R * q2 + (q1 % R) /\ q2 \in Nat /\ (q1 % R) \in Int
  BY <1>1, <1>5, DivParts
<1>7. q2 = R * q3 + (q2 % R) /\ q3 \in Nat /\ (q2 % R) \in Int
  BY <1>1, <1>6, DivParts
<1>8. q3 % R = q3
  <2>1. l = ((R * R) * R) * q3 + (l % ((R * R) * R)) /\ (l % ((R * R) * R)) >= 0
        /\ (l % ((R * R) * R)) \in Int
    BY <1>1, <1>3, <1>4, DivParts
  <2>. DEFINE m == (R * R) * R
              t == l % m
  <2>2. l = m * q3 + t /\ t >= 0 /\ t \in Int /\ m \in Nat /\ m > 0 /\ l < m * R
    BY <1>1, <1>3, <2>1
  <2>. HIDE DEF m, t, q3
  <2>3. ~(q3 >= R)
    <3>1. SUFFICES ASSUME q3 >= R PROVE FALSE
      OBVIOUS
    <3>2. m * q3 >= m * R
      BY <1>1, <1>7, <2>2, <3>1
    <3>. QED  BY <1>1, <1>7, <2>2, <3>2
  <2>4. q3 = R * 0 + q3 /\ q3 \in 0 .. R - 1
    BY <1>1, <1>7, <2>3
  <2>. QED  BY <1>1, <1>7, <2>4, DivUnique
<1>9. /\ r.low = l % R /\ r.mid = q1 % R /\ r.high = q2 % R /\ r.head = q3
  <2>1. R * R * R = (R * R) * R
    OBVIOUS
  <2>. QED  BY <1>2, <1>4, <1>8, <2>1 DEF Split
<1>10. CurrentLba(r) = ((q3 * R + (q2 % R)) * R + (q1 % R)) * R + (l % R)
  BY <1>9 DEF CurrentLba
<1>. HIDE DEF q1, q2, q3
<1>11. q3 * R + (q2 % R) = q2
  BY <1>1, <1>7
<1>12. q2 * R + (q1 % R) = q1
  BY <1>1, <1>6
<1>13. q1 * R + (l % R) = l
  BY <1>1, <1>5
<1>. QED  BY <1>10, <1>11, <1>12, <1>13
-----------------------------------------------------------------------------
(* The driver looks at the status, or gives up.                            *)

\* In every phase the status is one of the four values.
LEMMA StatusType ==
  ASSUME DriveInv
  PROVE  /\ status \in {StBusy, StDrq, Idle, Failed}
         /\ ~Served => status \in Over
BY DEF DriveInv, Unserved, ReadPhase, Fetching, Sending, ReadOver, WritePhase, Taking, Flushing,
       WriteOver, Over, Served

\* A read of the status changes it only once DMA_C has the whole sector.
LEMMA ShownEffect ==
  ASSUME FirmwareTypes, HostTypes, DriveInv, StatusCycle
  PROVE  /\ UNCHANGED <<dir, lba, remaining, active, fetch, flush, buf, dmaB, dmaC, tx, rx,
                        core1, sd>>
         /\ status' = StatusShown
         /\ \/ StatusShown = status
               /\ ~(dir = "WRITE" /\ status = StDrq /\ dmaC.left = 0)
            \/ call.op = "write" /\ Taking /\ status = StDrq /\ dmaC.irq /\ StatusShown = StBusy
<1>1. /\ UNCHANGED <<dir, lba, remaining, active, fetch, flush, buf, dmaB, dmaC, tx, rx,
                     core1, sd>>
      /\ status' = StatusShown
  BY DEF StatusCycle
<1>2. status \in {StBusy, StDrq, Idle, Failed}
  BY StatusType
<1>3. CASE dir = "WRITE" /\ status = StDrq /\ dmaC.left = 0
  <2>1. StatusShown = StBusy
    BY <1>3, StatusValues, StatusHelpers DEF StatusShown
  <2>2. call.op = "write" /\ Taking
    BY <1>3, StatusValues
       DEF DriveInv, Unserved, ReadPhase, Fetching, Sending, ReadOver, WritePhase, Flushing,
           WriteOver, Over
  <2>3. dmaC.irq
    BY <1>3, <2>2 DEF Taking
  <2>. QED  BY <1>1, <1>3, <2>1, <2>2, <2>3
<1>4. CASE ~(dir = "WRITE" /\ status = StDrq /\ dmaC.left = 0)
  <2>1. "DRQ" \in status => status = StDrq
    BY <1>2, StatusValues
  <2>2. StatusShown = status
    BY <1>4, <2>1 DEF StatusShown
  <2>. QED  BY <1>1, <1>4, <2>2
<1>. QED  BY <1>3, <1>4

\* Where the driver waits makes no difference to the drive.
LEMMA WaitDrive ==
  ASSUME FirmwareTypes, HostTypes, DriveInv,
         UNCHANGED <<dir, remaining, active, fetch, flush, dmaB, dmaC, tx, rx, core1>>,
         UNCHANGED <<call, sector, word, setting>>,
         \/ status' = status
         \/ call.op = "write" /\ Taking /\ status = StDrq /\ dmaC.irq /\ status' = StBusy,
         pc' = "transfer" => pc = "transfer",
         pc' = "wait_end" => pc = "wait_end"
  PROVE  DriveInv'
<1>1. /\ Sectors' = Sectors /\ Done' = Done /\ Pushed' = Pushed /\ (Served' <=> Served)
      /\ (DmaSettled' <=> DmaSettled) /\ call'.op = call.op
  BY DEF Sectors, Done, Pushed, Served, DmaSettled
<1>2. CASE status' = status
  <2>1. ASSUME ~Served
        PROVE  Unserved'
    BY <1>1, <1>2, <2>1 DEF DriveInv, Unserved, Rest
  <2>2. ASSUME Served, call.op # "write"
        PROVE  ReadPhase'
    <3>1. ReadPhase
      BY <2>2 DEF DriveInv
    <3>2. ReadCount'
      BY <1>1, <3>1 DEF ReadPhase, ReadCount
    <3>3. Fetching => Fetching'
      BY <1>1, <1>2 DEF Fetching
    <3>4. Sending => Sending'
      BY <1>1, <1>2 DEF Sending
    <3>5. ReadOver => ReadOver'
      BY <1>1, <1>2 DEF ReadOver
    <3>. QED  BY <1>1, <3>1, <3>2, <3>3, <3>4, <3>5 DEF ReadPhase
  <2>3. ASSUME call.op = "write"
        PROVE  WritePhase'
    <3>1. WritePhase
      BY <2>3 DEF DriveInv
    <3>2. Taking => Taking'
      BY <1>1, <1>2 DEF Taking
    <3>3. Flushing => Flushing'
      BY <1>1, <1>2 DEF Flushing
    <3>4. WriteOver => WriteOver'
      BY <1>1, <1>2 DEF WriteOver
    <3>. QED  BY <1>1, <3>1, <3>2, <3>3, <3>4 DEF WritePhase
  <2>. QED  BY <1>1, <2>1, <2>2, <2>3 DEF DriveInv
<1>3. CASE call.op = "write" /\ Taking /\ status = StDrq /\ dmaC.irq /\ status' = StBusy
  <2>1. Taking'
    BY <1>1, <1>3 DEF Taking
  <2>2. WritePhase
    BY <1>3 DEF DriveInv
  <2>3. WritePhase' /\ Served'
    BY <1>1, <1>3, <2>1, <2>2 DEF WritePhase, Served
  <2>. QED  BY <1>1, <1>3, <2>3 DEF DriveInv
<1>. QED  BY <1>2, <1>3

\* A drive that does not show BSY to a driver that looks is at rest.
LEMMA NotBusyIsRest ==
  ASSUME ~Core1Stalls, FirmwareTypes, HostTypes, DriveInv, StatusCycle, "BSY" \notin StatusShown
  PROVE  Rest'
<1>1. /\ DmaSettled /\ core1.at # "end_dir"
      /\ setting.dmaIrqFirst => ~dmaB.irq /\ ~dmaC.irq
  BY DEF StatusCycle, RegisterIrqTaken
<1>2. /\ status' = status /\ StatusShown = status
      /\ ~(dir = "WRITE" /\ status = StDrq /\ dmaC.left = 0)
      /\ UNCHANGED <<remaining, fetch, flush, dmaB, dmaC, tx, rx, core1>>
  BY ShownEffect, StatusValues
<1>3. status # StBusy
  BY <1>2, StatusValues
<1>4. DmaSettled'
  BY <1>1, <1>2 DEF DmaSettled
<1>5. CASE ~Served
  BY <1>2, <1>4, <1>5 DEF DriveInv, Unserved, Rest
<1>6. CASE Served /\ call.op # "write"
  <2>1. ReadPhase
    BY <1>6 DEF DriveInv
  <2>2. Sending \/ ReadOver
    BY <1>3, <2>1 DEF ReadPhase, Fetching
  <2>3. dmaB.irq => remaining = 1
    <3>1. SUFFICES ASSUME dmaB.irq
                   PROVE  remaining = 1
      OBVIOUS
    <3>2. Sending /\ ~setting.dmaIrqFirst
      BY <1>1, <2>2, <3>1 DEF ReadOver
    <3>3. call.op = "identify"
      BY <1>6, <3>2 DEF HostTypes, Orderly, Served
    <3>. QED  BY <2>1, <3>2, <3>3 DEF ReadPhase, Sending, Sectors, FirmwareTypes
  <2>4. core1.at = "idle" /\ ~fetch.need /\ ~flush.need /\ ~dmaC.irq
    BY <1>1, <2>1, <2>2 DEF ReadPhase, Sending, ReadOver
  <2>. QED  BY <1>2, <1>3, <1>4, <2>3, <2>4 DEF Rest
<1>7. CASE call.op = "write"
  <2>1. WritePhase
    BY <1>7 DEF DriveInv
  <2>2. Taking \/ WriteOver
    BY <1>3, <2>1 DEF WritePhase, Flushing
  <2>3. core1.at = "idle" /\ ~fetch.need /\ ~flush.need /\ ~dmaC.irq /\ ~dmaB.irq
    BY <1>1, <1>2, <1>3, <2>1, <2>2 DEF WritePhase, Taking, WriteOver
  <2>. QED  BY <1>2, <1>3, <1>4, <2>3 DEF Rest
<1>. QED  BY <1>5, <1>6, <1>7 DEF Served

\* A rest survives a look at the status, and a driver that does nothing.
LEMMA RestStays ==
  ASSUME FirmwareTypes, HostTypes, DriveInv, Rest,
         UNCHANGED <<remaining, fetch, flush, dmaB, dmaC, tx, rx, core1>>,
         \/ status' = status
         \/ call.op = "write" /\ Taking /\ status = StDrq /\ dmaC.irq /\ status' = StBusy
  PROVE  Rest'
BY DEF Rest, DmaSettled

\* The steps of the driver that read the status, begin a call or leave one,
\* except the one that finds DRQ.
LEMMA WaitStep ==
  ASSUME ~Core1Stalls, WorkInv,
         \/ AtaInit \/ SelectDrive \/ WaitIdle \/ WaitBsy \/ WaitEnd \/ BeginCall \/ TimeOut
         \/ Reset
         \/ WaitDrq /\ pc' # "transfer"
  PROVE  WorkInv'
<1>. USE DEF WorkInv
<1>1. UNCHANGED <<call, sector, got, word, setting>>
  BY DEF AtaInit, SelectDrive, WaitIdle, WaitBsy, WaitEnd, BeginCall, TimeOut, Reset, WaitDrq
<1>2. StatusCycle \/ UNCHANGED fwVars
  BY DEF AtaInit, SelectDrive, WaitIdle, WaitBsy, WaitEnd, BeginCall, TimeOut, Reset, WaitDrq
<1>3. /\ UNCHANGED <<dir, lba, remaining, active, fetch, flush, buf, dmaB, dmaC, tx, rx, core1, sd>>
      /\ \/ status' = status
         \/ call.op = "write" /\ Taking /\ status = StDrq /\ dmaC.irq /\ status' = StBusy
  <2>1. CASE StatusCycle
    BY <2>1, ShownEffect
  <2>2. CASE UNCHANGED fwVars
    BY <2>2 DEF fwVars
  <2>. QED  BY <1>2, <2>1, <2>2
<1>4. FirmwareTypes'
  BY <1>3 DEF FirmwareTypes
<1>5. pc' \in PcSet /\ (pc' = "wait_end" => pc = "wait_end") /\ pc' # "transfer"
  BY DEF AtaInit, SelectDrive, WaitIdle, WaitBsy, WaitEnd, BeginCall, TimeOut, Reset, WaitDrq,
         Return, PcSet, Waits
<1>6. pc' \in {"select", "identify"} => "identify" \in setting.calls
  BY DEF AtaInit, SelectDrive, WaitIdle, WaitBsy, WaitEnd, BeginCall, TimeOut, Reset, WaitDrq,
         Return, HostTypes
<1>7. HostTypes'
  BY <1>1, <1>5, <1>6 DEF HostTypes
<1>8. DriveInv'
  BY <1>1, <1>3, <1>5, WaitDrive
<1>9. Rest => Rest'
  BY <1>3, RestStays
<1>10. StatusCycle /\ "BSY" \notin StatusShown => Rest'
  BY NotBusyIsRest
<1>11. pc' \in {"command", "select", "identify"} => Rest'
  <2>1. CASE AtaInit \/ WaitBsy \/ WaitEnd \/ TimeOut \/ Reset \/ WaitDrq
    BY <2>1 DEF AtaInit, WaitBsy, WaitEnd, TimeOut, Reset, WaitDrq, Return
  <2>2. CASE SelectDrive
    BY <1>9, <2>2 DEF SelectDrive, HostInv
  <2>3. CASE WaitIdle
    BY <1>10, <2>3 DEF WaitIdle
  <2>4. CASE BeginCall
    <3>1. SUFFICES ASSUME pc' = "select"
                   PROVE  Rest'
      BY <2>4 DEF BeginCall
    <3>2. pc = "idle" /\ ~setting.timeOuts
      BY <2>4, <3>1 DEF BeginCall, HostTypes, Orderly
    <3>. QED  BY <1>9, <3>2 DEF HostInv
  <2>. QED  BY <2>1, <2>2, <2>3, <2>4
<1>12. ~setting.timeOuts /\ pc' \in {"idle", "wait_idle"} => Rest'
  <2>1. CASE AtaInit
    BY <1>10, <2>1 DEF AtaInit
  <2>2. CASE SelectDrive \/ WaitBsy \/ TimeOut \/ Reset
    BY <2>2 DEF SelectDrive, WaitBsy, TimeOut, Reset
  <2>3. CASE WaitIdle
    BY <1>9, <2>3 DEF WaitIdle, HostInv
  <2>4. CASE WaitEnd
    BY <1>10, <2>4 DEF WaitEnd, Return
  <2>5. CASE BeginCall
    BY <1>9, <2>5 DEF BeginCall, HostInv
  <2>6. CASE WaitDrq
    <3>1. "ERR" \in StatusShown => "BSY" \notin StatusShown
      <4>1. StatusCycle
        BY <2>6 DEF WaitDrq
      <4>. QED  BY <4>1, ShownEffect, StatusType, StatusValues
    <3>. QED  BY <1>10, <2>6, <3>1 DEF WaitDrq, Return
  <2>. QED  BY <2>1, <2>2, <2>3, <2>4, <2>5, <2>6
<1>13. /\ pc' \in {"wait_bsy", "wait_drq", "wait_end"} => word = 0
       /\ pc' \in {"wait_bsy", "wait_drq", "transfer"} =>
            call.op \in {"read", "write", "identify"} /\ sector < Sectors
       /\ pc' = "wait_end" => call.op = "write" /\ sector = Sectors
  <2>1. pc' \in {"wait_bsy", "wait_drq"} => pc \in {"wait_bsy", "wait_drq"}
    BY DEF AtaInit, SelectDrive, WaitIdle, WaitBsy, WaitEnd, BeginCall, TimeOut, Reset, WaitDrq,
           Return
  <2>. QED  BY <1>5, <2>1 DEF HostInv
<1>14. HostInv'
  BY <1>1, <1>11, <1>12, <1>13 DEF HostInv, Sectors
<1>. QED  BY <1>4, <1>7, <1>8, <1>14

\* The driver finds DRQ: the sector it is about to transfer is the one the
\* drive is at.
LEMMA DrqStep ==
  ASSUME WorkInv, WaitDrq, pc' = "transfer"
  PROVE  WorkInv'
<1>. USE DEF WorkInv
<1>1. /\ StatusCycle /\ "DRQ" \in StatusShown /\ pc = "wait_drq"
      /\ UNCHANGED <<call, sector, got, word, setting>>
  BY DEF WaitDrq, Return
<1>2. /\ DmaSettled
      /\ setting.dmaIrqFirst => ~dmaB.irq /\ ~dmaC.irq
  BY <1>1 DEF StatusCycle, RegisterIrqTaken
<1>3. /\ status = StDrq /\ status' = status /\ ~(dir = "WRITE" /\ dmaC.left = 0)
      /\ UNCHANGED <<dir, lba, remaining, active, fetch, flush, buf, dmaB, dmaC, tx, rx, core1, sd>>
  BY <1>1, ShownEffect, StatusType, StatusValues
<1>4. FirmwareTypes'
  BY <1>3 DEF FirmwareTypes
<1>5. HostTypes'
  BY <1>1 DEF HostTypes, PcSet
<1>6. /\ Sectors' = Sectors /\ Done' = Done /\ Pushed' = Pushed /\ (Served' <=> Served)
      /\ call'.op = call.op
  BY <1>1, <1>3 DEF Sectors, Done, Pushed, Served
<1>7. word = 0 /\ sector < Sectors /\ call.op \in {"read", "write", "identify"}
  BY <1>1 DEF HostInv
<1>8. HostInv'
  BY <1>1, <1>6, <1>7 DEF HostInv
<1>9. Served
  BY <1>3, StatusType, StatusValues DEF Over
<1>10. CASE call.op # "write"
  <2>1. ReadPhase
    BY <1>9, <1>10 DEF DriveInv
  <2>2. Sending
    BY <1>3, <2>1, StatusValues DEF ReadPhase, Fetching, ReadOver, Over
  <2>3. /\ Words \in Nat /\ FifoDepth < Words /\ FifoDepth \in Nat
        /\ Len(tx) \in 0 .. FifoDepth /\ dmaB.left \in 0 .. Words /\ dmaB.irq \in BOOLEAN
        /\ sector \in Nat /\ remaining \in Int
    BY Numbers
  <2>4. Sectors \in Nat /\ (call.op = "identify" => Sectors = 1)
    BY <1>9, SectorsType
  <2>5. sector <= Done
    <3>1. SUFFICES ASSUME sector = Done + 1, Pushed = Words
                   PROVE  FALSE
      BY <2>1, <2>3, <2>4 DEF ReadPhase, ReadCount, Done
    <3>2. dmaB.irq
      BY <2>3, <3>1 DEF Pushed
    <3>3. call.op = "identify"
      BY <1>2, <1>7, <1>10, <3>2 DEF HostTypes, Orderly
    <3>. QED  BY <1>7, <2>1, <2>3, <2>4, <3>1, <3>3 DEF ReadPhase, Done
  <2>6. Sending'
    BY <1>1, <1>3, <1>6, <2>2, <2>5 DEF Sending
  <2>7. ReadPhase'
    BY <1>1, <1>3, <1>6, <2>1, <2>6 DEF ReadPhase, ReadCount
  <2>8. DriveInv'
    BY <1>6, <1>9, <1>10, <2>7 DEF DriveInv
  <2>. QED  BY <1>4, <1>5, <1>8, <2>8
<1>11. CASE call.op = "write"
  <2>1. WritePhase
    BY <1>11 DEF DriveInv
  <2>2. Taking
    BY <1>3, <2>1, StatusValues DEF WritePhase, Flushing, WriteOver, Over
  <2>3. dmaC.left \in 0 .. Words /\ Words \in Nat /\ (rx = <<>> <=> Len(rx) = 0)
    BY Numbers
  <2>4. rx = <<>> /\ dmaC.left # 0
    BY <1>2, <1>3, <2>2 DEF DmaSettled, Taking
  <2>5. sector = Done
    BY <2>2, <2>3, <2>4 DEF Taking
  <2>6. Taking'
    BY <1>1, <1>3, <1>6, <2>2, <2>5 DEF Taking
  <2>7. WritePhase'
    BY <1>3, <1>6, <2>1, <2>6 DEF WritePhase
  <2>8. DriveInv'
    BY <1>6, <1>9, <1>11, <2>7 DEF DriveInv
  <2>. QED  BY <1>4, <1>5, <1>8, <2>8
<1>. QED  BY <1>10, <1>11
-----------------------------------------------------------------------------
(* The driver gives a command, to a drive at rest.                         *)

\* What the driver leaves behind when it issues a command.
LEMMA IssueEffect ==
  ASSUME NEW op, NEW l \in 0 .. Capacity, NEW n, NEW d, Issue(op, l, n, d)
  PROVE  /\ call'.op = op /\ call'.lba = l /\ call'.count = n /\ call'.data = d
         /\ sector' = 0 /\ word' = 0 /\ got' = <<>> /\ setting' = setting
         /\ DispatchCommand(op) /\ UNCHANGED <<flush, core1, sd>>
         /\ CurrentLba(regs') = l /\ regs'.count = n
         /\ DmaSettled /\ (setting.dmaIrqFirst => ~dmaB.irq /\ ~dmaC.irq)
<1>1. CommandCycle(op, l, n)
  BY DEF Issue
<1>2. regs' = [low |-> Split(l).low, mid |-> Split(l).mid, high |-> Split(l).high,
               head |-> Split(l).head, count |-> n]
  BY <1>1 DEF CommandCycle
<1>3. CurrentLba(regs') = l
  BY <1>2, LbaRoundTrip
<1>4. regs'.count = n
  BY <1>2
<1>5. /\ DispatchCommand(op) /\ UNCHANGED <<flush, core1, sd>>
      /\ DmaSettled /\ (setting.dmaIrqFirst => ~dmaB.irq /\ ~dmaC.irq)
  BY <1>1 DEF CommandCycle, RegisterIrqTaken
<1>6. /\ call' = [op |-> op, lba |-> l, count |-> n, data |-> d]
      /\ sector' = 0 /\ word' = 0 /\ got' = <<>> /\ setting' = setting
  BY DEF Issue
<1>. QED  BY <1>3, <1>4, <1>5, <1>6

\* The types after any command.
LEMMA DispatchTypes ==
  ASSUME FirmwareTypes, NEW op, DispatchCommand(op), UNCHANGED <<flush, core1, sd>>,
         CurrentLba(regs') \in Nat, SectorCount(regs') \in Int
  PROVE  FirmwareTypes'
<1>0. /\ Words \in Nat /\ FifoDepth \in Nat /\ Words \in 0 .. Words /\ 0 \in 0 .. Words
  BY SizesAssumption
<1>1. dmaB \in DmaBSet /\ dmaC \in DmaCSet
  BY DEF FirmwareTypes
<1>2. [dmaB EXCEPT !.left = 0, !.irq = FALSE] \in DmaBSet
  BY <1>0, <1>1 DEF DmaBSet
<1>3. [dmaC EXCEPT !.left = 0, !.irq = FALSE] \in DmaCSet
  BY <1>0, <1>1 DEF DmaCSet
<1>4. [left |-> Words, irq |-> FALSE] \in DmaCSet
  BY <1>0 DEF DmaCSet
<1>5. [left |-> Words, buf |-> 0, irq |-> FALSE] \in DmaBSet
  BY <1>0 DEF DmaBSet
<1>6. [need |-> TRUE, buf |-> 0, lba |-> CurrentLba(regs')] \in FetchSet
  BY DEF FetchSet
<1>7. <<>> \in Seq(WordSet) /\ Len(<<>>) <= FifoDepth
  BY <1>0
<1>8. CASE op = "read"
  <2>1. BeginReadSequence
    BY <1>8 DEF DispatchCommand
  <2>. QED  BY <1>2, <1>3, <1>6, <1>7, <2>1
            DEF FirmwareTypes, BeginReadSequence, AbortB, AbortC, ClearFifos, Start
<1>9. CASE op = "write"
  <2>1. BeginWriteSequence
    BY <1>9 DEF DispatchCommand
  <2>. QED  BY <1>2, <1>4, <1>7, <2>1
            DEF FirmwareTypes, BeginWriteSequence, AbortB, ClearFifos, Start
<1>10. CASE op = "identify"
  <2>1. BeginIdentify
    BY <1>10 DEF DispatchCommand
  <2>2. CASE ~setting.sizeKnown
    BY <2>1, <2>2 DEF BeginIdentify, FirmwareTypes
  <2>3. CASE setting.sizeKnown
    <3>1. Identity \in [1 .. Words -> WordSet]
      BY SectorType DEF Identity
    <3>2. buf' \in [Buffers -> [1 .. Words -> WordSet]]
      BY <2>1, <2>3, <3>1 DEF BeginIdentify, FirmwareTypes
    <3>3. dmaB' \in DmaBSet /\ dmaC' \in DmaCSet /\ tx' = <<>> /\ rx' = <<>>
      BY <1>3, <1>5, <2>1, <2>3 DEF BeginIdentify, AbortC, ClearFifos
    <3>4. /\ dir' = "READ" /\ remaining' = 1 /\ active' = 0
          /\ UNCHANGED <<lba, fetch>>
      BY <2>1, <2>3 DEF BeginIdentify
    <3>. QED  BY <1>7, <3>2, <3>3, <3>4 DEF FirmwareTypes
  <2>. QED  BY <2>2, <2>3
<1>11. CASE op \in {"diagnostic", "nop"}
  <2>1. \E e : NoData(e)
    BY <1>11 DEF DispatchCommand
  <2>. QED  BY <1>2, <1>3, <1>7, <2>1 DEF FirmwareTypes, NoData, AbortB, AbortC, ClearFifos
<1>12. CASE op = "unknown"
  <2>1. Refuse
    BY <1>12 DEF DispatchCommand
  <2>. QED  BY <2>1 DEF FirmwareTypes, Refuse
<1>. QED  BY <1>8, <1>9, <1>10, <1>11, <1>12 DEF DispatchCommand

LEMMA ReadCommandStep ==
  ASSUME WorkInv, ReadCommand
  PROVE  WorkInv'
<1>. USE DEF WorkInv
<1>1. PICK l \in 0 .. Capacity, n \in 1 .. CountMax - 1 : Issue("read", l, n, <<>>)
  BY DEF ReadCommand
<1>2. /\ call'.op = "read" /\ call'.lba = l /\ call'.count = n
      /\ sector' = 0 /\ word' = 0 /\ got' = <<>> /\ setting' = setting
      /\ DispatchCommand("read") /\ UNCHANGED <<flush, core1, sd>>
      /\ CurrentLba(regs') = l /\ regs'.count = n
  BY <1>1, IssueEffect
<1>3. CountMax \in Nat /\ Capacity \in Nat /\ Words \in Nat /\ Words > 0 /\ n \in Nat /\ n >= 1
  BY SizesAssumption
<1>4. SectorCount(regs') = n /\ l \in Nat
  BY <1>2, <1>3 DEF SectorCount
<1>5. FirmwareTypes'
  BY <1>2, <1>3, <1>4, DispatchTypes
<1>6. pc' = "wait_bsy" /\ "read" \in setting.calls /\ Rest
  BY DEF ReadCommand, HostInv
<1>7. BeginReadSequence
  BY <1>2 DEF DispatchCommand
<1>8. /\ status' = StBusy /\ dir' = "READ" /\ remaining' = n /\ active' = 0
      /\ fetch'.need /\ fetch'.buf = 0
      /\ dmaB'.left = 0 /\ ~dmaB'.irq /\ dmaC'.left = 0 /\ ~dmaC'.irq /\ tx' = <<>>
      /\ core1' = core1 /\ flush' = flush
  BY <1>2, <1>4, <1>7, ArmEffect, CommandStatus
     DEF BeginReadSequence, Start, ClearFifos, StBusy
<1>9. HostTypes'
  BY <1>2, <1>3, <1>6 DEF HostTypes, PcSet, Waits, Ops
<1>10. Sectors' = n /\ Done' = 0 /\ Pushed' = 0 /\ Served'
  BY <1>2, <1>3, <1>8 DEF Sectors, Done, Pushed, Served
<1>11. HostInv'
  BY <1>2, <1>3, <1>6, <1>10 DEF HostInv
<1>12. core1.at = "idle" /\ ~flush.need
  BY <1>6 DEF Rest
<1>13. Fetching'
  BY <1>2, <1>3, <1>6, <1>8, <1>10, <1>12 DEF Fetching
<1>14. ReadCount'
  BY <1>2, <1>8, <1>10 DEF ReadCount
<1>15. ReadPhase'
  BY <1>3, <1>8, <1>10, <1>12, <1>13, <1>14 DEF ReadPhase
<1>16. DriveInv'
  BY <1>2, <1>10, <1>15 DEF DriveInv
<1>. QED  BY <1>5, <1>9, <1>11, <1>16

LEMMA WriteCommandStep ==
  ASSUME WorkInv, WriteCommand
  PROVE  WorkInv'
<1>. USE DEF WorkInv
<1>1. PICK l \in 0 .. Capacity, n \in 1 .. CountMax - 1 :
        \E d \in [1 .. n -> Data] : Issue("write", l, n, d)
  BY DEF WriteCommand
<1>2. PICK d \in [1 .. n -> Data] : Issue("write", l, n, d)
  BY <1>1
<1>3. /\ call'.op = "write" /\ call'.lba = l /\ call'.count = n /\ call'.data = d
      /\ sector' = 0 /\ word' = 0 /\ got' = <<>> /\ setting' = setting
      /\ DispatchCommand("write") /\ UNCHANGED <<flush, core1, sd>>
      /\ CurrentLba(regs') = l /\ regs'.count = n
  BY <1>2, IssueEffect
<1>4. CountMax \in Nat /\ Capacity \in Nat /\ Words \in Nat /\ Words > 0 /\ n \in Nat /\ n >= 1
  BY SizesAssumption
<1>5. SectorCount(regs') = n /\ l \in Nat
  BY <1>3, <1>4 DEF SectorCount
<1>6. FirmwareTypes'
  BY <1>3, <1>4, <1>5, DispatchTypes
<1>7. pc' = "wait_bsy" /\ "write" \in setting.calls /\ Rest
  BY DEF WriteCommand, HostInv
<1>8. BeginWriteSequence
  BY <1>3 DEF DispatchCommand
<1>9. /\ status' = StDrq /\ dir' = "WRITE" /\ remaining' = n
      /\ fetch' = fetch
      /\ dmaB'.left = 0 /\ ~dmaB'.irq /\ dmaC'.left = Words /\ ~dmaC'.irq
      /\ tx' = <<>> /\ rx' = <<>>
      /\ core1' = core1 /\ flush' = flush
  BY <1>3, <1>5, <1>8, ArmEffect DEF BeginWriteSequence, Start, ClearFifos, StDrq
<1>10. HostTypes'
  <2>1. call'.data \in [1 .. call'.count -> Data]
    BY <1>3
  <2>. QED  BY <1>3, <1>4, <1>7, <2>1 DEF HostTypes, PcSet, Waits, Ops
<1>11. Sectors' = n /\ Done' = 0 /\ Served'
  BY <1>3, <1>4, <1>9 DEF Sectors, Done, Served
<1>12. HostInv'
  BY <1>3, <1>4, <1>7, <1>11 DEF HostInv
<1>13. core1.at = "idle" /\ ~flush.need /\ ~fetch.need
  BY <1>7 DEF Rest
<1>14. Taking'
  BY <1>3, <1>4, <1>7, <1>9, <1>11, <1>13, StatusValues DEF Taking
<1>15. WritePhase'
  BY <1>4, <1>9, <1>11, <1>13, <1>14 DEF WritePhase
<1>16. DriveInv'
  BY <1>3, <1>11, <1>15 DEF DriveInv
<1>. QED  BY <1>6, <1>10, <1>12, <1>16

LEMMA IdentifyCommandStep ==
  ASSUME WorkInv, IdentifyCommand
  PROVE  WorkInv'
<1>. USE DEF WorkInv
<1>1. Capacity \in Nat /\ CountMax \in Nat /\ Words \in Nat /\ Words > 0 /\ 0 \in 0 .. Capacity
  BY SizesAssumption
<1>2. /\ call'.op = "identify" /\ call'.count = 0
      /\ sector' = 0 /\ word' = 0 /\ got' = <<>> /\ setting' = setting
      /\ DispatchCommand("identify") /\ UNCHANGED <<flush, core1, sd>>
      /\ CurrentLba(regs') = 0 /\ regs'.count = 0 /\ DmaSettled
  BY <1>1, IssueEffect DEF IdentifyCommand
<1>3. FirmwareTypes'
  <2>1. SectorCount(regs') = CountMax
    BY <1>2 DEF SectorCount
  <2>. QED  BY <1>1, <1>2, <2>1, DispatchTypes
<1>4. pc' = "wait_bsy" /\ "identify" \in setting.calls /\ Rest
  BY DEF IdentifyCommand, HostInv, HostTypes
<1>5. HostTypes'
  BY <1>1, <1>2, <1>4 DEF HostTypes, PcSet, Waits, Ops
<1>6. Sectors' = 1
  BY <1>2 DEF Sectors
<1>7. HostInv'
  BY <1>1, <1>2, <1>4, <1>6 DEF HostInv
<1>8. core1.at = "idle" /\ ~flush.need /\ ~fetch.need
  BY <1>4 DEF Rest
<1>9. BeginIdentify
  BY <1>2 DEF DispatchCommand
<1>10. CASE ~setting.sizeKnown
  <2>1. /\ status' = Failed
        /\ UNCHANGED <<remaining, fetch, flush, dmaB, dmaC, tx, rx, core1>>
    BY <1>2, <1>9, <1>10 DEF BeginIdentify
  <2>2. Rest'
    BY <1>4, <2>1, StatusValues DEF Rest, DmaSettled
  <2>3. ~Served'
    BY <1>2, <1>10 DEF Served
  <2>4. DriveInv'
    BY <1>2, <1>4, <2>1, <2>2, <2>3 DEF DriveInv, Unserved, Over
  <2>. QED  BY <1>3, <1>5, <1>7, <2>4
<1>11. CASE setting.sizeKnown
  <2>1. /\ status' = StDrq /\ dir' = "READ" /\ remaining' = 1 /\ active' = 0
        /\ dmaB'.left = Words /\ dmaB'.buf = 0 /\ ~dmaB'.irq
        /\ dmaC'.left = 0 /\ ~dmaC'.irq /\ tx' = <<>>
        /\ UNCHANGED <<fetch, flush, core1>>
    BY <1>2, <1>9, <1>11, ArmEffect DEF BeginIdentify, ClearFifos, StDrq
  <2>2. Done' = 0 /\ Pushed' = 0 /\ Served'
    BY <1>1, <1>2, <1>6, <1>11, <2>1 DEF Done, Pushed, Served
  <2>3. Sending'
    BY <1>1, <1>2, <1>4, <1>8, <2>1, <2>2 DEF Sending
  <2>4. ReadCount'
    BY <1>2, <2>1, <2>2 DEF ReadCount
  <2>5. ReadPhase'
    BY <1>6, <1>8, <2>1, <2>3, <2>4 DEF ReadPhase
  <2>6. DriveInv'
    BY <1>2, <2>2, <2>5 DEF DriveInv
  <2>. QED  BY <1>3, <1>5, <1>7, <2>6
<1>. QED  BY <1>10, <1>11

LEMMA RawCommandStep ==
  ASSUME WorkInv, RawCommand
  PROVE  WorkInv'
<1>. USE DEF WorkInv
<1>1. Capacity \in Nat /\ CountMax \in Nat /\ Words \in Nat /\ Words > 0 /\ 0 \in 0 .. Capacity
  BY SizesAssumption
<1>2. PICK op \in {"diagnostic", "nop", "unknown"} : Issue(op, 0, 0, <<>>)
  BY DEF RawCommand
<1>3. /\ call'.op = op
      /\ sector' = 0 /\ word' = 0 /\ got' = <<>> /\ setting' = setting
      /\ DispatchCommand(op) /\ UNCHANGED <<flush, core1, sd>>
      /\ CurrentLba(regs') = 0 /\ regs'.count = 0
  BY <1>1, <1>2, IssueEffect
<1>4. FirmwareTypes'
  <2>1. SectorCount(regs') = CountMax
    BY <1>3 DEF SectorCount
  <2>. QED  BY <1>1, <1>3, <2>1, DispatchTypes
<1>5. pc' = "idle" /\ Rest
  BY DEF RawCommand, HostInv, Return
<1>6. HostTypes'
  BY <1>1, <1>3, <1>5 DEF HostTypes, PcSet, Waits, Ops
<1>7. status' \in Over /\ Rest'
  <2>1. CASE op \in {"diagnostic", "nop"}
    <3>1. \E e : NoData(e)
      BY <1>3, <2>1 DEF DispatchCommand
    <3>2. /\ status' = Idle /\ dmaB'.left = 0 /\ ~dmaB'.irq /\ dmaC'.left = 0 /\ ~dmaC'.irq
          /\ UNCHANGED <<fetch, flush, core1>>
      BY <1>3, <3>1, ArmEffect DEF NoData
    <3>. QED  BY <1>5, <3>2, StatusValues DEF Rest, DmaSettled, Over
  <2>2. CASE op = "unknown"
    <3>1. /\ status' = Failed
          /\ UNCHANGED <<remaining, fetch, flush, dmaB, dmaC, tx, rx, core1>>
      BY <1>3, <2>2 DEF DispatchCommand, Refuse
    <3>. QED  BY <1>5, <3>1, StatusValues DEF Rest, DmaSettled, Over
  <2>. QED  BY <1>2, <2>1, <2>2
<1>8. HostInv'
  BY <1>5, <1>7 DEF HostInv
<1>9. ~Served'
  BY <1>2, <1>3 DEF Served
<1>10. DriveInv'
  BY <1>2, <1>3, <1>5, <1>7, <1>9 DEF DriveInv, Unserved
<1>. QED  BY <1>4, <1>6, <1>8, <1>10
-----------------------------------------------------------------------------
(* The driver transfers a word.                                            *)

LEMMA ReadTransferStep ==
  ASSUME WorkInv, ReadTransfer
  PROVE  WorkInv'
<1>. USE DEF WorkInv
<1>1. /\ pc = "transfer" /\ call.op # "write" /\ tx # <<>> /\ tx' = Tail(tx)
      /\ got' = Append(got, <<Head(tx)[1], Head(tx)[2]>>)
      /\ UNCHANGED <<dir, lba, remaining, active, fetch, flush, status, buf, dmaB, dmaC, rx,
                     core1, sd, call, setting>>
  BY DEF ReadTransfer, ReadWord
<1>2. Served /\ ReadPhase
  BY <1>1 DEF DriveInv, Unserved
<1>3. /\ tx \in Seq(WordSet) /\ Len(tx) <= FifoDepth /\ got \in Seq(WordSet)
  BY DEF FirmwareTypes, HostTypes
<1>4. /\ Words \in Nat /\ FifoDepth \in Nat /\ FifoDepth > 0 /\ FifoDepth < Words
      /\ dmaB.left \in 0 .. Words /\ dmaB.irq \in BOOLEAN
      /\ Len(tx) \in 0 .. FifoDepth /\ (tx = <<>> <=> Len(tx) = 0)
      /\ remaining \in Int /\ sector \in Nat /\ word \in 0 .. Words - 1
  BY Numbers
<1>5. Head(tx) \in WordSet /\ Tail(tx) \in Seq(WordSet) /\ Len(tx') = Len(tx) - 1 /\ Len(tx) >= 1
  BY <1>1, <1>3
<1>6. got' \in Seq(WordSet)
  <2>1. got' = Append(got, Head(tx))
    BY <1>1, <1>5, SwapTwice
  <2>. QED  BY <1>3, <1>5, <2>1
<1>7. FirmwareTypes'
  BY <1>1, <1>3, <1>4, <1>5 DEF FirmwareTypes
<1>8. /\ Sectors' = Sectors /\ Done' = Done /\ Pushed' = Pushed /\ (Served' <=> Served)
      /\ call'.op = call.op
  BY <1>1 DEF Sectors, Done, Pushed, Served
<1>9. /\ Sectors \in Nat /\ (call.op = "identify" => Sectors = 1) /\ Done \in Int
      /\ Pushed \in 0 .. Words /\ Done = Sectors - remaining
      /\ call.op \in {"read", "identify"} /\ sector < Sectors
  <2>1. call.op \in {"read", "identify"} /\ sector < Sectors
    BY <1>1 DEF HostInv
  <2>2. Sectors \in Nat /\ (call.op = "identify" => Sectors = 1)
    BY <1>2, SectorsType
  <2>. QED  BY <1>4, <2>1, <2>2 DEF Done, Pushed
<1>10. /\ ReadCount /\ remaining \in 0 .. Sectors /\ ~flush.need /\ dmaC.left = 0 /\ ~dmaC.irq
       /\ Fetching \/ Sending \/ ReadOver
  BY <1>2 DEF ReadPhase
<1>11. Pushed = Words => dmaB.left = 0 /\ dmaB.irq
  BY <1>4 DEF Pushed
<1>. DEFINE more == sector + 1 < Sectors
<1>12. /\ word' = IF word + 1 = Words THEN 0 ELSE word + 1
       /\ sector' = IF word + 1 = Words THEN sector + 1 ELSE sector
       /\ \/ word + 1 # Words /\ pc' = pc
          \/ word + 1 = Words /\ more /\ pc' = "wait_bsy"
          \/ word + 1 = Words /\ ~more /\ pc' = "idle"
  BY DEF ReadTransfer, AfterWord, Return, Sectors
<1>13. HostTypes'
  <2>1. sector' \in Nat /\ word' \in Nat /\ word' < Words /\ pc' \in PcSet
    BY <1>1, <1>4, <1>12 DEF PcSet, Waits
  <2>2. pc' \notin {"select", "identify"}
    BY <1>1, <1>12
  <2>. QED  BY <1>1, <1>6, <2>1, <2>2 DEF HostTypes
<1>14. CASE word + 1 # Words
  <2>1. word' = word + 1 /\ sector' = sector /\ pc' = pc
    BY <1>12, <1>14
  <2>2. ReadCount'
    <3>1. word' + Len(tx') = word + Len(tx)
      BY <1>4, <1>5, <2>1
    <3>2. \/ sector = Done /\ word + Len(tx) = Pushed
          \/ sector = Done - 1 /\ word + Len(tx) = Words + Pushed
      BY <1>1, <1>10 DEF ReadCount
    <3>. QED  BY <1>8, <2>1, <3>1, <3>2 DEF ReadCount
  <2>3. Fetching => Fetching'
    <3>1. Fetching => sector # Done
      BY <1>1, <1>9 DEF Fetching
    <3>. QED  BY <1>1, <1>8, <2>1, <3>1 DEF Fetching
  <2>4. Sending => Sending'
    BY <1>1, <1>8, <2>1 DEF Sending
  <2>5. ReadOver => ReadOver'
    BY <1>1, <1>8, <2>1 DEF ReadOver
  <2>6. ReadPhase'
    BY <1>1, <1>8, <1>10, <2>2, <2>3, <2>4, <2>5 DEF ReadPhase
  <2>7. DriveInv'
    BY <1>1, <1>2, <1>8, <2>6 DEF DriveInv
  <2>8. HostInv'
    BY <1>1, <1>8, <1>9, <2>1 DEF HostInv
  <2>. QED  BY <1>7, <1>13, <2>7, <2>8
<1>15. CASE word + 1 = Words
  <2>1. word' = 0 /\ sector' = sector + 1 /\ pc' \in {"wait_bsy", "idle"}
    BY <1>12, <1>15
  <2>2. \/ sector = Done /\ Pushed = Words /\ Len(tx') = 0
        \/ sector = Done - 1 /\ Len(tx') = Pushed
    <3>1. \/ sector = Done /\ word + Len(tx) = Pushed
          \/ sector = Done - 1 /\ word + Len(tx) = Words + Pushed
      BY <1>1, <1>10 DEF ReadCount
    <3>. DEFINE n == Len(tx)
                m == Len(tx')
    <3>2. m = n - 1 /\ n >= 1 /\ n \in Nat
      BY <1>4, <1>5
    <3>3. \/ sector = Done /\ word + n = Pushed
          \/ sector = Done - 1 /\ word + n = Words + Pushed
      BY <3>1
    <3>. HIDE DEF n, m
    <3>4. \/ sector = Done /\ Pushed = Words /\ m = 0
          \/ sector = Done - 1 /\ m = Pushed
      BY <1>4, <1>9, <1>15, <3>2, <3>3
    <3>. QED  BY <3>4 DEF m
  <2>3. tx' = <<>> <=> Len(tx') = 0
    BY <1>1, <1>5
  <2>4. ReadCount'
    BY <1>8, <1>9, <2>1, <2>2, <2>3, <1>4 DEF ReadCount
  <2>5. Fetching => Fetching'
    BY <1>1, <1>8, <2>1 DEF Fetching
  <2>6. Sending => Sending'
    BY <1>1, <1>8, <2>1 DEF Sending
  <2>7. ReadOver => ReadOver'
    BY <1>1, <1>8, <2>1 DEF ReadOver
  <2>8. ReadPhase'
    BY <1>1, <1>8, <1>10, <2>4, <2>5, <2>6, <2>7 DEF ReadPhase
  <2>9. DriveInv'
    BY <1>1, <1>2, <1>8, <2>8 DEF DriveInv
  <2>10. CASE more
    <3>1. pc' = "wait_bsy" /\ sector' < Sectors
      BY <1>12, <1>15, <2>1, <2>10
    <3>2. HostInv'
      BY <1>1, <1>8, <1>9, <2>1, <3>1 DEF HostInv
    <3>. QED  BY <1>7, <1>13, <2>9, <3>2
  <2>11. CASE ~more
    <3>1. pc' = "idle" /\ sector = Sectors - 1
      BY <1>4, <1>9, <1>12, <1>15, <2>11
    <3>2. ASSUME sector = Done, Pushed = Words
          PROVE  Rest'
      <4>1. remaining = 1 /\ dmaB.left = 0 /\ dmaB.irq
        BY <1>4, <1>9, <1>11, <3>1, <3>2
      <4>2. Sending
        BY <1>10, <4>1 DEF Fetching, ReadOver
      <4>. QED  BY <1>1, <1>10, <4>1, <4>2, StatusValues DEF Sending, Rest, DmaSettled
    <3>3. ASSUME sector = Done - 1
          PROVE  Rest'
      <4>1. remaining = 0
        BY <1>4, <1>9, <3>1, <3>3
      <4>2. ReadOver
        BY <1>10, <4>1 DEF Fetching, Sending
      <4>3. status = Idle /\ core1.at = "idle"
        BY <4>1, <4>2, StatusValues DEF ReadOver, Over
      <4>. QED  BY <1>1, <1>10, <4>2, <4>3, StatusValues DEF ReadOver, Rest, DmaSettled
    <3>4. Rest'
      BY <2>2, <3>2, <3>3
    <3>5. HostInv'
      BY <3>1, <3>4 DEF HostInv
    <3>. QED  BY <1>7, <1>13, <2>9, <3>5
  <2>. QED  BY <2>10, <2>11
<1>. QED  BY <1>14, <1>15

LEMMA WriteTransferStep ==
  ASSUME WorkInv, WriteTransfer
  PROVE  WorkInv'
<1>. USE DEF WorkInv
<1>. DEFINE w == Sector(call.data[sector + 1])[word + 1]
<1>1. /\ pc = "transfer" /\ call.op = "write" /\ Len(rx) < FifoDepth /\ rx' = Append(rx, w)
      /\ UNCHANGED <<dir, lba, remaining, active, fetch, flush, status, buf, dmaB, dmaC, tx,
                     core1, sd, call, got, setting>>
  BY DEF WriteTransfer, WriteWord
<1>2. Served /\ WritePhase
  BY <1>1 DEF DriveInv, Served
<1>3. Taking
  BY <1>1, <1>2 DEF WritePhase, Flushing, WriteOver
<1>4. /\ Words \in Nat /\ FifoDepth \in Nat /\ FifoDepth > 0 /\ FifoDepth < Words
      /\ dmaC.left \in 0 .. Words /\ dmaC.irq \in BOOLEAN
      /\ Len(rx) \in 0 .. FifoDepth
      /\ remaining \in Int /\ sector \in Nat /\ word \in 0 .. Words - 1
  BY Numbers
<1>5. /\ Sectors \in Nat /\ Done \in Int /\ Done = Sectors - remaining /\ sector < Sectors
      /\ Sectors = call.count
  <2>1. sector < Sectors
    BY <1>1 DEF HostInv
  <2>2. Sectors \in Nat
    BY <1>2, SectorsType
  <2>. QED  BY <1>1, <1>4, <2>1, <2>2 DEF Done, Sectors
<1>6. w \in WordSet
  <2>1. sector + 1 \in 1 .. call.count /\ word + 1 \in 1 .. Words
    BY <1>4, <1>5
  <2>2. call.data[sector + 1] \in Data
    BY <1>1, <2>1 DEF HostTypes
  <2>. QED  BY <2>1, <2>2 DEF WordSet
<1>. HIDE DEF w
<1>7. rx \in Seq(WordSet)
  BY DEF FirmwareTypes
<1>8. rx' \in Seq(WordSet) /\ Len(rx') = Len(rx) + 1
  BY <1>1, <1>6, <1>7
<1>9. FirmwareTypes'
  BY <1>1, <1>4, <1>8 DEF FirmwareTypes
<1>10. /\ Sectors' = Sectors /\ Done' = Done /\ (Served' <=> Served) /\ call'.op = call.op
  BY <1>1 DEF Sectors, Done, Served
<1>11. sector = Done /\ word = Words - dmaC.left + Len(rx)
  BY <1>1, <1>3, <1>4, <1>5 DEF Taking
<1>. DEFINE more == sector + 1 < Sectors
<1>12. /\ word' = IF word + 1 = Words THEN 0 ELSE word + 1
       /\ sector' = IF word + 1 = Words THEN sector + 1 ELSE sector
       /\ \/ word + 1 # Words /\ pc' = pc
          \/ word + 1 = Words /\ more /\ pc' = "wait_bsy"
          \/ word + 1 = Words /\ ~more /\ pc' = "wait_end"
  BY DEF WriteTransfer, AfterWord, Sectors
<1>13. HostTypes'
  <2>1. sector' \in Nat /\ word' \in Nat /\ word' < Words /\ pc' \in PcSet
    BY <1>1, <1>4, <1>12 DEF PcSet, Waits
  <2>2. pc' \notin {"select", "identify"}
    BY <1>1, <1>12
  <2>. QED  BY <1>1, <2>1, <2>2 DEF HostTypes
<1>14. Taking'
  <2>1. Len(rx') = Len(rx) + 1 /\ dmaC' = dmaC
    BY <1>1, <1>8
  <2>2. \/ sector' = Done' /\ word' = Words - dmaC'.left + Len(rx') /\ pc' = "transfer"
        \/ sector' = Done' + 1 /\ word' = 0 /\ Len(rx') = dmaC'.left /\ pc' # "transfer"
    <3>. DEFINE n == Len(rx)
                m == Len(rx')
                c == dmaC.left
    <3>1. m = n + 1 /\ n \in Nat /\ c \in Nat /\ word = Words - c + n
      BY <1>4, <1>11, <2>1
    <3>. HIDE DEF n, m, c
    <3>2. \/ sector' = Done' /\ word' = Words - c + m /\ pc' = "transfer"
          \/ sector' = Done' + 1 /\ word' = 0 /\ m = c /\ pc' # "transfer"
      <4>1. sector = Done' /\ pc = "transfer" /\ Words \in Nat /\ word \in Nat
        BY <1>1, <1>4, <1>10, <1>11
      <4>2. CASE word + 1 = Words
        <5>1. sector' = sector + 1 /\ word' = 0 /\ pc' # "transfer"
          BY <1>12, <4>2
        <5>2. m = c
          BY <3>1, <4>1, <4>2
        <5>. QED  BY <4>1, <5>1, <5>2
      <4>3. CASE word + 1 # Words
        <5>1. sector' = sector /\ word' = word + 1 /\ pc' = pc
          BY <1>12, <4>3
        <5>2. word + 1 = Words - c + m
          BY <3>1, <4>1
        <5>. QED  BY <4>1, <5>1, <5>2
      <4>. QED  BY <4>2, <4>3
    <3>. QED  BY <2>1, <3>2 DEF n, m, c
  <2>. QED  BY <1>1, <1>3, <1>10, <2>1, <2>2 DEF Taking
<1>15. DriveInv'
  BY <1>1, <1>2, <1>10, <1>14 DEF DriveInv, WritePhase
<1>16. HostInv'
  <2>1. /\ pc' \in {"wait_bsy", "wait_end"} => word' = 0
        /\ pc' \in {"wait_bsy", "transfer"} => sector' < Sectors
        /\ pc' = "wait_end" => sector' = Sectors
        /\ pc' \in {"wait_bsy", "wait_end", "transfer"}
    BY <1>1, <1>4, <1>5, <1>12
  <2>. QED  BY <1>1, <1>10, <2>1 DEF HostInv
<1>. QED  BY <1>9, <1>13, <1>15, <1>16

\* The firmware by itself.
LEMMA FirmwareHost ==
  ASSUME WorkInv, Firmware
  PROVE  WorkInv'
<1>. USE DEF WorkInv
<1>1. FirmwareStep /\ UNCHANGED hostVars
  BY DEF Firmware
<1>2. /\ UNCHANGED <<pc, call, sector, got, word, setting>>
      /\ Sectors' = Sectors /\ (Served' <=> Served) /\ call'.op = call.op
  BY <1>1 DEF hostVars, Sectors, Served
<1>3. FirmwareTypes'
  BY <1>1, FirmwareTypesStep
<1>4. HostTypes'
  BY <1>2 DEF HostTypes
<1>5. Rest => Rest'
  BY <1>1, RestFirmware
<1>6. HostInv'
  BY <1>2, <1>5 DEF HostInv
<1>7. ~Served => Unserved'
  BY <1>1, <1>2, RestFirmware DEF DriveInv, Unserved
<1>8. Served /\ call.op # "write" => ReadPhase'
  BY <1>1, ReadFirmware DEF DriveInv
<1>9. call.op = "write" => WritePhase'
  BY <1>1, WriteFirmware DEF DriveInv
<1>10. DriveInv'
  BY <1>2, <1>7, <1>8, <1>9 DEF DriveInv
<1>. QED  BY <1>3, <1>4, <1>6, <1>10
-----------------------------------------------------------------------------
(* The invariant holds, and what follows from it.                          *)

LEMMA WorkInvInit ==
  ASSUME Init, \A s \in Settings : Orderly(s)
  PROVE  WorkInv
<1>1. /\ Words \in Nat /\ FifoDepth \in Nat /\ Words > 0 /\ 0 \in 0 .. Words
      /\ Capacity \in Nat
  BY SizesAssumption
<1>2. /\ dir = "NONE" /\ lba = 0 /\ remaining = 0 /\ active = 0
      /\ fetch = [need |-> FALSE, buf |-> 0, lba |-> 0]
      /\ flush = [need |-> FALSE, lba |-> 0]
      /\ status = Idle
      /\ buf = [b \in Buffers |-> Identity]
      /\ dmaB = [left |-> 0, buf |-> 0, irq |-> FALSE]
      /\ dmaC = [left |-> 0, irq |-> FALSE]
      /\ tx = <<>> /\ rx = <<>>
      /\ core1 = [at |-> "idle", buf |-> 0, lba |-> 0]
      /\ sd \in [Lbas -> SectorSet]
  BY DEF Init, Init0, Idle
<1>3. /\ pc = "boot" /\ sector = 0 /\ word = 0 /\ got = <<>> /\ setting \in Settings
      /\ call.op = "none"
  BY DEF Init
<1>4. sd \in [Lbas -> [1 .. Words -> WordSet]]
  <2>1. SectorSet \subseteq [1 .. Words -> WordSet]
    BY SectorType DEF SectorSet
  <2>. QED  BY <1>2, <2>1
<1>5. buf \in [Buffers -> [1 .. Words -> WordSet]]
  BY <1>2, SectorType DEF Identity
<1>6. /\ fetch \in FetchSet /\ flush \in FlushSet /\ dmaB \in DmaBSet /\ dmaC \in DmaCSet
      /\ core1 \in CoreSet
  BY <1>1, <1>2 DEF FetchSet, FlushSet, DmaBSet, DmaCSet, CoreSet, CoreAt
<1>7. FirmwareTypes
  BY <1>1, <1>2, <1>4, <1>5, <1>6 DEF FirmwareTypes
<1>8. HostTypes
  BY <1>1, <1>3 DEF HostTypes, PcSet, Waits, Ops
<1>9. Rest
  BY <1>2, StatusValues DEF Rest, DmaSettled
<1>10. DriveInv
  BY <1>2, <1>3, <1>9 DEF DriveInv, Unserved, Served, Over
<1>11. HostInv
  BY <1>3 DEF HostInv
<1>. QED  BY <1>7, <1>8, <1>10, <1>11 DEF WorkInv

LEMMA WorkInvStep ==
  ASSUME ~Core1Stalls, WorkInv, [Next]_vars
  PROVE  WorkInv'
<1>1. CASE UNCHANGED vars
  <2>1. UNCHANGED <<dir, lba, remaining, active, fetch, flush, status, buf, dmaB, dmaC, tx, rx,
                    core1, sd, pc, call, sector, got, word, setting>>
    BY <1>1 DEF vars, fwVars, hostVars
  <2>2. FirmwareTypes' /\ HostTypes'
    BY <2>1 DEF WorkInv, FirmwareTypes, HostTypes
  <2>3. DriveInv'
    BY <2>1, WaitDrive DEF WorkInv
  <2>4. HostInv'
    BY <2>1, RestStays DEF WorkInv, HostInv, Sectors
  <2>. QED  BY <2>2, <2>3, <2>4 DEF WorkInv
<1>2. CASE Firmware
  BY <1>2, FirmwareHost
<1>3. CASE BeginCall \/ TimeOut \/ Reset \/ AtaInit \/ SelectDrive \/ WaitIdle \/ WaitBsy \/ WaitEnd
  BY <1>3, WaitStep
<1>4. CASE WaitDrq
  <2>1. CASE pc' = "transfer"
    BY <1>4, <2>1, DrqStep
  <2>2. CASE pc' # "transfer"
    BY <1>4, <2>2, WaitStep
  <2>. QED  BY <2>1, <2>2
<1>5. CASE ReadCommand
  BY <1>5, ReadCommandStep
<1>6. CASE WriteCommand
  BY <1>6, WriteCommandStep
<1>7. CASE IdentifyCommand
  BY <1>7, IdentifyCommandStep
<1>8. CASE RawCommand
  BY <1>8, RawCommandStep
<1>9. CASE ReadTransfer
  BY <1>9, ReadTransferStep
<1>10. CASE WriteTransfer
  BY <1>10, WriteTransferStep
<1>. QED
  BY <1>1, <1>2, <1>3, <1>4, <1>5, <1>6, <1>7, <1>8, <1>9, <1>10 DEF Next, Driver

\* Who works on the drive and how far it is, through every interleaving of the
\* two cores, the DMA channels, their interrupts, the driver, timeouts and
\* resets.
THEOREM WorkInvariant ==
  ASSUME ~Core1Stalls, \A s \in Settings : Orderly(s)
  PROVE  Spec => []WorkInv
<1>1. Init => WorkInv
  BY WorkInvInit
<1>2. WorkInv /\ [Next]_vars => WorkInv'
  BY WorkInvStep
<1>. QED  BY <1>1, <1>2, PTL DEF Spec

LEMMA WorkGivesShared ==
  ASSUME WorkInv
  PROVE  BufferNotShared
<1>. USE DEF WorkInv
<1>1. CASE ~Served
  BY <1>1 DEF DriveInv, Unserved, Rest, BufferNotShared
<1>2. CASE Served /\ call.op # "write"
  <2>1. ReadPhase
    BY <1>2 DEF DriveInv
  <2>2. core1.at = "sd_read" => dmaB.left = 0
    BY <2>1 DEF ReadPhase, Fetching, Sending, ReadOver
  <2>3. core1.at # "sd_write" /\ dmaC.left = 0
    BY <2>1 DEF ReadPhase, Fetching, Sending, ReadOver
  <2>. QED  BY <2>2, <2>3 DEF BufferNotShared
<1>3. CASE call.op = "write"
  <2>1. WritePhase
    BY <1>3 DEF DriveInv
  <2>2. core1.at # "sd_read" /\ (core1.at = "sd_write" => dmaC.left = 0)
    BY <2>1 DEF WritePhase, Taking, Flushing, WriteOver
  <2>. QED  BY <2>2 DEF BufferNotShared
<1>. QED  BY <1>1, <1>2, <1>3

LEMMA WorkGivesDrq ==
  ASSUME WorkInv
  PROVE  DrqHasDma
<1>. USE DEF WorkInv
<1>1. SUFFICES ASSUME "DRQ" \in status
               PROVE  /\ "ERR" \notin status /\ "BSY" \notin status
                      /\ dir = "READ"  => dmaB.left > 0 \/ dmaB.irq
                      /\ dir = "WRITE" => dmaC.left > 0 \/ dmaC.irq
                      /\ dir # "NONE"
  BY DEF DrqHasDma
<1>2. status = StDrq /\ Served
  BY <1>1, StatusType, StatusValues DEF Over
<1>3. "ERR" \notin status /\ "BSY" \notin status
  BY <1>2, StatusValues
<1>4. dmaB.left \in Nat /\ dmaC.left \in Nat
  BY Numbers
<1>5. CASE call.op # "write"
  <2>1. Sending
    BY <1>2, <1>5, StatusValues DEF DriveInv, ReadPhase, Fetching, ReadOver, Over
  <2>. QED  BY <1>3, <1>4, <2>1 DEF Sending
<1>6. CASE call.op = "write"
  <2>1. Taking
    BY <1>2, <1>6, StatusValues DEF DriveInv, WritePhase, Flushing, WriteOver, Over
  <2>. QED  BY <1>3, <1>4, <2>1 DEF Taking
<1>. QED  BY <1>5, <1>6

LEMMA WorkGivesBusy ==
  ASSUME WorkInv
  PROVE  BusyHasWorker
<1>. USE DEF WorkInv
<1>1. SUFFICES ASSUME "BSY" \in status
               PROVE  fetch.need \/ flush.need \/ core1.at # "idle" \/ dmaB.irq \/ dmaC.irq
  BY DEF BusyHasWorker
<1>2. status = StBusy /\ Served
  BY <1>1, StatusType, StatusValues DEF Over
<1>3. CASE call.op # "write"
  <2>1. Fetching
    BY <1>2, <1>3, StatusValues DEF DriveInv, ReadPhase, Sending, ReadOver, Over
  <2>. QED  BY <2>1 DEF Fetching
<1>4. CASE call.op = "write"
  <2>1. Taking \/ Flushing
    BY <1>2, <1>4, StatusValues DEF DriveInv, WritePhase, WriteOver, Over
  <2>. QED  BY <1>2, <2>1 DEF Taking, Flushing
<1>. QED  BY <1>3, <1>4

\* While core 1 moves a buffer to or from the card no DMA channel touches it.
THEOREM BuffersAreNotShared ==
  ASSUME ~Core1Stalls, \A s \in Settings : Orderly(s)
  PROVE  Spec => []BufferNotShared
<1>1. WorkInv => BufferNotShared
  BY WorkGivesShared
<1>. QED  BY <1>1, WorkInvariant, PTL

\* The drive never shows DRQ with no channel behind it, nor with BSY or ERR.
THEOREM DrqIsBacked ==
  ASSUME ~Core1Stalls, \A s \in Settings : Orderly(s)
  PROVE  Spec => []DrqHasDma
<1>1. WorkInv => DrqHasDma
  BY WorkGivesDrq
<1>. QED  BY <1>1, WorkInvariant, PTL

\* The drive never shows BSY with nobody left to take it down.
THEOREM BusyIsBacked ==
  ASSUME ~Core1Stalls, \A s \in Settings : Orderly(s)
  PROVE  Spec => []BusyHasWorker
<1>1. WorkInv => BusyHasWorker
  BY WorkGivesBusy
<1>. QED  BY <1>1, WorkInvariant, PTL
-----------------------------------------------------------------------------
(* The words of a read.                                                    *)

LEMMA StreamKept ==
  ASSUME Stream, UNCHANGED <<call, sd, got, tx>>, Done' = Done, Pushed' = Pushed
  PROVE  Stream'
BY DEF Stream, Right, Expected

LEMMA LoadedKept ==
  ASSUME Loaded, UNCHANGED <<call, lba, active, buf, sd>>
  PROVE  Loaded'
BY DEF Loaded

\* DMA_B appends the word that comes next.
LEMMA StreamPush ==
  ASSUME FirmwareTypes, HostTypes, Served, call.op \in {"read", "identify"},
         remaining \in 0 .. Sectors, Stream, ReadPlace, Loaded, dmaB.buf = active,
         DmaBMove, UNCHANGED hostVars
  PROVE  Stream'
<1>1. /\ Words \in Nat /\ FifoDepth \in Nat /\ FifoDepth > 0 /\ FifoDepth < Words
      /\ dmaB.left \in 0 .. Words /\ dmaB.irq \in BOOLEAN /\ remaining \in Int
  BY Numbers
<1>2. /\ tx \in Seq(WordSet) /\ got \in Seq(WordSet) /\ active \in Buffers
      /\ buf \in [Buffers -> [1 .. Words -> WordSet]]
  BY DEF FirmwareTypes, HostTypes, Buffers
<1>3. /\ dmaB.left > 0 /\ dmaB'.left = dmaB.left - 1
      /\ dmaB'.irq <=> (dmaB.irq \/ dmaB.left = 1)
      /\ UNCHANGED <<remaining, sd, call, got>>
  BY MoveEffect DEF DmaBMove, hostVars
<1>4. Sectors' = Sectors /\ Sectors \in Nat
  BY <1>3, SectorsType DEF Sectors
<1>5. /\ Pushed = Words - dmaB.left /\ Pushed' = Pushed + 1 /\ Pushed \in 0 .. Words - 1
      /\ Done' = Done /\ Done \in Nat
  BY <1>1, <1>3, <1>4 DEF Pushed, Done
<1>. DEFINE x == buf[active][Pushed + 1]
            n == Len(got) + Len(tx)
<1>6. x \in WordSet
  <2>1. Pushed + 1 \in 1 .. Words
    BY <1>1, <1>5
  <2>. QED  BY <1>2, <2>1
<1>7. tx' = Append(tx, x)
  <2>1. Words - dmaB.left + 1 = Pushed + 1
    BY <1>5
  <2>2. tx' = Append(tx, Bswap(Load16(x)))
    BY <2>1 DEF DmaBMove
  <2>. QED  BY <1>6, <2>2, SwapTwice
<1>8. n \in Nat /\ n = Words * Done + Pushed
  BY <1>2 DEF Stream
<1>9. n \div Words = Done /\ n % Words = Pushed
  <2>. HIDE DEF n
  <2>1. Words \in Nat /\ Words > 0 /\ Done \in Nat /\ Pushed \in 0 .. Words - 1 /\ n \in Nat
    BY <1>1, <1>5, <1>8
  <2>2. n = Words * Done + Pushed
    BY <1>8
  <2>. QED  BY <2>1, <2>2, DivUnique
<1>10. Right(n + 1, x)
  <2>1. (n + 1) - 1 = n
    BY <1>8
  <2>2. CASE call.op = "read"
    BY <1>9, <2>1, <2>2 DEF Right, Expected, ReadPlace, Loaded
  <2>3. CASE call.op = "identify"
    BY <1>9, <2>1, <2>3 DEF Right, Expected, Loaded
  <2>. QED  BY <2>2, <2>3
<1>. HIDE DEF x
<1>11. /\ Len(tx') = Len(tx) + 1 /\ tx'[Len(tx) + 1] = x
       /\ \A i \in 1 .. Len(tx) : tx'[i] = tx[i]
  BY <1>2, <1>6, <1>7
<1>12. \A i, w : Right(i, w)' <=> Right(i, w')
  BY <1>3 DEF Right, Expected
<1>. QED
  <2>1. Len(got') + Len(tx') = Words * Done' + Pushed'
    <3>1. Words * Done \in Int /\ Len(got) \in Nat /\ Len(tx) \in Nat
      BY <1>1, <1>2, <1>5
    <3>. QED  BY <1>3, <1>5, <1>8, <1>11, <3>1, SMTT(30)
  <2>2. \A i \in 1 .. Len(got') : Right(i, got[i])'
    BY <1>3, <1>12 DEF Stream
  <2>3. \A i \in 1 .. Len(tx') : Right(Len(got) + i, tx[i])'
    <3>1. SUFFICES ASSUME NEW i \in 1 .. Len(tx')
                   PROVE  Right(Len(got) + i, tx'[i])
      BY <1>3, <1>12
    <3>2. i \in 1 .. Len(tx) \/ i = Len(tx) + 1
      BY <1>2, <1>11
    <3>3. CASE i \in 1 .. Len(tx)
      BY <1>11, <3>3 DEF Stream
    <3>4. CASE i = Len(tx) + 1
      <4>1. Len(got) + i = n + 1
        BY <1>2, <3>4
      <4>. QED  BY <1>10, <1>11, <3>4, <4>1
    <3>. QED  BY <3>2, <3>3, <3>4
  <2>. QED  BY <2>1, <2>2, <2>3 DEF Stream
\* The driver takes a word from the FIFO.
LEMMA StreamPop ==
  ASSUME tx \in Seq(WordSet), got \in Seq(WordSet), tx # <<>>, Stream,
         tx' = Tail(tx), got' = Append(got, Head(tx)),
         UNCHANGED <<call, sd>>, Done' = Done, Pushed' = Pushed
  PROVE  Stream'
<1>1. /\ Len(tx) \in Nat /\ Len(tx) >= 1 /\ Len(tx') = Len(tx) - 1
      /\ \A i \in 1 .. Len(tx) - 1 : tx'[i] = tx[i + 1]
  OBVIOUS
<1>2. /\ Len(got) \in Nat /\ Len(got') = Len(got) + 1
      /\ got'[Len(got) + 1] = tx[1]
      /\ \A i \in 1 .. Len(got) : got'[i] = got[i]
  OBVIOUS
<1>3. \A i, w : Right(i, w)' <=> Right(i, w')
  BY DEF Right, Expected
<1>4. Len(got') + Len(tx') = Words * Done' + Pushed'
  BY <1>1, <1>2 DEF Stream
<1>5. \A i \in 1 .. Len(got') : Right(i, got'[i])
  <2>1. SUFFICES ASSUME NEW i \in 1 .. Len(got')
                 PROVE  Right(i, got'[i])
    OBVIOUS
  <2>2. CASE i \in 1 .. Len(got)
    BY <1>2, <2>2 DEF Stream
  <2>3. CASE i = Len(got) + 1
    <3>1. 1 \in 1 .. Len(tx)
      BY <1>1
    <3>2. Right(Len(got) + 1, tx[1])
      BY <3>1 DEF Stream
    <3>. QED  BY <1>2, <2>3, <3>2
  <2>. QED  BY <1>2, <2>1, <2>2, <2>3
<1>6. \A i \in 1 .. Len(tx') : Right(Len(got') + i, tx'[i])
  <2>1. SUFFICES ASSUME NEW i \in 1 .. Len(tx')
                 PROVE  Right(Len(got') + i, tx'[i])
    OBVIOUS
  <2>2. i + 1 \in 1 .. Len(tx) /\ i \in 1 .. Len(tx) - 1
    BY <1>1
  <2>3. Right(Len(got) + (i + 1), tx[i + 1])
    BY <2>2 DEF Stream
  <2>4. Len(got') + i = Len(got) + (i + 1)
    BY <1>2, <2>2
  <2>. QED  BY <1>1, <2>2, <2>3, <2>4
<1>. QED  BY <1>3, <1>4, <1>5, <1>6 DEF Stream

LEMMA ReadDataFirmware ==
  ASSUME WorkInv, Stream, ReadPlace, Served, call.op # "write", FirmwareStep, UNCHANGED hostVars
  PROVE  Stream' /\ ReadPlace'
<1>. USE DEF WorkInv
<1>1. /\ UNCHANGED <<call, sector, got, word, setting>> /\ Sectors' = Sectors
  BY DEF hostVars, Sectors
<1>2. Sectors \in Nat /\ (call.op = "identify" => Sectors = 1) /\ call.op \in {"read", "identify"}
  BY SectorsType DEF Served, HostTypes, Ops
<1>3. ReadPhase
  BY DEF DriveInv
<1>4. /\ core1.at \in {"idle", "fetch_args", "sd_read", "fetch_test", "fetch_drq", "fail_status",
                       "end_dir"}
      /\ ~flush.need /\ dmaC.left = 0 /\ ~dmaC.irq /\ remaining \in 0 .. Sectors
      /\ Fetching \/ Sending \/ ReadOver
  BY <1>3 DEF ReadPhase, Fetching, Sending, ReadOver
<1>5. remaining' = remaining => Done' = Done
  BY <1>1 DEF Done
<1>6. dmaB' = dmaB => Pushed' = Pushed
  BY DEF Pushed
<1>7. /\ Words \in Nat /\ FifoDepth \in Nat /\ FifoDepth > 0 /\ FifoDepth < Words
      /\ dmaB.left \in 0 .. Words /\ dmaB.irq \in BOOLEAN /\ remaining \in Int
  BY Numbers
<1>8. CASE FetchTake
  <2>1. /\ fetch.need /\ ~fetch'.need /\ fetch'.lba = fetch.lba /\ core1'.at = "fetch_args"
        /\ UNCHANGED <<lba, remaining, active, status, buf, dmaB, tx, sd>>
    BY <1>8, NeedEffect, AtEffect DEF FetchTake
  <2>2. Stream'
    BY <1>1, <1>5, <1>6, <2>1, StreamKept
  <2>3. ReadPlace'
    BY <1>1, <1>5, <2>1, LoadedKept DEF ReadPlace
  <2>. QED  BY <2>2, <2>3
<1>9. CASE FetchArgs
  <2>1. /\ core1.at = "fetch_args" /\ core1'.at = "sd_read" /\ core1'.lba = fetch.lba
        /\ UNCHANGED <<lba, remaining, active, fetch, status, buf, dmaB, tx, sd>>
    BY <1>9 DEF FetchArgs
  <2>2. Stream'
    BY <1>1, <1>5, <1>6, <2>1, StreamKept
  <2>3. ReadPlace'
    BY <1>1, <1>5, <2>1, LoadedKept DEF ReadPlace
  <2>. QED  BY <2>2, <2>3
<1>10. CASE SdReadOk
  <2>1. /\ core1.at = "sd_read" /\ core1'.at = "fetch_test" /\ core1.lba \in Lbas
        /\ buf' = [buf EXCEPT ![core1.buf] = sd[core1.lba]]
        /\ UNCHANGED <<lba, remaining, active, fetch, status, dmaB, tx, sd>>
    BY <1>10, AtEffect DEF SdReadOk
  <2>2. Stream'
    BY <1>1, <1>5, <1>6, <2>1, StreamKept
  <2>3. Fetching
    BY <1>4, <2>1 DEF Sending, ReadOver
  <2>4. core1.buf = active /\ call.op = "read" /\ core1.lba = lba
    BY <2>1, <2>3 DEF Fetching, ReadPlace
  <2>5. buf'[active] = sd[lba]
    <3>1. active \in DOMAIN buf
      BY DEF FirmwareTypes, Buffers
    <3>. QED  BY <2>1, <2>4, <3>1
  <2>6. Loaded'
    BY <1>1, <2>1, <2>4, <2>5 DEF Loaded
  <2>7. ReadPlace'
    BY <1>1, <1>5, <2>1, <2>6 DEF ReadPlace
  <2>. QED  BY <2>2, <2>7
<1>11. CASE SdReadFail
  <2>1. /\ core1.at = "sd_read" /\ core1'.at = "fail_status"
        /\ UNCHANGED <<lba, remaining, active, fetch, status, buf, dmaB, tx, sd>>
    BY <1>11, AtEffect DEF SdReadFail
  <2>2. Stream'
    BY <1>1, <1>5, <1>6, <2>1, StreamKept
  <2>3. ReadPlace'
    BY <1>1, <1>5, <2>1, LoadedKept DEF ReadPlace
  <2>. QED  BY <2>2, <2>3
<1>12. CASE FetchTest
  <2>1. core1.at = "fetch_test"
    BY <1>12 DEF FetchTest
  <2>2. Fetching
    BY <1>4, <2>1 DEF Sending, ReadOver
  <2>3. dir = "READ" /\ active = core1.buf /\ "BSY" \in status /\ dmaB.left = 0 /\ ~dmaB.irq
    BY <2>1, <2>2, StatusValues DEF Fetching
  <2>4. /\ dmaB'.left = Words /\ dmaB'.irq = dmaB.irq /\ core1'.at = "fetch_drq"
        /\ UNCHANGED <<lba, remaining, active, fetch, status, buf, tx, sd>>
    BY <1>12, <2>3, ArmEffect, AtEffect DEF FetchTest
  <2>5. Pushed' = Pushed
    BY <1>7, <2>3, <2>4 DEF Pushed
  <2>6. Stream'
    BY <1>1, <1>5, <2>4, <2>5, StreamKept
  <2>7. ReadPlace'
    BY <1>1, <1>5, <2>1, <2>4, LoadedKept DEF ReadPlace
  <2>. QED  BY <2>6, <2>7
<1>13. CASE SetDrq
  <2>1. /\ core1.at = "fetch_drq" /\ core1'.at = "idle"
        /\ UNCHANGED <<lba, remaining, active, fetch, buf, dmaB, tx, sd>>
    BY <1>4, <1>13, AtEffect DEF SetDrq
  <2>2. Stream'
    BY <1>1, <1>5, <1>6, <2>1, StreamKept
  <2>3. ReadPlace'
    BY <1>1, <1>5, <2>1, LoadedKept DEF ReadPlace
  <2>. QED  BY <2>2, <2>3
<1>14. CASE EndStatus
  <2>1. /\ core1.at = "fail_status" /\ core1'.at = "end_dir" /\ status' = Failed
        /\ UNCHANGED <<lba, remaining, active, fetch, buf, dmaB, tx, sd>>
    BY <1>4, <1>14, AtEffect DEF EndStatus
  <2>2. Stream'
    BY <1>1, <1>5, <1>6, <2>1, StreamKept
  <2>3. ReadPlace'
    BY <1>1, <1>5, <2>1, StatusValues DEF ReadPlace
  <2>. QED  BY <2>2, <2>3
<1>15. CASE EndDir
  <2>1. /\ core1'.at = "idle"
        /\ UNCHANGED <<lba, remaining, active, fetch, status, buf, dmaB, tx, sd>>
    BY <1>15, AtEffect DEF EndDir
  <2>2. Stream'
    BY <1>1, <1>5, <1>6, <2>1, StreamKept
  <2>3. ReadPlace'
    BY <1>1, <1>5, <2>1, LoadedKept DEF ReadPlace
  <2>. QED  BY <2>2, <2>3
<1>16. CASE FlushTake \/ FlushArgs \/ SdWriteOk \/ SdWriteFail \/ FlushCount \/ FlushArm
  BY <1>4, <1>16 DEF FlushTake, FlushArgs, SdWriteOk, SdWriteFail, FlushCount, FlushArm
<1>17. CASE DmaBMove
  <2>1. dmaB.left > 0 /\ UNCHANGED <<lba, remaining, active, fetch, status, buf, core1, sd>>
    BY <1>17 DEF DmaBMove
  <2>2. Loaded /\ dmaB.buf = active
    <3>1. CASE Sending
      BY <3>1 DEF Sending, ReadPlace
    <3>2. CASE Fetching
      <4>1. core1.at = "fetch_drq"
        BY <1>7, <2>1, <3>2 DEF Fetching
      <4>. QED  BY <3>2, <4>1 DEF Fetching, ReadPlace
    <3>3. ~ReadOver
      BY <2>1 DEF ReadOver
    <3>. QED  BY <1>4, <3>1, <3>2, <3>3
  <2>3. Stream'
    BY <1>2, <1>4, <1>17, <2>2, StreamPush
  <2>4. ReadPlace'
    BY <1>1, <1>5, <2>1, LoadedKept DEF ReadPlace
  <2>. QED  BY <2>3, <2>4
<1>18. CASE DmaBIrq
  <2>1. /\ dmaB.irq /\ ~dmaB'.irq /\ dmaB'.left = dmaB.left
        /\ remaining' = remaining - 1 /\ lba' = (lba + 1) % LbaMod
        /\ UNCHANGED <<buf, tx, core1, sd>>
    BY <1>18, IrqEffect DEF DmaBIrq
  <2>2. Sending
    BY <1>4, <2>1 DEF Fetching, ReadOver
  <2>3. dmaB.left = 0 /\ status = StDrq /\ core1.at = "idle" /\ ~fetch.need
    BY <2>1, <2>2 DEF Sending
  <2>4. Pushed = Words /\ Pushed' = 0 /\ Done' = Done + 1 /\ Done \in Int
    BY <1>1, <1>2, <1>7, <2>1, <2>3 DEF Pushed, Done
  <2>5. Stream'
    <3>1. Words * (Done + 1) = Words * Done + Words
      BY <1>7, <2>4
    <3>2. Words * Done' + Pushed' = Words * Done + Pushed
      BY <1>7, <2>4, <3>1
    <3>3. \A i, w : Right(i, w)' <=> Right(i, w')
      BY <1>1, <2>1 DEF Right, Expected
    <3>. QED  BY <1>1, <2>1, <3>2, <3>3 DEF Stream
  <2>6. call.op = "read" => lba' = lba + 1 /\ lba + 1 <= Capacity
    <3>1. SUFFICES ASSUME call.op = "read"
                   PROVE  lba' = lba + 1 /\ lba + 1 <= Capacity
      OBVIOUS
    <3>2. lba \in Lbas
      BY <2>3, <3>1 DEF ReadPlace, Loaded
    <3>3. lba \in Nat /\ lba + 1 <= Capacity /\ LbaMod > Capacity /\ LbaMod \in Nat /\ Capacity \in Nat
      BY <3>2, SizesAssumption DEF Lbas
    <3>4. (lba + 1) % LbaMod = lba + 1
      BY <3>3
    <3>. QED  BY <2>1, <3>3, <3>4
  <2>7. status' # StDrq
    BY <1>18, <2>3, StatusHelpers, StatusValues DEF DmaBIrq
  <2>8. fetch'.need => fetch'.lba = lba'
    BY <1>18, <2>1, <2>3 DEF DmaBIrq
  <2>9. call.op = "read" => lba' = call'.lba + Done'
    <3>1. SUFFICES ASSUME call.op = "read"
                   PROVE  lba + 1 = call.lba + (Done + 1)
      BY <1>1, <2>4, <2>6
    <3>2. lba = call.lba + Done /\ call.lba \in Int
      BY <3>1 DEF ReadPlace, HostTypes
    <3>. QED  BY <2>4, <3>2
  <2>10. ReadPlace'
    BY <1>1, <2>1, <2>3, <2>6, <2>7, <2>8, <2>9 DEF ReadPlace
  <2>. QED  BY <2>5, <2>10
<1>19. CASE DmaCMove
  BY <1>4, <1>19 DEF DmaCMove
<1>20. CASE DmaCIrq
  BY <1>4, <1>20 DEF DmaCIrq
<1>. QED
  BY <1>8, <1>9, <1>10, <1>11, <1>12, <1>13, <1>14, <1>15, <1>16, <1>17, <1>18, <1>19, <1>20
     DEF FirmwareStep, Core1, Dma, Irq
-----------------------------------------------------------------------------
(* The words of a write.                                                   *)

LEMMA StoredKept ==
  ASSUME Stored, UNCHANGED <<call, sd>>, Done' = Done
  PROVE  Stored'
BY DEF Stored, Want

\* The sector underway lies behind the ones already stored.
LEMMA StoredBelow ==
  ASSUME Stored, call.lba \in Int, Done \in Int, Done' = Done, call' = call,
         NEW x, sd' = [sd EXCEPT ![call.lba + Done] = x]
  PROVE  Stored'
<1>1. SUFFICES ASSUME NEW s \in 0 .. Done - 1
               PROVE  call.lba + s \in Lbas /\ sd'[call.lba + s] = Want(s)
  BY DEF Stored, Want
<1>2. call.lba + s # call.lba + Done
  OBVIOUS
<1>. QED  BY <1>2 DEF Stored

\* DMA_C stores the word that comes next.
LEMMA TakeMove ==
  ASSUME WorkInv, TakeData, Taking, DmaCMove, UNCHANGED hostVars
  PROVE  TakeData'
<1>. USE DEF WorkInv
<1>1. /\ Words \in Nat /\ dmaC.left \in 0 .. Words
  BY Numbers
<1>2. /\ rx \in Seq(WordSet) /\ buf \in [Buffers -> [1 .. Words -> WordSet]] /\ remaining \in Int
  BY DEF FirmwareTypes
<1>3. /\ dmaC.left > 0 /\ dmaC'.left = dmaC.left - 1 /\ rx # <<>> /\ rx' = Tail(rx)
      /\ UNCHANGED <<lba, remaining, status, flush, core1, call>>
  BY MoveEffect DEF DmaCMove, hostVars
<1>4. Done' = Done
  BY <1>3 DEF Done, Sectors
<1>5. core1.at = "idle" /\ ~flush.need /\ status \notin Over
  BY StatusValues DEF Taking, Over
<1>. DEFINE k == Words - dmaC.left
            W == Want(Done)
<1>6. /\ lba = call.lba + Done
      /\ \A i \in 1 .. k : buf[0][i] = W[i]
      /\ \A i \in 1 .. Len(rx) : rx[i] = W[k + i]
  BY <1>5 DEF TakeData
<1>7. k \in Nat /\ k + 1 \in 1 .. Words /\ Words - dmaC'.left = k + 1
  BY <1>1, <1>3
<1>8. /\ Head(rx) \in WordSet /\ Head(rx) = rx[1] /\ 1 \in 1 .. Len(rx)
      /\ Len(rx') = Len(rx) - 1 /\ Len(rx) \in Nat
      /\ \A i \in 1 .. Len(rx) - 1 : rx'[i] = rx[i + 1]
  BY <1>2, <1>3
<1>9. buf' = [buf EXCEPT ![0][k + 1] = Head(rx)]
  BY <1>8, SwapTwice DEF DmaCMove
<1>10. Want(Done)' = W
  BY <1>3, <1>4 DEF Want
<1>. HIDE DEF k, W
<1>11. Head(rx) = W[k + 1]
  BY <1>6, <1>8
<1>12. /\ buf'[0][k + 1] = Head(rx)
       /\ \A i \in 1 .. k : buf'[0][i] = buf[0][i]
  <2>1. 0 \in DOMAIN buf /\ DOMAIN buf[0] = 1 .. Words
    BY <1>2 DEF Buffers
  <2>2. \A i \in 1 .. k : i \in 1 .. Words /\ i # k + 1
    BY <1>1, <1>7
  <2>. QED  BY <1>7, <1>9, <2>1, <2>2
<1>13. \A i \in 1 .. k + 1 : buf'[0][i] = W[i]
  <2>1. \A i \in 1 .. k + 1 : i \in 1 .. k \/ i = k + 1
    BY <1>7
  <2>. QED  BY <1>6, <1>11, <1>12, <2>1
<1>14. \A i \in 1 .. Len(rx') : rx'[i] = W[(k + 1) + i]
  <2>1. SUFFICES ASSUME NEW i \in 1 .. Len(rx')
                 PROVE  rx'[i] = W[(k + 1) + i]
    OBVIOUS
  <2>2. i \in 1 .. Len(rx) - 1 /\ i + 1 \in 1 .. Len(rx) /\ k + (i + 1) = (k + 1) + i
    BY <1>7, <1>8
  <2>. QED  BY <1>6, <1>8, <2>2
<1>15. lba' = call'.lba + Done'
  BY <1>3, <1>4, <1>6
<1>. QED  BY <1>7, <1>10, <1>13, <1>14, <1>15 DEF TakeData

LEMMA WriteDataFirmware ==
  ASSUME WorkInv, Stored, TakeData, FlushData, WriteEnded, call.op = "write", FirmwareStep,
         UNCHANGED hostVars
  PROVE  Stored' /\ TakeData' /\ FlushData' /\ WriteEnded'
<1>. USE DEF WorkInv
<1>1. /\ UNCHANGED <<pc, call, sector, got, word, result, setting>> /\ Sectors' = Sectors
  BY DEF hostVars, Sectors
<1>2. /\ Sectors \in Nat /\ call.lba \in Nat /\ call.count = Sectors
      /\ call.data \in [1 .. Sectors -> Data]
  BY SectorsType DEF Served, HostTypes, Sectors
<1>3. /\ ~fetch.need /\ dmaB.left = 0 /\ ~dmaB.irq /\ remaining \in 0 .. Sectors
      /\ Taking \/ Flushing \/ WriteOver
      /\ Done \in Int
  BY <1>2 DEF DriveInv, WritePhase, Done
<1>4. core1.at \in {"idle", "flush_args", "sd_write", "flush_count", "flush_arm",
                    "flush_drq", "idle_status", "fail_status", "end_dir"}
  BY <1>3 DEF Taking, Flushing, WriteOver
<1>5. /\ remaining' = remaining => Done' = Done
      /\ \A s : Want(s)' = Want(s')
  BY <1>1 DEF Done, Want
<1>6. /\ Words \in Nat /\ dmaC.left \in 0 .. Words /\ dmaC.irq \in BOOLEAN /\ remaining \in Int
      /\ buf \in [Buffers -> [1 .. Words -> WordSet]] /\ sd \in [Lbas -> [1 .. Words -> WordSet]]
  BY Numbers DEF FirmwareTypes
<1>7. StBusy \notin Over /\ StDrq \notin Over
  BY StatusValues DEF Over
<1>8. status' = status => WriteEnded'
  BY <1>1 DEF WriteEnded
<1>9. status' \in Over \/ status \notin Over => WriteEnded'
  BY <1>1 DEF WriteEnded
<1>10. CASE FetchTake \/ FetchArgs \/ SdReadOk \/ SdReadFail \/ FetchTest
  BY <1>3, <1>4, <1>10 DEF FetchTake, FetchArgs, SdReadOk, SdReadFail, FetchTest
<1>11. CASE FlushTake
  <2>1. /\ core1.at = "idle" /\ flush.need /\ ~flush'.need /\ flush'.lba = flush.lba
        /\ core1'.at = "flush_args" /\ UNCHANGED <<remaining, status, buf, sd>>
    BY <1>11, NeedEffect, AtEffect DEF FlushTake
  <2>2. Stored' /\ WriteEnded'
    BY <1>1, <1>5, <1>8, <2>1, StoredKept
  <2>3. TakeData'
    BY <2>1 DEF TakeData
  <2>4. FlushData'
    BY <1>1, <1>5, <2>1 DEF FlushData
  <2>. QED  BY <2>2, <2>3, <2>4
<1>12. CASE FlushArgs
  <2>1. /\ core1.at = "flush_args" /\ core1'.at = "sd_write" /\ core1'.lba = flush.lba
        /\ UNCHANGED <<remaining, flush, status, buf, sd>>
    BY <1>12 DEF FlushArgs
  <2>2. Stored' /\ WriteEnded'
    BY <1>1, <1>5, <1>8, <2>1, StoredKept
  <2>3. TakeData'
    BY <2>1 DEF TakeData
  <2>4. Flushing
    BY <1>3, <2>1 DEF Taking, WriteOver
  <2>5. FlushData'
    BY <1>1, <1>5, <2>1, <2>4 DEF FlushData, Flushing
  <2>. QED  BY <2>2, <2>3, <2>5
<1>13. CASE SdWriteOk \/ SdWriteFail
  <2>1. /\ core1.at = "sd_write" /\ core1'.lba = core1.lba
        /\ UNCHANGED <<remaining, flush, status, buf>>
        /\ \/ core1'.at = "fail_status" /\ sd' = sd
           \/ /\ core1'.at \in {"fail_status", "flush_count"} /\ core1.lba \in Lbas
              /\ sd' = [sd EXCEPT ![core1.lba] = buf[core1.buf]]
    BY <1>13, AtEffect DEF SdWriteOk, SdWriteFail
  <2>2. Flushing
    BY <1>3, <2>1 DEF Taking, WriteOver
  <2>3. core1.lba = call.lba + Done /\ core1.buf = 0 /\ buf[0] = Want(Done) /\ ~flush.need
    BY <2>1, <2>2 DEF FlushData, Flushing
  <2>4. Stored'
    <3>1. CASE sd' = sd
      BY <1>1, <1>5, <2>1, <3>1, StoredKept
    <3>2. CASE sd' = [sd EXCEPT ![core1.lba] = buf[core1.buf]]
      <4>1. sd' = [sd EXCEPT ![call.lba + Done] = buf[0]]
        BY <2>3, <3>2
      <4>2. call.lba \in Int /\ Done \in Int /\ Done' = Done /\ call' = call
        BY <1>1, <1>2, <1>3, <1>5, <2>1
      <4>. QED  BY <4>1, <4>2, StoredBelow
    <3>. QED  BY <2>1, <3>1, <3>2
  <2>5. TakeData'
    BY <2>1 DEF TakeData
  <2>6. core1'.at = "flush_count" => core1'.lba \in Lbas /\ sd'[core1'.lba] = Want(Done)
    BY <1>6, <2>1, <2>3
  <2>7. FlushData'
    BY <1>1, <1>5, <2>1, <2>3, <2>6 DEF FlushData
  <2>. QED  BY <1>8, <2>1, <2>4, <2>5, <2>7
<1>14. CASE FlushCount
  <2>1. /\ core1.at = "flush_count" /\ core1'.at \in {"idle_status", "flush_arm"}
        /\ core1'.lba = core1.lba /\ remaining' = remaining - 1
        /\ UNCHANGED <<flush, status, buf, sd>>
    BY <1>14, AtEffect DEF FlushCount
  <2>2. Flushing
    BY <1>3, <2>1 DEF Taking, WriteOver
  <2>3. /\ ~flush.need /\ core1.lba = call.lba + Done
        /\ core1.lba \in Lbas /\ sd[core1.lba] = Want(Done)
    BY <2>1, <2>2 DEF FlushData, Flushing
  <2>4. Done' = Done + 1
    BY <1>1, <1>2, <1>6, <2>1 DEF Done
  <2>5. Stored'
    <3>1. SUFFICES ASSUME NEW s \in 0 .. Done
                   PROVE  call.lba + s \in Lbas /\ sd[call.lba + s] = Want(s)
      BY <1>1, <1>3, <1>5, <2>1, <2>4 DEF Stored, Want
    <3>2. CASE s = Done
      BY <2>3, <3>2
    <3>3. CASE s # Done
      <4>1. s \in 0 .. Done - 1
        BY <1>3, <3>3
      <4>. QED  BY <4>1 DEF Stored
    <3>. QED  BY <3>2, <3>3
  <2>6. TakeData'
    BY <2>1 DEF TakeData
  <2>7. core1.lba + 1 = call.lba + Done'
    BY <1>2, <1>3, <2>3, <2>4
  <2>8. FlushData'
    BY <1>1, <2>1, <2>3, <2>7 DEF FlushData
  <2>. QED  BY <1>8, <2>1, <2>5, <2>6, <2>8
<1>15. CASE FlushArm
  <2>1. /\ core1.at = "flush_arm" /\ core1'.at = "flush_drq" /\ lba' = (core1.lba + 1) % LbaMod
        /\ UNCHANGED <<remaining, flush, status, buf, sd>>
    BY <1>15, AtEffect DEF FlushArm
  <2>2. Flushing
    BY <1>3, <2>1 DEF Taking, WriteOver
  <2>3. ~flush.need /\ core1.lba \in Lbas /\ core1.lba + 1 = call.lba + Done
    BY <2>1, <2>2 DEF FlushData, Flushing
  <2>4. lba' = call.lba + Done
    <3>1. core1.lba + 1 \in Nat /\ core1.lba + 1 < LbaMod /\ LbaMod \in Nat
      BY <2>3, SizesAssumption DEF Lbas
    <3>2. (core1.lba + 1) % LbaMod = core1.lba + 1
      BY <3>1
    <3>. QED  BY <2>1, <2>3, <3>2
  <2>5. Stored' /\ WriteEnded'
    BY <1>1, <1>5, <1>8, <2>1, StoredKept
  <2>6. TakeData'
    BY <2>1 DEF TakeData
  <2>7. FlushData'
    BY <1>1, <1>5, <2>1, <2>3, <2>4 DEF FlushData
  <2>. QED  BY <2>5, <2>6, <2>7
<1>16. CASE SetDrq
  <2>1. /\ core1.at = "flush_drq" /\ core1'.at = "idle"
        /\ UNCHANGED <<lba, remaining, flush, buf, dmaC, rx, sd>>
    BY <1>4, <1>16, AtEffect DEF SetDrq
  <2>2. Flushing
    BY <1>3, <2>1 DEF Taking, WriteOver
  <2>3. status = StBusy /\ dmaC.left = Words /\ rx = <<>> /\ ~flush.need
    BY <2>1, <2>2 DEF Flushing
  <2>4. Stored' /\ WriteEnded'
    BY <1>1, <1>5, <1>7, <1>9, <2>1, <2>3, StoredKept
  <2>5. lba = call.lba + Done
    BY <2>1 DEF FlushData
  <2>6. /\ \A i \in 1 .. Words - dmaC'.left : FALSE
        /\ \A i \in 1 .. Len(rx') : FALSE
    BY <1>6, <2>1, <2>3
  <2>7. TakeData'
    BY <1>1, <1>5, <2>1, <2>5, <2>6 DEF TakeData
  <2>8. FlushData'
    BY <2>1, <2>3 DEF FlushData
  <2>. QED  BY <2>4, <2>7, <2>8
<1>17. CASE EndStatus
  <2>1. /\ core1.at \in {"idle_status", "fail_status"} /\ core1'.at = "end_dir" /\ status' \in Over
        /\ UNCHANGED <<remaining, flush, buf, sd>>
    BY <1>17, AtEffect DEF EndStatus, Over
  <2>2. Flushing
    BY <1>3, <2>1 DEF Taking, WriteOver
  <2>3. Stored' /\ WriteEnded'
    BY <1>1, <1>5, <1>9, <2>1, StoredKept
  <2>4. TakeData'
    BY <2>1 DEF TakeData
  <2>5. FlushData'
    BY <2>1, <2>2 DEF FlushData, Flushing
  <2>. QED  BY <2>3, <2>4, <2>5
<1>18. CASE EndDir
  <2>1. /\ core1.at = "end_dir" /\ core1'.at = "idle"
        /\ UNCHANGED <<remaining, flush, status, buf, sd>>
    BY <1>18, AtEffect DEF EndDir
  <2>2. WriteOver
    BY <1>3, <2>1 DEF Taking, Flushing
  <2>3. Stored' /\ WriteEnded'
    BY <1>1, <1>5, <1>8, <2>1, StoredKept
  <2>4. TakeData'
    BY <2>1, <2>2 DEF TakeData, WriteOver
  <2>5. FlushData'
    BY <2>1, <2>2 DEF FlushData, WriteOver
  <2>. QED  BY <2>3, <2>4, <2>5
<1>19. CASE DmaBMove \/ DmaBIrq
  BY <1>3, <1>19 DEF DmaBMove, DmaBIrq
<1>20. CASE DmaCMove
  <2>1. dmaC.left > 0 /\ rx # <<>> /\ UNCHANGED <<remaining, flush, status, core1, sd>>
    BY <1>20 DEF DmaCMove
  <2>2. Taking
    BY <1>3, <2>1 DEF Flushing, WriteOver
  <2>3. Stored' /\ WriteEnded'
    BY <1>1, <1>5, <1>8, <2>1, StoredKept
  <2>4. TakeData'
    BY <1>20, <2>2, TakeMove
  <2>5. FlushData'
    BY <2>1, <2>2 DEF FlushData, Taking
  <2>. QED  BY <2>3, <2>4, <2>5
<1>21. CASE DmaCIrq
  <2>1. /\ dmaC.irq /\ flush'.need /\ flush'.lba = lba /\ status' = Busy(status)
        /\ UNCHANGED <<remaining, buf, core1, sd>>
    BY <1>21 DEF DmaCIrq
  <2>2. Taking
    BY <1>3, <2>1 DEF Flushing, WriteOver
  <2>3. dmaC.left = 0 /\ core1.at = "idle" /\ ~flush.need /\ status \notin Over
    BY <1>7, <2>1, <2>2 DEF Taking
  <2>4. Stored' /\ WriteEnded'
    BY <1>1, <1>5, <1>9, <2>1, <2>3, StoredKept
  <2>5. TakeData'
    BY <2>1 DEF TakeData
  <2>6. buf[0] = Want(Done)
    <3>1. \A i \in 1 .. Words : buf[0][i] = Want(Done)[i]
      BY <1>6, <2>3 DEF TakeData
    <3>2. buf[0] \in [1 .. Words -> WordSet]
      BY <1>6 DEF Buffers
    <3>3. Want(Done) = [i \in 1 .. Words |-> Want(Done)[i]]
      BY DEF Want, Sector
    <3>. QED  BY <3>1, <3>2, <3>3
  <2>7. lba = call.lba + Done
    BY <2>3 DEF TakeData
  <2>8. FlushData'
    BY <1>1, <1>5, <2>1, <2>3, <2>6, <2>7 DEF FlushData
  <2>. QED  BY <2>4, <2>5, <2>8
<1>. QED
  BY <1>10, <1>11, <1>12, <1>13, <1>14, <1>15, <1>16, <1>17, <1>18, <1>19, <1>20, <1>21
     DEF FirmwareStep, Core1, Dma, Irq
-----------------------------------------------------------------------------
(* The driver and the words.                                               *)

\* A write that returns ATA_OK has left the drive with its command over.
LEMMA WriteEndShown ==
  ASSUME WorkInv, WaitEnd, "BSY" \notin StatusShown
  PROVE  status' \in Over
<1>. USE DEF WorkInv
<1>1. /\ StatusCycle /\ pc = "wait_end"
      /\ DmaSettled
  BY DEF WaitEnd, StatusCycle, RegisterIrqTaken
<1>2. /\ status' = status /\ StatusShown = status
      /\ ~(dir = "WRITE" /\ status = StDrq /\ dmaC.left = 0)
  BY <1>1, ShownEffect, StatusValues
<1>3. call.op = "write" /\ sector = Sectors
  BY <1>1 DEF HostInv
<1>4. Sectors \in Nat /\ remaining \in Int
  BY <1>3, SectorsType DEF Served, FirmwareTypes
<1>5. status # StBusy
  BY <1>2, StatusValues
<1>6. Taking \/ WriteOver
  BY <1>3, <1>5 DEF DriveInv, WritePhase, Flushing
<1>7. ~Taking
  <2>1. SUFFICES ASSUME Taking
                 PROVE  FALSE
    OBVIOUS
  <2>2. dmaC.left # 0 /\ remaining >= 1
    BY <1>2, <1>5, <2>1 DEF Taking
  <2>3. rx = <<>>
    BY <1>1, <2>2 DEF DmaSettled
  <2>4. Len(rx) = 0 /\ dmaC.left \in Int
    BY <2>3, Numbers
  <2>5. sector = Done
    BY <2>1, <2>2, <2>4 DEF Taking
  <2>. QED  BY <1>3, <1>4, <2>2, <2>5 DEF Done
<1>. QED  BY <1>2, <1>6, <1>7 DEF WriteOver

LEMMA WaitData ==
  ASSUME WorkInv, DataInv,
         \/ AtaInit \/ SelectDrive \/ WaitIdle \/ WaitBsy \/ WaitEnd \/ BeginCall \/ TimeOut
         \/ Reset \/ WaitDrq \/ UNCHANGED vars
  PROVE  DataInv'
<1>. USE DEF WorkInv
<1>1. UNCHANGED <<call, sector, got, word, setting>>
  BY DEF AtaInit, SelectDrive, WaitIdle, WaitBsy, WaitEnd, BeginCall, TimeOut, Reset, WaitDrq,
         vars, hostVars
<1>2. StatusCycle \/ UNCHANGED fwVars
  BY DEF AtaInit, SelectDrive, WaitIdle, WaitBsy, WaitEnd, BeginCall, TimeOut, Reset, WaitDrq,
         vars
<1>3. /\ UNCHANGED <<dir, lba, remaining, active, fetch, flush, buf, dmaB, dmaC, tx, rx, core1, sd>>
      /\ \/ status' = status
         \/ call.op = "write" /\ Taking /\ status = StDrq /\ dmaC.irq /\ status' = StBusy
  <2>1. CASE StatusCycle
    BY <2>1, ShownEffect
  <2>2. CASE UNCHANGED fwVars
    BY <2>2 DEF fwVars
  <2>. QED  BY <1>2, <2>1, <2>2
<1>4. Done' = Done /\ Pushed' = Pushed /\ (Served' <=> Served)
  BY <1>1, <1>3 DEF Done, Pushed, Served, Sectors
<1>5. StBusy \notin Over /\ StDrq \notin Over
  BY StatusValues DEF Over
<1>6. ASSUME Served, call.op # "write"
      PROVE  Stream' /\ ReadPlace'
  <2>1. Stream /\ ReadPlace
    BY <1>6 DEF DataInv
  <2>2. Stream'
    BY <1>1, <1>3, <1>4, <2>1, StreamKept
  <2>3. Loaded => Loaded'
    BY <1>1, <1>3, LoadedKept
  <2>4. ReadPlace'
    BY <1>1, <1>3, <1>4, <1>6, <2>1, <2>3 DEF ReadPlace
  <2>. QED  BY <2>2, <2>4
<1>7. ASSUME call.op = "write"
      PROVE  Stored' /\ TakeData' /\ FlushData' /\ WriteEnded'
  <2>1. Stored /\ TakeData /\ FlushData /\ WriteEnded
    BY <1>7 DEF DataInv
  <2>2. Stored'
    BY <1>1, <1>3, <1>4, <2>1, StoredKept
  <2>3. \A s : Want(s)' = Want(s')
    BY <1>1 DEF Want
  <2>4. TakeData'
    BY <1>1, <1>3, <1>4, <1>5, <2>1, <2>3 DEF TakeData
  <2>5. FlushData'
    BY <1>1, <1>3, <1>4, <2>1, <2>3 DEF FlushData
  <2>6. WriteEnded'
    <3>1. CASE AtaInit \/ SelectDrive \/ WaitIdle \/ WaitBsy \/ BeginCall \/ TimeOut \/ Reset \/ WaitDrq
      BY <2>1, <3>1
         DEF WriteEnded, AtaInit, SelectDrive, WaitIdle, WaitBsy, BeginCall, TimeOut, Reset,
             WaitDrq, Return
    <3>2. CASE WaitEnd
      BY <3>2, WriteEndShown DEF WriteEnded, WaitEnd, Return
    <3>3. CASE UNCHANGED vars
      BY <2>1, <3>3 DEF WriteEnded, vars, hostVars, fwVars
    <3>. QED  BY <3>1, <3>2, <3>3
  <2>. QED  BY <2>2, <2>4, <2>5, <2>6
<1>8. ~Served' \/ call'.op = "write" => got' = <<>>
  BY <1>1, <1>4 DEF DataInv
<1>. QED  BY <1>1, <1>4, <1>6, <1>7, <1>8 DEF DataInv

LEMMA ReadCommandData ==
  ASSUME WorkInv, ReadCommand
  PROVE  DataInv'
<1>. USE DEF WorkInv
<1>1. PICK l \in 0 .. Capacity, n \in 1 .. CountMax - 1 : Issue("read", l, n, <<>>)
  BY DEF ReadCommand
<1>2. /\ call'.op = "read" /\ call'.lba = l /\ call'.count = n /\ got' = <<>>
      /\ DispatchCommand("read") /\ UNCHANGED core1
      /\ CurrentLba(regs') = l /\ regs'.count = n
  BY <1>1, IssueEffect
<1>3. CountMax \in Nat /\ Capacity \in Nat /\ Words \in Nat /\ n \in Nat /\ n >= 1 /\ l \in Nat
  BY SizesAssumption
<1>4. SectorCount(regs') = n
  BY <1>2, <1>3 DEF SectorCount
<1>5. core1.at = "idle"
  BY DEF ReadCommand, HostInv, Rest
<1>6. BeginReadSequence
  BY <1>2 DEF DispatchCommand
<1>7. /\ status' = StBusy /\ remaining' = n /\ lba' = l /\ fetch'.lba = l
      /\ dmaB'.left = 0 /\ ~dmaB'.irq /\ tx' = <<>>
  BY <1>2, <1>4, <1>6, ArmEffect DEF BeginReadSequence, Start, ClearFifos, StBusy
<1>8. Done' = 0 /\ Pushed' = 0 /\ Served'
  BY <1>2, <1>3, <1>7 DEF Sectors, Done, Pushed, Served
<1>9. Stream'
  <2>1. Len(got') = 0 /\ Len(tx') = 0
    BY <1>2, <1>7
  <2>2. Words * Done' + Pushed' = 0
    BY <1>3, <1>8
  <2>3. \A i \in 1 .. 0 : FALSE
    OBVIOUS
  <2>. QED  BY <2>1, <2>2, <2>3 DEF Stream
<1>10. ReadPlace'
  BY <1>2, <1>3, <1>5, <1>7, <1>8, StatusValues DEF ReadPlace
<1>. QED  BY <1>2, <1>8, <1>9, <1>10 DEF DataInv

LEMMA WriteCommandData ==
  ASSUME WorkInv, WriteCommand
  PROVE  DataInv'
<1>. USE DEF WorkInv
<1>1. PICK l \in 0 .. Capacity, n \in 1 .. CountMax - 1 :
        \E d \in [1 .. n -> Data] : Issue("write", l, n, d)
  BY DEF WriteCommand
<1>2. PICK d \in [1 .. n -> Data] : Issue("write", l, n, d)
  BY <1>1
<1>3. /\ call'.op = "write" /\ call'.lba = l /\ call'.count = n /\ got' = <<>>
      /\ DispatchCommand("write") /\ UNCHANGED <<flush, core1>>
      /\ CurrentLba(regs') = l /\ regs'.count = n
  BY <1>2, IssueEffect
<1>4. CountMax \in Nat /\ Capacity \in Nat /\ Words \in Nat /\ n \in Nat /\ n >= 1 /\ l \in Nat
  BY SizesAssumption
<1>5. SectorCount(regs') = n
  BY <1>3, <1>4 DEF SectorCount
<1>6. core1.at = "idle" /\ ~flush.need /\ pc' = "wait_bsy"
  BY DEF WriteCommand, HostInv, Rest
<1>7. BeginWriteSequence
  BY <1>3 DEF DispatchCommand
<1>8. remaining' = n /\ lba' = l /\ dmaC'.left = Words /\ rx' = <<>>
  BY <1>3, <1>5, <1>7 DEF BeginWriteSequence, Start, ClearFifos
<1>9. Done' = 0
  BY <1>3, <1>4, <1>8 DEF Sectors, Done
<1>10. \A i \in 1 .. 0 : FALSE
  OBVIOUS
<1>11. Stored'
  <2>1. \A s \in 0 .. Done' - 1 : FALSE
    BY <1>9
  <2>. QED  BY <2>1 DEF Stored
<1>12. TakeData'
  <2>1. Len(rx') = 0 /\ Words - dmaC'.left = 0 /\ lba' = call'.lba + Done'
    BY <1>3, <1>4, <1>8, <1>9
  <2>. QED  BY <1>10, <2>1 DEF TakeData
<1>13. FlushData' /\ WriteEnded'
  BY <1>3, <1>6 DEF FlushData, WriteEnded
<1>. QED  BY <1>3, <1>11, <1>12, <1>13 DEF DataInv

LEMMA OtherCommandData ==
  ASSUME WorkInv, IdentifyCommand \/ RawCommand
  PROVE  DataInv'
<1>. USE DEF WorkInv
<1>1. Capacity \in Nat /\ Words \in Nat /\ Words > 0 /\ 0 \in 0 .. Capacity
  BY SizesAssumption
<1>2. PICK op \in {"identify", "diagnostic", "nop", "unknown"} : Issue(op, 0, 0, <<>>)
  BY DEF IdentifyCommand, RawCommand
<1>3. /\ call'.op = op /\ got' = <<>> /\ setting' = setting
      /\ DispatchCommand(op) /\ UNCHANGED core1
  BY <1>1, <1>2, IssueEffect
<1>4. core1.at = "idle" /\ ~fetch.need
  BY DEF IdentifyCommand, RawCommand, HostInv, Rest
<1>5. CASE ~Served'
  BY <1>2, <1>3, <1>5 DEF DataInv
<1>6. CASE Served'
  <2>1. op = "identify" /\ setting.sizeKnown
    BY <1>2, <1>3, <1>6 DEF Served
  <2>2. /\ remaining' = 1 /\ active' = 0 /\ fetch' = fetch
        /\ dmaB'.left = Words /\ ~dmaB'.irq /\ tx' = <<>>
        /\ buf' = [buf EXCEPT ![0] = Identity]
    BY <1>3, <2>1 DEF DispatchCommand, BeginIdentify, ClearFifos
  <2>3. Done' = 0 /\ Pushed' = 0
    BY <1>1, <1>3, <2>1, <2>2 DEF Sectors, Done, Pushed
  <2>4. Stream'
    <3>1. Len(got') = 0 /\ Len(tx') = 0
      BY <1>3, <2>2
    <3>2. Words * Done' + Pushed' = 0
      BY <1>1, <2>3
    <3>3. \A i \in 1 .. 0 : FALSE
      OBVIOUS
    <3>. QED  BY <3>1, <3>2, <3>3 DEF Stream
  <2>5. buf'[0] = Identity
    <3>1. 0 \in DOMAIN buf
      BY DEF FirmwareTypes, Buffers
    <3>. QED  BY <2>2, <3>1
  <2>6. Loaded'
    BY <1>3, <2>1, <2>2, <2>5 DEF Loaded
  <2>7. ReadPlace'
    BY <1>3, <1>4, <2>1, <2>2, <2>6 DEF ReadPlace
  <2>. QED  BY <1>3, <2>1, <2>4, <2>7 DEF DataInv
<1>. QED  BY <1>5, <1>6

LEMMA ReadTransferData ==
  ASSUME WorkInv, DataInv, ReadTransfer
  PROVE  DataInv'
<1>. USE DEF WorkInv
<1>1. /\ pc = "transfer" /\ call.op # "write" /\ tx # <<>> /\ tx' = Tail(tx)
      /\ got' = Append(got, <<Head(tx)[1], Head(tx)[2]>>)
      /\ UNCHANGED <<lba, remaining, active, fetch, status, buf, dmaB, core1, sd, call, setting>>
  BY DEF ReadTransfer, ReadWord
<1>2. Served
  BY <1>1 DEF DriveInv, Unserved
<1>3. Stream /\ ReadPlace
  BY <1>1, <1>2 DEF DataInv
<1>4. tx \in Seq(WordSet) /\ got \in Seq(WordSet)
  BY DEF FirmwareTypes, HostTypes
<1>5. got' = Append(got, Head(tx))
  <2>1. Head(tx) \in WordSet
    BY <1>1, <1>4
  <2>. QED  BY <1>1, <2>1, SwapTwice
<1>6. Done' = Done /\ Pushed' = Pushed /\ Served'
  BY <1>1, <1>2 DEF Sectors, Done, Pushed, Served
<1>7. Stream'
  BY <1>1, <1>3, <1>4, <1>5, <1>6, StreamPop
<1>8. ReadPlace'
  BY <1>1, <1>3, <1>6, LoadedKept DEF ReadPlace
<1>. QED  BY <1>1, <1>6, <1>7, <1>8 DEF DataInv

LEMMA WriteTransferData ==
  ASSUME WorkInv, DataInv, WriteTransfer
  PROVE  DataInv'
<1>. USE DEF WorkInv
<1>1. /\ pc = "transfer" /\ call.op = "write"
      /\ rx' = Append(rx, Want(sector)[word + 1])
      /\ UNCHANGED <<lba, remaining, flush, status, buf, dmaC, core1, sd, call, got, result>>
  BY DEF WriteTransfer, WriteWord, Want, AfterWord
<1>2. pc' \in {"transfer", "wait_bsy", "wait_end"}
  BY <1>1 DEF WriteTransfer, AfterWord
<1>3. Stored /\ TakeData /\ FlushData /\ got = <<>>
  BY <1>1 DEF DataInv
<1>4. Taking
  BY <1>1 DEF DriveInv, WritePhase, Flushing, WriteOver
<1>5. /\ Words \in Nat /\ dmaC.left \in 0 .. Words /\ remaining \in Int /\ sector \in Nat
      /\ word \in 0 .. Words - 1
  BY Numbers
<1>6. rx \in Seq(WordSet) /\ Sectors \in Nat
  BY <1>1, SectorsType DEF FirmwareTypes, Served
<1>7. sector = Done /\ word = Words - dmaC.left + Len(rx)
  BY <1>1, <1>4, <1>5, <1>6 DEF Taking, Done
<1>8. Done' = Done /\ \A s : Want(s)' = Want(s')
  BY <1>1 DEF Sectors, Done, Want
<1>9. Stored'
  BY <1>1, <1>3, <1>8, StoredKept
<1>10. FlushData' /\ WriteEnded'
  BY <1>1, <1>2, <1>3, <1>8 DEF FlushData, WriteEnded
<1>11. TakeData'
  <2>. DEFINE k == Words - dmaC.left
              W == Want(Done)
  <2>1. core1.at = "idle" /\ ~flush.need /\ status \notin Over
    BY <1>4, StatusValues DEF Taking, Over
  <2>2. /\ lba = call.lba + Done
        /\ \A i \in 1 .. k : buf[0][i] = W[i]
        /\ \A i \in 1 .. Len(rx) : rx[i] = W[k + i]
    BY <1>3, <2>1 DEF TakeData
  <2>3. rx' = Append(rx, W[k + Len(rx) + 1]) /\ k \in Int
    BY <1>1, <1>5, <1>7
  <2>4. Want(Done)' = W /\ Words - dmaC'.left = k
    BY <1>1, <1>8
  <2>. HIDE DEF W, k
  <2>5. \A i \in 1 .. Len(rx') : rx'[i] = W[k + i]
    <3>. DEFINE x == W[k + Len(rx) + 1]
    <3>1. rx' = Append(rx, x) /\ x = W[k + Len(rx) + 1]
      BY <2>3
    <3>. HIDE DEF x
    <3>2. /\ Len(rx') = Len(rx) + 1 /\ Len(rx) \in Nat /\ rx'[Len(rx) + 1] = x
          /\ \A i \in 1 .. Len(rx) : rx'[i] = rx[i]
      BY <1>6, <3>1
    <3>3. SUFFICES ASSUME NEW i \in 1 .. Len(rx')
                   PROVE  rx'[i] = W[k + i]
      OBVIOUS
    <3>4. CASE i \in 1 .. Len(rx)
      BY <2>2, <3>2, <3>4
    <3>5. CASE i = Len(rx) + 1
      <4>1. k + Len(rx) + 1 = k + i
        BY <2>3, <3>2, <3>5
      <4>. QED  BY <3>1, <3>2, <3>5, <4>1
    <3>. QED  BY <3>2, <3>3, <3>4, <3>5
  <2>. QED  BY <1>1, <1>8, <2>2, <2>4, <2>5 DEF TakeData
<1>. QED  BY <1>1, <1>3, <1>9, <1>10, <1>11 DEF DataInv
-----------------------------------------------------------------------------
(* The words are right.                                                    *)

LEMMA DataInvInit ==
  ASSUME Init
  PROVE  DataInv
BY DEF Init, DataInv, Served

LEMMA DataInvStep ==
  ASSUME WorkInv, DataInv, [Next]_vars
  PROVE  DataInv'
<1>1. CASE Firmware
  <2>1. FirmwareStep /\ UNCHANGED hostVars
    BY <1>1 DEF Firmware
  <2>2. (Served' <=> Served) /\ call' = call /\ got' = got
    BY <2>1 DEF hostVars, Served
  <2>3. Served /\ call.op # "write" => Stream' /\ ReadPlace'
    BY <2>1, ReadDataFirmware DEF DataInv
  <2>4. call.op = "write" => Stored' /\ TakeData' /\ FlushData' /\ WriteEnded'
    BY <2>1, WriteDataFirmware DEF DataInv
  <2>. QED  BY <2>2, <2>3, <2>4 DEF DataInv
<1>2. CASE \/ AtaInit \/ SelectDrive \/ WaitIdle \/ WaitBsy \/ WaitEnd \/ BeginCall \/ TimeOut
           \/ Reset \/ WaitDrq \/ UNCHANGED vars
  BY <1>2, WaitData
<1>3. CASE ReadCommand
  BY <1>3, ReadCommandData
<1>4. CASE WriteCommand
  BY <1>4, WriteCommandData
<1>5. CASE IdentifyCommand \/ RawCommand
  BY <1>5, OtherCommandData
<1>6. CASE ReadTransfer
  BY <1>6, ReadTransferData
<1>7. CASE WriteTransfer
  BY <1>7, WriteTransferData
<1>. QED  BY <1>1, <1>2, <1>3, <1>4, <1>5, <1>6, <1>7 DEF Next, Driver

LEMMA DataGivesRead ==
  ASSUME DataInv
  PROVE  ReadCorrect
<1>1. CASE ~Served \/ call.op = "write"
  <2>1. got = <<>>
    BY <1>1 DEF DataInv
  <2>2. \A i \in 1 .. Len(got) : FALSE
    BY <2>1
  <2>. QED  BY <2>2 DEF ReadCorrect
<1>2. CASE Served /\ call.op # "write"
  BY <1>2 DEF DataInv, Stream, Right, ReadCorrect
<1>. QED  BY <1>1, <1>2

LEMMA DataGivesDurable ==
  ASSUME WorkInv, DataInv
  PROVE  WriteDurable
<1>. USE DEF WorkInv
<1>1. SUFFICES ASSUME pc = "idle", result = "ok", call.op = "write", "ERR" \notin status
               PROVE  Durable
  BY DEF WriteDurable
<1>2. status = Idle
  BY <1>1, StatusValues DEF DataInv, WriteEnded, Over
<1>3. WriteOver
  BY <1>1, <1>2, StatusValues DEF DriveInv, WritePhase, Taking, Flushing
<1>4. remaining = 0 /\ Sectors = call.count /\ Sectors \in Nat
  BY <1>1, <1>2, <1>3, SectorsType DEF WriteOver, Sectors, Served
<1>5. Done = call.count
  BY <1>4 DEF Done
<1>6. Stored
  BY <1>1 DEF DataInv
<1>. QED  BY <1>5, <1>6 DEF Stored, Want, Durable

LEMMA DataGivesAsked ==
  ASSUME WorkInv, DataInv, [Next]_vars, NEW l \in Lbas, sd'[l] # sd[l]
  PROVE  /\ call.op = "write"
         /\ l \in call.lba .. call.lba + call.count - 1
         /\ sd'[l] = Sector(call.data[l - call.lba + 1])
<1>. USE DEF WorkInv
<1>1. SdWriteOk \/ SdWriteFail
  <2>1. CASE Firmware
    BY <2>1 DEF Firmware, FirmwareStep, Core1, Dma, Irq, DmaBMove, DmaCMove, DmaBIrq, DmaCIrq,
                FetchTake, FetchArgs, SdReadOk, SdReadFail, FetchTest, SetDrq, FlushTake,
                FlushArgs, FlushCount, FlushArm, EndStatus, EndDir
  <2>2. CASE Driver
    BY <2>2 DEF Driver, AtaInit, SelectDrive, WaitIdle, ReadCommand, WriteCommand,
                IdentifyCommand, RawCommand, WaitBsy, WaitDrq, ReadTransfer, WriteTransfer,
                WaitEnd, StatusCycle, Issue, CommandCycle, ReadWord, WriteWord
  <2>3. CASE BeginCall \/ TimeOut \/ Reset \/ UNCHANGED vars
    BY <2>3 DEF BeginCall, TimeOut, Reset, vars, fwVars
  <2>. QED  BY <2>1, <2>2, <2>3 DEF Next
<1>2. core1.at = "sd_write" /\ sd' = [sd EXCEPT ![core1.lba] = buf[core1.buf]]
  BY <1>1 DEF SdWriteOk, SdWriteFail
<1>3. call.op = "write"
  BY <1>2 DEF DriveInv, Unserved, Rest, ReadPhase, Fetching, Sending, ReadOver
<1>4. Flushing
  BY <1>2, <1>3 DEF DriveInv, WritePhase, Taking, WriteOver
<1>5. core1.buf = 0 /\ remaining >= 1
  BY <1>2, <1>4 DEF Flushing
<1>6. core1.lba = call.lba + Done /\ buf[0] = Want(Done)
  BY <1>2, <1>3 DEF DataInv, FlushData
<1>7. sd \in [Lbas -> [1 .. Words -> WordSet]] /\ remaining \in Int
  BY DEF FirmwareTypes
<1>8. l = core1.lba
  BY <1>2, <1>7
<1>9. sd'[l] = Want(Done)
  BY <1>2, <1>5, <1>6, <1>7, <1>8
<1>10. /\ Sectors = call.count /\ Sectors \in Nat /\ call.lba \in Nat
       /\ remaining \in 0 .. Sectors
  BY <1>3, SectorsType DEF HostTypes, Served, Sectors, DriveInv, WritePhase
<1>11. Done \in 0 .. call.count - 1
  BY <1>5, <1>7, <1>10 DEF Done
<1>12. l - call.lba + 1 = Done + 1
  BY <1>6, <1>8, <1>10, <1>11
<1>13. l \in call.lba .. call.lba + call.count - 1
  BY <1>6, <1>8, <1>10, <1>11
<1>. QED  BY <1>3, <1>9, <1>12, <1>13 DEF Want

\* Every word on its way is the one that belongs there, and every sector is at
\* the place the driver asked for.
THEOREM WordInvariant ==
  ASSUME ~Core1Stalls, \A s \in Settings : Orderly(s)
  PROVE  Spec => [](WorkInv /\ DataInv)
<1>1. Init => WorkInv /\ DataInv
  BY WorkInvInit, DataInvInit
<1>2. (WorkInv /\ DataInv) /\ [Next]_vars => (WorkInv /\ DataInv)'
  BY WorkInvStep, DataInvStep
<1>. QED  BY <1>1, <1>2, PTL DEF Spec

\* What ata_read_sectors and ata_identify store is, word for word, what the
\* card or the identity block holds.
THEOREM ReadsAreCorrect ==
  ASSUME ~Core1Stalls, \A s \in Settings : Orderly(s)
  PROVE  Spec => []ReadCorrect
<1>1. WorkInv /\ DataInv => ReadCorrect
  BY DataGivesRead
<1>. QED  BY <1>1, WordInvariant, PTL

\* After ATA_OK and a status without ERR the sectors of the call are on the
\* card.
THEOREM WritesAreDurable ==
  ASSUME ~Core1Stalls, \A s \in Settings : Orderly(s)
  PROVE  Spec => []WriteDurable
<1>1. WorkInv /\ DataInv => WriteDurable
  BY DataGivesDurable
<1>. QED  BY <1>1, WordInvariant, PTL

\* The card changes only where the last write command said and to what it
\* gave, whatever was timed out or reset before.
THEOREM OnlyAskedIsWritten ==
  ASSUME ~Core1Stalls, \A s \in Settings : Orderly(s)
  PROVE  Spec => WritesOnlyWhatWasAsked
<1>1. WorkInv /\ DataInv /\ [Next]_vars =>
        [\A l \in Lbas : sd'[l] # sd[l] =>
           /\ call.op = "write"
           /\ l \in call.lba .. call.lba + call.count - 1
           /\ sd'[l] = Sector(call.data[l - call.lba + 1])]_vars
  BY DataGivesAsked
<1>. QED  BY <1>1, WordInvariant, PTL DEF Spec, WritesOnlyWhatWasAsked
=============================================================================
