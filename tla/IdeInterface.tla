---------------------------- MODULE IdeInterface ----------------------------
(***************************************************************************)
(* The IDE drive emulated by the RP2350B (peripheral/RP2350B): the         *)
(* interrupt handlers of core 0, the two DMA channels and the data state   *)
(* machine they feed, and ide_interface_task on core 1, which moves whole  *)
(* sectors between the two staging buffers and the SD card.                *)
(*                                                                         *)
(* The handlers of core 0 have one priority and never interrupt one        *)
(* another: each is one step.  Core 1 runs beside them: each of its shared *)
(* loads and stores is a step, and an SD operation begins in one step and  *)
(* ends in a later one.  A DMA channel moves one word per step.            *)
(*                                                                         *)
(* The module defines what the firmware does by itself (FirmwareStep) and  *)
(* what each bus cycle of the 68000 does to it (StatusCycle, CommandCycle, *)
(* ReadWord, WriteWord); a module that EXTENDS it supplies the 68000.      *)
(* g_buf_ready is written and never tested, and is left out.               *)
(***************************************************************************)
EXTENDS Naturals, Sequences

CONSTANTS
  Words,       \* IDE_SECTOR_SIZE_WORDS
  FifoDepth,   \* words a PIO FIFO holds
  Radix,       \* values of one LBA register (256)
  LbaMod,      \* values of a uint32_t (2^32)
  CountMax,    \* values of the sector count register (256)
  Capacity,    \* sectors of the card
  Data,        \* distinguishable sector contents
  Core1Stalls  \* a bus cycle may slip between two stores of core 1

ASSUME SizesAssumption ==
  /\ Words \in Nat /\ FifoDepth \in Nat /\ FifoDepth > 0 /\ FifoDepth < Words
  /\ Radix \in Nat /\ Radix > 1
  /\ LbaMod \in Nat /\ LbaMod > Capacity
  /\ Capacity < Radix * Radix * Radix * Radix  \* ata.c refuses an LBA that needs more
  /\ CountMax \in Nat /\ CountMax > 1
  /\ Capacity \in Nat
ASSUME TimingAssumption == Core1Stalls \in BOOLEAN

VARIABLES
  dir,       \* g_dir
  lba,       \* g_lba
  remaining, \* g_remaining_sectors
  active,    \* g_active_buf
  fetch,     \* g_need_fetch, g_fetch_buf, g_fetch_lba
  flush,     \* g_need_flush, g_flush_lba (g_flush_buf is always 0)
  status,    \* g_reg_status, as the set of its bits
  error,     \* g_reg_error_features as the firmware sets it
  regs,      \* the LBA and sector count registers
  buf,       \* the two staging buffers, bytes in memory order
  dmaB,      \* DMA_B: words left, buffer, interrupt pending
  dmaC,      \* DMA_C: likewise
  tx, rx,    \* the FIFOs of the data state machine
  core1,     \* place of core 1 in ide_interface_task, and its locals b and lba
  sd,        \* the card
  setting    \* fixed at power on: .sizeKnown, g_sd_sectors # 0 (the size of the
             \* card could be read), and .dmaIrqFirst, the DMA interrupts are
             \* taken before the register ones

fwVars == <<dir, lba, remaining, active, fetch, flush, status, error, regs,
            buf, dmaB, dmaC, tx, rx, core1, sd>>

Buffers == {0, 1}
Lbas    == 0 .. Capacity - 1

-----------------------------------------------------------------------------
(* Words and sectors.  A word in memory is its two bytes in address order; *)
(* a word on the bus is <<high byte, low byte>>.                           *)

Sector(d) == [i \in 1 .. Words |-> <<<<d, 2 * i - 1>>, <<d, 2 * i>>>>]

\* What IDENTIFY DEVICE returns.  build_identify stores words, so their low
\* bytes come first: the byte stream of the standard, which is what arrives.
Identity == Sector("identity")

SectorSet == {Sector(d) : d \in Data}

\* A 16 bit load by the little-endian RP2350: the first byte is the low one.
\* The store is the same exchange.
Load16(w) == <<w[2], w[1]>>

\* channel_config_set_bswap on both channels.
Bswap(w) == <<w[2], w[1]>>

\* The four registers that hold an LBA, and the firmware's reading of them.
Split(l) == [low  |-> l % Radix,
             mid  |-> (l \div Radix) % Radix,
             high |-> (l \div (Radix * Radix)) % Radix,
             head |-> (l \div (Radix * Radix * Radix)) % Radix]

CurrentLba(r) == ((r.head * Radix + r.high) * Radix + r.mid) * Radix + r.low

SectorCount(r) == IF r.count = 0 THEN CountMax ELSE r.count

-----------------------------------------------------------------------------
Init0 ==
  /\ dir = "NONE" /\ lba = 0 /\ remaining = 0 /\ active = 0
  /\ fetch = [need |-> FALSE, buf |-> 0, lba |-> 0]
  /\ flush = [need |-> FALSE, lba |-> 0]
  /\ status = {"DRDY"} /\ error = "none"
  /\ regs = [low |-> 0, mid |-> 0, high |-> 0, head |-> 0, count |-> 0]
  /\ buf = [b \in Buffers |-> Identity]
  /\ dmaB = [left |-> 0, buf |-> 0, irq |-> FALSE]
  /\ dmaC = [left |-> 0, irq |-> FALSE]
  /\ tx = <<>> /\ rx = <<>>
  /\ core1 = [at |-> "idle", buf |-> 0, lba |-> 0]
  /\ sd \in [Lbas -> SectorSet]

-----------------------------------------------------------------------------
(* The helpers on the status register and on the data path.                *)

Busy(s)  == (s \cup {"BSY"}) \ {"DRQ"}
Drq(s)   == (s \cup {"DRQ"}) \ {"BSY"}
Idle     == {"DRDY"}
Failed   == {"DRDY", "ERR"}

\* arm_dma_b_from_buffer and arm_dma_c_into_buffer.
ArmDmaB(b) == dmaB' = [dmaB EXCEPT !.left = Words, !.buf = b]
ArmDmaC    == dmaC' = [dmaC EXCEPT !.left = Words]

\* reset_data_path without the channel the caller arms afterwards.
AbortB     == dmaB' = [dmaB EXCEPT !.left = 0, !.irq = FALSE]
AbortC     == dmaC' = [dmaC EXCEPT !.left = 0, !.irq = FALSE]
\* Faulty variant of ClearFifos: old words stay in the FIFOs.
KeepFifos  == UNCHANGED <<tx, rx>>
ClearFifos == tx' = <<>> /\ rx' = <<>>

-----------------------------------------------------------------------------
(* The DMA channels and their interrupts.                                  *)

\* DMA_B moves a word whenever the TX FIFO has room; DMA_B belongs to core 0
\* and core 1 alike, its last word raises DMA_IRQ_0.
DmaBMove ==
  /\ dmaB.left > 0
  /\ Len(tx) < FifoDepth
  /\ tx' = Append(tx, Bswap(Load16(buf[dmaB.buf][Words - dmaB.left + 1])))
  /\ dmaB' = [dmaB EXCEPT !.left = @ - 1, !.irq = @ \/ dmaB.left = 1]
  /\ UNCHANGED <<dir, lba, remaining, active, fetch, flush, status, error, regs,
                 buf, dmaC, rx, core1, sd>>

\* DMA_C moves a word whenever the RX FIFO has one, always into buffer 0.
DmaCMove ==
  /\ dmaC.left > 0
  /\ rx # <<>>
  /\ buf' = [buf EXCEPT ![0][Words - dmaC.left + 1] = Load16(Bswap(Head(rx)))]
  /\ rx' = Tail(rx)
  /\ dmaC' = [dmaC EXCEPT !.left = @ - 1, !.irq = @ \/ dmaC.left = 1]
  /\ UNCHANGED <<dir, lba, remaining, active, fetch, flush, status, error, regs,
                 dmaB, tx, core1, sd>>

\* Faulty variant of DmaBIrq: the next sector is never asked for.
DmaBIrqNoFetch ==
  /\ dmaB.irq
  /\ dmaB' = [dmaB EXCEPT !.irq = FALSE]
  /\ lba' = (lba + 1) % LbaMod
  /\ remaining' = remaining - 1
  /\ status' = IF remaining = 1 THEN Idle ELSE Busy(status)
  /\ dir' = IF remaining = 1 THEN "NONE" ELSE dir
  /\ active' = IF remaining = 1 THEN active ELSE 1 - active
  /\ UNCHANGED <<fetch, flush, error, regs, buf, dmaC, tx, rx, core1, sd>>

\* dma_b_irq_handler: the last sector ends the command, any other asks core 1
\* for the next one into the other buffer.
DmaBIrq ==
  /\ dmaB.irq
  /\ dmaB' = [dmaB EXCEPT !.irq = FALSE]
  /\ lba' = (lba + 1) % LbaMod
  /\ remaining' = remaining - 1
  /\ \/ /\ remaining = 1
        /\ status' = Idle
        /\ dir' = "NONE"
        /\ UNCHANGED <<active, fetch>>
     \/ /\ remaining # 1
        /\ active' = 1 - active
        /\ status' = Busy(status)
        /\ fetch' = [need |-> TRUE, buf |-> 1 - active, lba |-> (lba + 1) % LbaMod]
        /\ UNCHANGED dir
  /\ UNCHANGED <<flush, error, regs, buf, dmaC, tx, rx, core1, sd>>

\* dma_c_irq_handler: a whole sector is in buffer 0, core 1 must write it.
DmaCIrq ==
  /\ dmaC.irq
  /\ dmaC' = [dmaC EXCEPT !.irq = FALSE]
  /\ status' = Busy(status)
  /\ flush' = [need |-> TRUE, lba |-> lba]
  /\ UNCHANGED <<dir, lba, remaining, active, fetch, error, regs, buf, dmaB,
                 tx, rx, core1, sd>>

-----------------------------------------------------------------------------
(* ide_interface_task on core 1, reading.                                  *)

Core1At(p) == core1' = [core1 EXCEPT !.at = p]

\* if (g_need_fetch) { g_need_fetch = false; b = g_fetch_buf; lba = ...
FetchTake ==
  /\ core1.at = "idle"
  /\ fetch.need
  /\ fetch' = [fetch EXCEPT !.need = FALSE]
  /\ Core1At("fetch_args")
  /\ UNCHANGED <<dir, lba, remaining, active, flush, status, error, regs, buf,
                 dmaB, dmaC, tx, rx, sd>>

FetchArgs ==
  /\ core1.at = "fetch_args"
  /\ core1' = [at |-> "sd_read", buf |-> fetch.buf, lba |-> fetch.lba]
  /\ UNCHANGED <<dir, lba, remaining, active, fetch, flush, status, error, regs,
                 buf, dmaB, dmaC, tx, rx, sd>>

\* The card answers: the block is in the buffer, or the read failed before
\* the first data byte (always so past the end of the card).
SdReadOk ==
  /\ core1.at = "sd_read"
  /\ core1.lba \in Lbas
  /\ buf' = [buf EXCEPT ![core1.buf] = sd[core1.lba]]
  /\ Core1At("fetch_test")
  /\ UNCHANGED <<dir, lba, remaining, active, fetch, flush, status, error, regs,
                 dmaB, dmaC, tx, rx, sd>>

SdReadFail ==
  /\ core1.at = "sd_read"
  /\ error' = "abrt"
  /\ Core1At("fail_status")
  /\ UNCHANGED <<dir, lba, remaining, active, fetch, flush, status, regs, buf,
                 dmaB, dmaC, tx, rx, sd>>

\* Faulty variant of FetchTest: DRQ is going to be set with no DMA armed.
FetchTestNoDma ==
  /\ core1.at = "fetch_test"
  /\ Core1At("fetch_drq")
  /\ UNCHANGED <<dir, lba, remaining, active, fetch, flush, status, error, regs,
                 buf, dmaB, dmaC, tx, rx, sd>>

\* Is the command this sector was read for still the current one?
FetchTest ==
  /\ core1.at = "fetch_test"
  /\ \/ /\ dir = "READ" /\ active = core1.buf /\ "BSY" \in status
        /\ ArmDmaB(core1.buf)
        /\ Core1At("fetch_drq")
     \/ /\ ~(dir = "READ" /\ active = core1.buf /\ "BSY" \in status)
        /\ Core1At("idle")
        /\ UNCHANGED dmaB
  /\ UNCHANGED <<dir, lba, remaining, active, fetch, flush, status, error, regs,
                 buf, dmaC, tx, rx, sd>>

\* set_drq, after the DMA is armed (in the fetch and in the flush branch).
SetDrq ==
  /\ core1.at \in {"fetch_drq", "flush_drq"}
  /\ status' = Drq(status)
  /\ Core1At("idle")
  /\ UNCHANGED <<dir, lba, remaining, active, fetch, flush, error, regs, buf,
                 dmaB, dmaC, tx, rx, sd>>

-----------------------------------------------------------------------------
(* ide_interface_task on core 1, writing.                                  *)

FlushTake ==
  /\ core1.at = "idle"
  /\ flush.need
  /\ flush' = [flush EXCEPT !.need = FALSE]
  /\ Core1At("flush_args")
  /\ UNCHANGED <<dir, lba, remaining, active, fetch, status, error, regs, buf,
                 dmaB, dmaC, tx, rx, sd>>

FlushArgs ==
  /\ core1.at = "flush_args"
  /\ core1' = [at |-> "sd_write", buf |-> 0, lba |-> flush.lba]
  /\ UNCHANGED <<dir, lba, remaining, active, fetch, flush, status, error, regs,
                 buf, dmaB, dmaC, tx, rx, sd>>

SdWriteOk ==
  /\ core1.at = "sd_write"
  /\ core1.lba \in Lbas
  /\ sd' = [sd EXCEPT ![core1.lba] = buf[core1.buf]]
  /\ Core1At("flush_count")
  /\ UNCHANGED <<dir, lba, remaining, active, fetch, flush, status, error, regs,
                 buf, dmaB, dmaC, tx, rx>>

\* A write the card rejects changes nothing; one that times out while the card
\* is programming may have changed the sector.
SdWriteFail ==
  /\ core1.at = "sd_write"
  /\ \/ UNCHANGED sd
     \/ /\ core1.lba \in Lbas
        /\ sd' = [sd EXCEPT ![core1.lba] = buf[core1.buf]]
  /\ error' = "abrt"
  /\ Core1At("fail_status")
  /\ UNCHANGED <<dir, lba, remaining, active, fetch, flush, status, regs, buf,
                 dmaB, dmaC, tx, rx>>

\* else if (--g_remaining_sectors == 0) { set_ready_idle(); ...
\* else { g_lba = lba + 1; arm_dma_c_into_buffer(0); ...
FlushCount ==
  /\ core1.at = "flush_count"
  /\ remaining' = remaining - 1
  /\ Core1At(IF remaining = 1 THEN "idle_status" ELSE "flush_arm")
  /\ UNCHANGED <<dir, lba, active, fetch, flush, status, error, regs, buf, dmaB,
                 dmaC, tx, rx, sd>>

\* Faulty variant of FlushArm: g_lba is not advanced.
FlushArmSameLba ==
  /\ core1.at = "flush_arm"
  /\ ArmDmaC
  /\ Core1At("flush_drq")
  /\ UNCHANGED <<dir, lba, remaining, active, fetch, flush, status, error, regs, buf,
                 dmaB, tx, rx, sd>>

FlushArm ==
  /\ core1.at = "flush_arm"
  /\ lba' = (core1.lba + 1) % LbaMod
  /\ ArmDmaC
  /\ Core1At("flush_drq")
  /\ UNCHANGED <<dir, remaining, active, fetch, flush, status, error, regs, buf,
                 dmaB, tx, rx, sd>>

\* The status is stored first (idle, or ERR after a failure), the direction
\* one statement later.
EndStatus ==
  /\ core1.at \in {"idle_status", "fail_status"}
  /\ status' = IF core1.at = "idle_status" THEN Idle ELSE Failed
  /\ Core1At("end_dir")
  /\ UNCHANGED <<dir, lba, remaining, active, fetch, flush, error, regs, buf,
                 dmaB, dmaC, tx, rx, sd>>

EndDir ==
  /\ core1.at = "end_dir"
  /\ dir' = "NONE"
  /\ Core1At("idle")
  /\ UNCHANGED <<lba, remaining, active, fetch, flush, status, error, regs, buf,
                 dmaB, dmaC, tx, rx, sd>>

Core1 == \/ FetchTake \/ FetchArgs \/ SdReadOk \/ SdReadFail \/ FetchTest
         \/ SetDrq \/ FlushTake \/ FlushArgs \/ SdWriteOk \/ SdWriteFail
         \/ FlushCount \/ FlushArm \/ EndStatus \/ EndDir

Dma == DmaBMove \/ DmaCMove
Irq == DmaBIrq \/ DmaCIrq

FirmwareStep == Core1 \/ Dma \/ Irq

-----------------------------------------------------------------------------
(* dispatch_command.  The error register and ERR are cleared and BSY is    *)
(* set before the switch; the handler is one step, so only what it leaves  *)
(* behind shows.                                                           *)

Start(d) == /\ dir' = d
            /\ lba' = CurrentLba(regs')
            /\ remaining' = SectorCount(regs')
            /\ active' = 0
            /\ error' = "none"

BeginReadSequence ==
  /\ AbortB /\ AbortC /\ ClearFifos
  /\ Start("READ")
  /\ status' = {"DRDY", "BSY"}
  /\ fetch' = [need |-> TRUE, buf |-> 0, lba |-> CurrentLba(regs')]
  /\ UNCHANGED buf

BeginWriteSequence ==
  /\ AbortB
  /\ dmaC' = [left |-> Words, irq |-> FALSE]
  /\ ClearFifos
  /\ Start("WRITE")
  /\ status' = {"DRDY", "DRQ"}
  /\ UNCHANGED <<fetch, buf>>

BeginIdentify ==
  \/ /\ ~setting.sizeKnown
     /\ error' = "abrt"
     /\ status' = Failed
     /\ UNCHANGED <<dir, lba, remaining, active, fetch, buf, dmaB, dmaC, tx, rx>>
  \/ /\ setting.sizeKnown
     /\ AbortC /\ ClearFifos
     /\ dmaB' = [left |-> Words, buf |-> 0, irq |-> FALSE]
     /\ buf' = [buf EXCEPT ![0] = Identity]
     /\ dir' = "READ" /\ remaining' = 1 /\ active' = 0
     /\ error' = "none"
     /\ status' = {"DRDY", "DRQ"}
     /\ UNCHANGED <<lba, fetch>>

\* EXECUTE DEVICE DIAGNOSTIC and the commands that have nothing to do.
NoData(e) ==
  /\ AbortB /\ AbortC /\ ClearFifos
  /\ dir' = "NONE"
  /\ error' = e
  /\ status' = Idle
  /\ UNCHANGED <<lba, remaining, active, fetch, buf>>

\* Any other opcode is refused, and nothing else is touched.
Refuse ==
  /\ error' = "abrt"
  /\ status' = Failed
  /\ UNCHANGED <<dir, lba, remaining, active, fetch, buf, dmaB, dmaC, tx, rx>>

DispatchCommand(op) ==
  \/ op = "read"       /\ BeginReadSequence
  \/ op = "write"      /\ BeginWriteSequence
  \/ op = "identify"   /\ BeginIdentify
  \/ op = "diagnostic" /\ NoData("ok")
  \/ op = "nop"        /\ NoData("none")
  \/ op = "unknown"    /\ Refuse

-----------------------------------------------------------------------------
(* Bus cycles of the 68000.                                                *)

\* A DMA channel moves a word in a few clocks of the RP2350: by the time a
\* register access has come through the state machine and the interrupt, each
\* channel has moved what it could.
DmaSettled ==
  /\ dmaB.left = 0 \/ Len(tx) = FifoDepth
  /\ dmaC.left = 0 \/ rx = <<>>

\* A register access reaches the CPU through PIO0_IRQ_0/1.
RegisterIrqTaken ==
  /\ DmaSettled
  /\ setting.dmaIrqFirst => ~dmaB.irq /\ ~dmaC.irq
  /\ ~Core1Stalls => core1.at # "end_dir"

\* The registers of a command, then the command register: l and n are what
\* the 68000 writes.  DTACK comes only after the handler has run.
CommandCycle(op, l, n) ==
  /\ RegisterIrqTaken
  /\ regs' = [low |-> Split(l).low, mid |-> Split(l).mid, high |-> Split(l).high,
              head |-> Split(l).head, count |-> n]
  /\ DispatchCommand(op)
  /\ UNCHANGED <<flush, core1, sd>>

\* Faulty variant of StatusShown: DRQ stays until the DMA_C handler runs.
StatusStale == status

\* A read of the status register.  While a write transfers, DRQ is replaced
\* by BSY as soon as DMA_C has the whole sector.
StatusShown ==
  IF dir = "WRITE" /\ "DRQ" \in status /\ dmaC.left = 0 THEN Busy(status) ELSE status

StatusCycle ==
  /\ RegisterIrqTaken
  /\ status' = StatusShown
  /\ UNCHANGED <<dir, lba, remaining, active, fetch, flush, error, regs, buf,
                 dmaB, dmaC, tx, rx, core1, sd>>

\* The data register: a read waits in pull without DTACK while the TX FIFO is
\* empty, a write in push while the RX FIFO is full.
ReadWord(w) ==
  /\ tx # <<>>
  /\ w = Head(tx)
  /\ tx' = Tail(tx)
  /\ UNCHANGED <<dir, lba, remaining, active, fetch, flush, status, error, regs,
                 buf, dmaB, dmaC, rx, core1, sd>>

WriteWord(w) ==
  /\ Len(rx) < FifoDepth
  /\ rx' = Append(rx, w)
  /\ UNCHANGED <<dir, lba, remaining, active, fetch, flush, status, error, regs,
                 buf, dmaB, dmaC, tx, core1, sd>>
=============================================================================
