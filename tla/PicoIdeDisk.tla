---------------------------- MODULE PicoIdeDisk ----------------------------
(***************************************************************************)
(* The emulated drive of IdeInterface used by its 68000 driver,            *)
(* drivers/picoIDE/ata.c: ata_init, ata_identify, ata_read_sectors and     *)
(* ata_write_sectors, polling the status register.  The 68000 may be reset *)
(* at any moment while the drive keeps its state.                          *)
(*                                                                         *)
(* Between two bus cycles the driver does nothing the drive can see, so    *)
(* each bus cycle is one step; the writes of the LBA and count registers   *)
(* only matter at the command that follows and are part of it.             *)
(***************************************************************************)
EXTENDS IdeInterface

CONSTANT
  Settings  \* the settings considered; besides the fields of IdeInterface,
            \* .calls: the calls made, .timeOuts: a polling loop may run out of
            \* ATA_TIMEOUT_LOOPS, .resets: the 68000 may be reset

ASSUME DriverAssumption ==
  Settings \subseteq [sizeKnown : BOOLEAN, dmaIrqFirst : BOOLEAN, timeOuts : BOOLEAN,
                     resets : BOOLEAN, calls : SUBSET {"read", "write", "identify", "raw"}]

VARIABLES
  pc,      \* place of the driver
  call,    \* the last command issued: opcode, LBA, count and data
  sector,  \* s, sectors transferred by the call
  got,     \* the words read by the call, in memory order
  word,    \* w, words of the current sector transferred
  result   \* what the last call returned

hostVars == <<pc, call, sector, got, word, result, setting>>
vars     == <<fwVars, hostVars>>

Waits == {"boot", "wait_idle", "wait_bsy", "wait_drq", "wait_end"}

Init ==
  /\ Init0
  /\ pc = "boot"
  /\ call = [op |-> "none", lba |-> 0, count |-> 0, data |-> <<>>]
  /\ sector = 0 /\ word = 0 /\ got = <<>>
  /\ result = "none"
  /\ setting \in Settings

-----------------------------------------------------------------------------
Return(r) == pc' = "idle" /\ result' = r

\* ata_init: wait for BSY to clear.
AtaInit ==
  /\ pc = "boot"
  /\ StatusCycle
  /\ pc' = IF "BSY" \in StatusShown THEN "boot" ELSE "idle"
  /\ UNCHANGED <<call, sector, got, word, result, setting>>

\* ata_read_sectors and ata_write_sectors (and programs that use the
\* registers directly) wait for BSY to clear before they issue a command;
\* ata_identify reads the status four times and does not look at it.
BeginCall ==
  /\ pc = "idle"
  /\ \/ setting.calls # {"identify"} /\ pc' = "wait_idle"
     \/ "identify" \in setting.calls /\ pc' = "select"
  /\ result' = "none"
  /\ UNCHANGED fwVars
  /\ UNCHANGED <<call, sector, got, word, setting>>

SelectDrive ==
  /\ pc = "select"
  /\ StatusCycle
  /\ pc' = "identify"
  /\ UNCHANGED <<call, sector, got, word, result, setting>>

\* Faulty variant of WaitIdle: the command does not wait for BSY.
WaitIdleNot ==
  /\ pc = "wait_idle"
  /\ StatusCycle
  /\ pc' = "command"
  /\ UNCHANGED <<call, sector, got, word, result, setting>>

WaitIdle ==
  /\ pc = "wait_idle"
  /\ StatusCycle
  /\ pc' = IF "BSY" \in StatusShown THEN "wait_idle" ELSE "command"
  /\ UNCHANGED <<call, sector, got, word, result, setting>>

Issue(op, l, n, d) ==
  /\ CommandCycle(op, l, n)
  /\ call' = [op |-> op, lba |-> l, count |-> n, data |-> d]
  /\ sector' = 0 /\ word' = 0 /\ got' = <<>>
  /\ UNCHANGED setting

\* count is a uint8_t and 0 is refused with ATA_ERR_BAD_ARG.  The LBA may lie
\* past the end of the card.
ReadCommand ==
  /\ pc = "command" /\ "read" \in setting.calls
  /\ \E l \in 0 .. Capacity, n \in 1 .. CountMax - 1 : Issue("read", l, n, <<>>)
  /\ pc' = "wait_bsy"
  /\ UNCHANGED result

WriteCommand ==
  /\ pc = "command" /\ "write" \in setting.calls
  /\ \E l \in 0 .. Capacity, n \in 1 .. CountMax - 1 :
       \E d \in [1 .. n -> Data] : Issue("write", l, n, d)
  /\ pc' = "wait_bsy"
  /\ UNCHANGED result

IdentifyCommand ==
  /\ pc = "identify"
  /\ Issue("identify", 0, 0, <<>>)
  /\ pc' = "wait_bsy"
  /\ UNCHANGED result

\* A command without data, issued by another program: apps/ide_test issues one
\* the drive does not know and reads on; dispatch_command has two more kinds.
RawCommand ==
  /\ pc = "command" /\ "raw" \in setting.calls
  /\ \E op \in {"diagnostic", "nop", "unknown"} : Issue(op, 0, 0, <<>>)
  /\ Return("raw")

\* ata_wait_drq: first BSY must clear, then ERR or DRQ decides.
WaitBsy ==
  /\ pc = "wait_bsy"
  /\ StatusCycle
  /\ pc' = IF "BSY" \in StatusShown THEN "wait_bsy" ELSE "wait_drq"
  /\ UNCHANGED <<call, sector, got, word, result, setting>>

WaitDrq ==
  /\ pc = "wait_drq"
  /\ StatusCycle
  /\ \/ "ERR" \in StatusShown /\ Return("device")
     \/ /\ "ERR" \notin StatusShown
        /\ pc' = IF "DRQ" \in StatusShown THEN "transfer" ELSE "wait_drq"
        /\ UNCHANGED result
  /\ UNCHANGED <<call, sector, got, word, setting>>

\* Where a transfer continues once a word has passed.
AfterWord(last) ==
  LET full == word + 1 = Words
      more == sector + 1 < (IF call.op = "identify" THEN 1 ELSE call.count)
  IN /\ word'   = IF full THEN 0 ELSE word + 1
     /\ sector' = IF full THEN sector + 1 ELSE sector
     /\ \/ ~full /\ UNCHANGED <<pc, result>>
        \/ full /\ more /\ pc' = "wait_bsy" /\ UNCHANGED result
        \/ full /\ ~more /\ last

\* The high byte of the word goes to the lower address.
ReadTransfer ==
  /\ pc = "transfer" /\ call.op # "write"
  /\ tx # <<>>
  /\ ReadWord(Head(tx))
  /\ got' = Append(got, <<Head(tx)[1], Head(tx)[2]>>)
  /\ AfterWord(Return("ok"))
  /\ UNCHANGED <<call, setting>>

WriteTransfer ==
  /\ pc = "transfer" /\ call.op = "write"
  /\ WriteWord(Sector(call.data[sector + 1])[word + 1])
  /\ AfterWord(pc' = "wait_end" /\ UNCHANGED result)
  /\ UNCHANGED <<call, got, setting>>

\* ata_write_sectors: wait for BSY to clear, and return ATA_OK.
WaitEnd ==
  /\ pc = "wait_end"
  /\ StatusCycle
  /\ \/ "BSY" \in StatusShown /\ UNCHANGED <<pc, result>>
     \/ "BSY" \notin StatusShown /\ Return("ok")
  /\ UNCHANGED <<call, sector, got, word, setting>>

\* A loop runs out of iterations.
TimeOut ==
  /\ setting.timeOuts
  /\ pc \in Waits
  /\ Return("timeout")
  /\ UNCHANGED fwVars
  /\ UNCHANGED <<call, sector, got, word, setting>>

\* The 68000 is reset: the driver starts again, the drive does not notice.
Reset ==
  /\ setting.resets
  /\ pc' = "boot"
  /\ result' = "none"
  /\ UNCHANGED fwVars
  /\ UNCHANGED <<call, sector, got, word, setting>>

-----------------------------------------------------------------------------
Driver == \/ AtaInit \/ SelectDrive \/ WaitIdle \/ ReadCommand \/ WriteCommand
          \/ IdentifyCommand \/ RawCommand \/ WaitBsy \/ WaitDrq
          \/ ReadTransfer \/ WriteTransfer \/ WaitEnd

Firmware == FirmwareStep /\ UNCHANGED hostVars

Next == Firmware \/ BeginCall \/ Driver \/ TimeOut \/ Reset

\* Both cores, the DMA and the 68000 keep running; nothing makes a program
\* start a call, time out or be reset.
Fairness == /\ WF_vars(Core1 /\ UNCHANGED hostVars)
            /\ WF_vars(Dma /\ UNCHANGED hostVars)
            /\ WF_vars(Irq /\ UNCHANGED hostVars)
            /\ WF_vars(Driver)

Spec == Init /\ [][Next]_vars /\ Fairness

-----------------------------------------------------------------------------
(* Properties.                                                             *)

\* Every word the driver has stored during a call is the word of the card (or
\* of the identity block) that belongs there: no word of an earlier command,
\* of another sector or of a buffer being refilled.
Expected(i) ==
  LET s == (i - 1) \div Words
      w == ((i - 1) % Words) + 1
  IN IF call.op = "identify" THEN Identity[w] ELSE sd[call.lba + s][w]

ReadCorrect ==
  \A i \in 1 .. Len(got) :
    /\ call.op = "read" => call.lba + ((i - 1) \div Words) \in Lbas
    /\ got[i] = Expected(i)

\* After ata_write_sectors returned ATA_OK and the drive shows no ERR, the
\* data is on the card: BSY does not clear before the flush of core 1.
\* Without the condition on ERR it does not hold: ata_write_sectors does not
\* look at ERR after the last sector, which the card may have refused.
Durable == \A s \in 0 .. call.count - 1 :
             /\ call.lba + s \in Lbas
             /\ sd[call.lba + s] = Sector(call.data[s + 1])

WriteDurable ==
  (pc = "idle" /\ result = "ok" /\ call.op = "write" /\ "ERR" \notin status) => Durable

\* The card changes only inside the range of the last write command, and to
\* the data given for that sector.
WritesOnlyWhatWasAsked ==
  [][\A l \in Lbas : sd'[l] # sd[l] =>
        /\ call.op = "write"
        /\ l \in call.lba .. call.lba + call.count - 1
        /\ sd'[l] = Sector(call.data[l - call.lba + 1])]_vars

\* While core 1 has a buffer in an SD operation no DMA channel uses it.
BufferNotShared ==
  /\ core1.at = "sd_read" => ~(dmaB.left > 0 /\ dmaB.buf = core1.buf)
                             /\ ~(dmaC.left > 0 /\ core1.buf = 0)
  /\ core1.at = "sd_write" => dmaC.left = 0

\* DRQ is up only with a channel behind it: either words are left to move or
\* its interrupt is still to be handled.
DrqHasDma ==
  "DRQ" \in status =>
    /\ "ERR" \notin status /\ "BSY" \notin status
    /\ dir = "READ"  => dmaB.left > 0 \/ dmaB.irq
    /\ dir = "WRITE" => dmaC.left > 0 \/ dmaC.irq
    /\ dir # "NONE"

\* BSY is up only while somebody is going to take it down.
BusyHasWorker ==
  "BSY" \in status =>
    fetch.need \/ flush.need \/ core1.at # "idle" \/ dmaB.irq \/ dmaC.irq

\* Every call of the driver returns, whatever the card does: no polling loop
\* needs its timeout.
CallReturns == (pc # "idle") ~> (pc = "idle")
=============================================================================
