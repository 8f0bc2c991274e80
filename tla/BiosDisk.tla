------------------------------ MODULE BiosDisk ------------------------------
(***************************************************************************)
(* The disk of the BIOS: the glue FatFs calls (drivers/ide/diskio.c), the  *)
(* polled CompactFlash driver under it (drivers/ide/ata.c), and the drive. *)
(*                                                                         *)
(* Every access to a drive register the drive can tell apart is one step;  *)
(* a polling loop is a step enabled once its condition holds.  The drive   *)
(* is external: it is modelled from what ata.c expects of the registers;   *)
(* it always accepts the SET FEATURES of the 8-bit mode, which every       *)
(* CompactFlash card must have, and go_8bits_mode looks at no error.       *)
(* A sector of 512 bytes is one of Bytes bytes.                            *)
(***************************************************************************)
EXTENDS Naturals, Sequences

CONSTANTS
  Bytes,         \* bytes in a sector (512)
  LbaMod,        \* 2^28, the addresses DRIVE_HEAD and the three registers hold
  Capacity,      \* sectors of the card
  PartBase,      \* lba_start of the first entry of its partition table
  GarbageBases,  \* what bytes that are no partition table may decode to: 0
                 \* as the startup leaves the RAM, others once programs used it
  MaxCount       \* bound: sectors of a request

\* A request never wraps around the addresses of the drive: the buffer of one
\* of 2^28 sectors would be larger than the memory of the 68000.
ASSUME DiskAssumption ==
  /\ Bytes \in Nat /\ Bytes % 2 = 0 /\ Bytes > 0
  /\ LbaMod \in Nat /\ Capacity \in 1 .. LbaMod
  /\ PartBase \in 1 .. Capacity - 1
  /\ GarbageBases \subseteq Nat
  /\ MaxCount \in 1 .. LbaMod

VARIABLES
  \* the drive
  present,  \* it answers; otherwise the bus floats and every bit reads 1
  status,   \* the bits BSY, DRQ and ERR of the status register
  cmd,      \* the command being executed, and its address
  wide,     \* transfers are of 16 bits: SET FEATURES 0x01 turns it off
  dbuf,     \* the sector being transferred
  left,     \* bytes of it still to be transferred
  card,     \* the sectors
  \* the driver
  pc,       \* place of the driver
  ideMode,  \* ide_bus_mode
  base,     \* drives[0].parts[0].base
  mbr,      \* the bytes at 0xA2000 are the partition table
  call,     \* the call being made
  sector,   \* i of disk_read and disk_write
  got,      \* the bytes stored by the call
  word,     \* i of the loop over the bytes
  result,   \* what the last call returned
  \* FatFs and the machine
  fs,       \* what FatFs knows: none, ready, or lost after a failed disk_status
  \* history
  errShown, \* a status with ERR was read after the data of a write
  open      \* the write that may still land

driveVars  == <<present, status, cmd, wide, dbuf, left, card>>
driverVars == <<pc, ideMode, base, mbr, call, sector, got, word, result>>
vars == <<driveVars, driverVars, fs, errShown, open>>

Lbas       == 0 .. Capacity - 1
Sector(d)  == [i \in 1 .. Bytes |-> <<d, i>>]
Junk       == Sector("junk")
NoCmd      == [op |-> "none", lba |-> 0]
NoCall     == [op |-> "none", first |-> 0, count |-> 0, data |-> <<>>, exact |-> TRUE]

Init ==
  /\ present \in BOOLEAN
  /\ status = {} /\ cmd = NoCmd /\ wide = TRUE
  /\ dbuf = Junk /\ left = 0
  /\ card = [l \in Lbas |-> Sector(IF l = 0 THEN "mbr" ELSE "old")]
  /\ pc = "idle" /\ ideMode = 0 /\ base = 0
  /\ mbr = FALSE
  /\ call = NoCall /\ sector = 0 /\ got = <<>> /\ word = 0 /\ result = "none"
  /\ fs = "none"
  /\ errShown = FALSE /\ open = NoCall

-----------------------------------------------------------------------------
(* The drive (external).                                                   *)

\* What a read of the status register shows.
Shown == IF present THEN status ELSE {"BSY", "DRQ", "ERR"}

\* A write to the command register; while BSY it has no effect.  A data phase
\* that was not finished is given up.
CommandCycle(op, l) ==
  /\ IF present /\ "BSY" \notin status
     THEN /\ status' = {"BSY"} /\ cmd' = [op |-> op, lba |-> l]
          /\ dbuf' = Junk /\ left' = 0
     ELSE UNCHANGED <<status, cmd, dbuf, left>>
  /\ UNCHANGED <<present, wide, card>>

\* The drive ends a command, or has a sector ready for it.
Done(bits) == status' = bits /\ cmd' = NoCmd /\ dbuf' = Junk /\ left' = 0

Ready(data) ==
  /\ status' = {"DRQ"} /\ dbuf' = data /\ left' = Bytes
  /\ UNCHANGED <<cmd, wide, card>>

DriveStep ==
  /\ present /\ "BSY" \in status
  /\ \/ /\ cmd.op \in {"narrow", "widen"}
        /\ Done({}) /\ wide' = (cmd.op = "widen") /\ UNCHANGED card
     \/ cmd.op = "identify" /\ Ready(Sector("identity"))
     \/ cmd.op = "read" /\ cmd.lba \in Lbas /\ Ready(card[cmd.lba])
     \/ cmd.op = "write" /\ cmd.lba \in Lbas /\ Ready(Junk)
     \/ /\ cmd.op = "flush"
        /\ Done({}) /\ card' = [card EXCEPT ![cmd.lba] = dbuf] /\ UNCHANGED wide
     \/ /\ cmd.op \in {"identify", "read", "write", "flush"}
        /\ Done({"ERR"}) /\ UNCHANGED <<wide, card>>
  /\ UNCHANGED present
  /\ UNCHANGED <<driverVars, fs, errShown, open>>

\* The drive stops answering for good.
Die ==
  /\ present /\ present' = FALSE
  /\ UNCHANGED <<status, cmd, wide, dbuf, left, card>>
  /\ UNCHANGED <<driverVars, fs, errShown, open>>

Pos   == Bytes - left
Moved == IF wide THEN 2 ELSE 1

\* A byte read from the data register (only made in the 8-bit mode).
ReadCycle ==
  /\ IF left > Moved
     THEN left' = left - Moved /\ UNCHANGED <<status, cmd, dbuf>>
     ELSE Done({})
  /\ UNCHANGED <<present, wide, card>>

ByteRead == IF present /\ left > 0 THEN dbuf[Pos + 1] ELSE <<"junk", 1>>

\* A byte written to it: the 68000 drives it on both halves of the bus, and
\* in the 16-bit mode the drive takes both.  Without DRQ it is ignored.
WriteCycle(b) ==
  /\ IF present /\ left > 0
     THEN /\ dbuf' = [k \in 1 .. Bytes |->
                        IF k \in Pos + 1 .. Pos + Moved THEN b ELSE dbuf[k]]
          /\ left' = left - Moved
          /\ IF left' = 0
             THEN status' = {"BSY"} /\ cmd' = [cmd EXCEPT !.op = "flush"]
             ELSE UNCHANGED <<status, cmd>>
     ELSE UNCHANGED <<dbuf, left, status, cmd>>
  /\ UNCHANGED <<present, wide, card>>

-----------------------------------------------------------------------------
(* The driver.                                                             *)

hostVars == <<ideMode, base, mbr, call, sector, got, word, result, fs, errShown, open>>
stepVars == <<ideMode, base, mbr, call, result, fs, open>>

Goto(place) == pc' = place /\ UNCHANGED hostVars

\* A call returns.  FatFs uses the volume after a disk_initialize that
\* succeeded, and asks disk_status before it goes on.
Return(r) ==
  /\ pc' = "idle" /\ result' = r
  /\ fs' = CASE call.op = "init"   -> IF r = "ok" THEN "ready" ELSE "none"
             [] call.op = "status" -> IF r = "ok" THEN "ready" ELSE "lost"
             [] OTHER -> fs
  /\ open' = IF r = "ok" THEN NoCall ELSE open
  /\ sector' = 0 /\ word' = 0
  /\ UNCHANGED <<ideMode, call, errShown>>

Begin(c, place) ==
  /\ pc = "idle" /\ pc' = place
  /\ call' = c /\ sector' = 0 /\ word' = 0 /\ got' = <<>>
  /\ result' = "none" /\ errShown' = FALSE
  /\ open' = IF c.op = "write" THEN c ELSE open
  /\ UNCHANGED <<driveVars, ideMode, mbr, fs>>

\* disk_initialize: ata_init forgets the bases before it looks for the drive.
DiskInitialize ==
  /\ Begin([NoCall EXCEPT !.op = "init"], "signature")
  /\ base' = 0

DiskStatus ==
  /\ fs # "none"
  /\ Begin([NoCall EXCEPT !.op = "status"], "signature")
  /\ UNCHANGED base

\* disk_read and disk_write add the base of the first partition.  FatFs asks
\* for sectors of its volume; one past its end is included.
Volume == 0 .. Capacity - PartBase

DiskRead ==
  /\ fs = "ready"
  /\ \E l \in Volume, n \in 1 .. MaxCount :
       Begin([NoCall EXCEPT !.op = "read", !.first = base + l, !.count = n], "features")
  /\ UNCHANGED base

\* The data given for sector i: neighbours differ, so that a mix-up shows.
Fill(i) == Sector(IF i % 2 = 1 THEN "odd" ELSE "even")

DiskWrite ==
  /\ fs = "ready"
  /\ \E l \in Volume, n \in 1 .. MaxCount :
       Begin([op |-> "write", first |-> base + l, count |-> n,
              data |-> [i \in 1 .. n |-> Fill(i)], exact |-> ideMode = 0],
             "features")
  /\ UNCHANGED base

\* Another drive than 0 is refused.
WrongDrive ==
  /\ pc = "idle"
  /\ result' = "parerr"
  /\ UNCHANGED <<driveVars, pc, ideMode, base, mbr, call, sector, got, word>>
  /\ UNCHANGED <<fs, errShown, open>>

\* ata_read_identity, built with DEBUG_ON and called at the start.
ReadIdentity ==
  /\ fs = "none"
  /\ Begin([NoCall EXCEPT !.op = "identity"], "ident_ready")
  /\ UNCHANGED base

\* The shell command idemode.
SetIdeBusMode ==
  /\ pc = "idle"
  /\ ideMode' = 1 - ideMode
  /\ UNCHANGED <<driveVars, pc, base, mbr, call, sector, got, word, result>>
  /\ UNCHANGED <<fs, errShown, open>>

\* has_master_disk: a register of a drive that is there keeps what is written
\* to it; while the drive is busy it may not.
Signature ==
  /\ pc = "signature"
  /\ \/ present /\ Goto("identify")
     \/ /\ ~present \/ "BSY" \in status
        /\ Return("error")
        /\ UNCHANGED <<base, mbr, got>>
  /\ UNCHANGED driveVars

IdentifyCommand ==
  /\ pc \in {"identify", "ident_command"}
  /\ CommandCycle("identify", 0)
  /\ Goto(IF pc = "identify" THEN "detect" ELSE "ident_wait")

\* ata_detect: the loop over the status; the identity block is left unread.
Detect ==
  /\ pc = "detect"
  /\ "BSY" \notin Shown
  /\ \/ /\ "DRQ" \in Shown /\ call.op = "init" /\ Goto("features")
     \/ /\ ~("DRQ" \in Shown /\ call.op = "init")
        /\ Return(IF "DRQ" \in Shown THEN "ok" ELSE "error")
        /\ UNCHANGED <<base, mbr, got>>
  /\ UNCHANGED driveVars

\* The loops of ata_detect and ata_read_identity that count.
Bounded == {"detect", "ident_ready", "ident_wait", "ident_again"}

\* Faulty variant of TimeOut: the loop of ata_detect does not count.
TimeOutNotDetect ==
  /\ pc \in Bounded \ {"detect"}
  /\ "BSY" \in Shown
  /\ Return("error")
  /\ UNCHANGED <<driveVars, base, mbr, got>>

TimeOut ==
  /\ pc \in Bounded
  /\ "BSY" \in Shown
  /\ Return("error")
  /\ UNCHANGED <<driveVars, base, mbr, got>>

\* Faulty variant of Features: ATA_WAIT is left out.
FeaturesNoWait ==
  /\ pc = "features"
  /\ CommandCycle(IF ideMode = 0 THEN "narrow" ELSE "widen", 0)
  /\ Goto("command")

\* go_8bits_mode.
Features ==
  /\ pc = "features"
  /\ CommandCycle(IF ideMode = 0 THEN "narrow" ELSE "widen", 0)
  /\ Goto("features_wait")

\* The loops that only wait for BSY to clear.
AfterWait == [features_wait |-> "command", command_wait |-> "check",
              write_wait |-> "write", end_wait |-> "end_check",
              ident_ready |-> "ident_command", ident_wait |-> "ident_check",
              ident_again |-> "read"]

WaitNotBusy ==
  /\ pc \in DOMAIN AfterWait
  /\ "BSY" \notin Shown
  /\ Goto(AfterWait[pc])
  /\ UNCHANGED driveVars

\* Faulty variant of Target: the address is not advanced.
TargetFirst == IF call.op = "init" THEN 0 ELSE call.first % LbaMod

\* The sector number is an int of which 28 bits reach the drive.
Target == IF call.op = "init" THEN 0 ELSE (call.first + sector) % LbaMod

Command ==
  /\ pc = "command"
  /\ CommandCycle(IF call.op = "write" THEN "write" ELSE "read", Target)
  /\ Goto("command_wait")

\* The bases ata_init may take from what is at 0xA2000.
BasesIn(table) == IF table THEN {PartBase} ELSE GarbageBases

\* ata_init does not look at what ata_read_sector returned.
InitDone(table) ==
  /\ mbr' = table /\ base' \in BasesIn(table)
  /\ Return("ok")

Check ==
  /\ pc \in {"check", "ident_check"}
  /\ \/ /\ "ERR" \notin Shown
        /\ Goto(IF pc = "ident_check" THEN "ident_again" ELSE "data_wait")
     \/ /\ "ERR" \in Shown /\ call.op = "init"
        /\ InitDone(mbr) /\ UNCHANGED got
     \/ /\ "ERR" \in Shown /\ call.op # "init"
        /\ Return("error") /\ UNCHANGED <<base, mbr, got>>
  /\ UNCHANGED driveVars

\* ATA_WAIT and ATA_WAIT_FOR_DATA, without a bound.
DataWait ==
  /\ pc = "data_wait"
  /\ "BSY" \notin Shown /\ "DRQ" \in Shown
  /\ Goto(IF call.op = "write" THEN "write_wait" ELSE "read")
  /\ UNCHANGED driveVars

\* The data register is at an odd address: in the 16-bit mode the word access
\* is an address error, and the machine has to be reset.
AddressError ==
  /\ pc = "read" /\ ideMode = 1 /\ call.op # "identity"
  /\ Goto("fault")
  /\ UNCHANGED driveVars

Read ==
  /\ pc = "read" /\ (ideMode = 0 \/ call.op = "identity")
  /\ got' = Append(got, ByteRead)
  /\ ReadCycle
  /\ word' = word + 1
  /\ pc' = "read_wait"
  /\ UNCHANGED stepVars /\ UNCHANGED <<sector, errShown>>

\* The end of a byte read, of a sector, of the call.
More == word < Bytes

NextSector ==
  /\ call.op \in {"read", "write"} /\ sector + 1 < call.count
  /\ pc' = "features" /\ word' = 0 /\ sector' = sector + 1
  /\ UNCHANGED stepVars /\ UNCHANGED <<got, errShown>>

LastSector ==
  /\ ~(call.op \in {"read", "write"} /\ sector + 1 < call.count)
  /\ \/ call.op = "init" /\ InitDone(got = Sector("mbr")) /\ UNCHANGED got
     \/ call.op # "init" /\ Return("ok") /\ UNCHANGED <<base, mbr, got>>

ReadWait ==
  /\ pc = "read_wait"
  /\ "BSY" \notin Shown
  /\ \/ More /\ Goto("read")
     \/ ~More /\ (NextSector \/ LastSector)
  /\ UNCHANGED driveVars

\* Faulty variant of Write: the last byte is not followed by ATA_WAIT.
WriteNoWait ==
  /\ pc = "write"
  /\ WriteCycle(call.data[sector + 1][word + 1])
  /\ word' = word + 1
  /\ pc' = IF word + 1 < Bytes THEN "write_wait" ELSE "end_check"
  /\ UNCHANGED stepVars /\ UNCHANGED <<sector, got, errShown>>

Write ==
  /\ pc = "write"
  /\ WriteCycle(call.data[sector + 1][word + 1])
  /\ word' = word + 1
  /\ pc' = IF word + 1 < Bytes THEN "write_wait" ELSE "end_wait"
  /\ UNCHANGED stepVars /\ UNCHANGED <<sector, got, errShown>>

\* An error is written to the log, and 512 is returned all the same.
EndCheck ==
  /\ pc = "end_check"
  /\ errShown' = (errShown \/ "ERR" \in Shown)
  /\ \/ /\ sector + 1 < call.count
        /\ pc' = "features" /\ word' = 0 /\ sector' = sector + 1
        /\ UNCHANGED stepVars /\ UNCHANGED got
     \/ /\ sector + 1 = call.count
        /\ pc' = "idle" /\ result' = "ok" /\ open' = NoCall
        /\ sector' = 0 /\ word' = 0
        /\ UNCHANGED <<ideMode, call, fs, base, mbr, got>>
  /\ UNCHANGED driveVars

\* The 68000 is reset; the reset may reach the drive or not.
Reset ==
  /\ pc' = "idle" /\ result' = "none" /\ ideMode' = 0 /\ base' = 0 /\ fs' = "none"
  /\ call' = NoCall /\ sector' = 0 /\ word' = 0 /\ got' = <<>> /\ errShown' = FALSE
  /\ \/ UNCHANGED driveVars
     \/ /\ present
        /\ Done({}) /\ wide' = TRUE
        /\ UNCHANGED <<present, card>>
  /\ UNCHANGED <<mbr, open>>

-----------------------------------------------------------------------------
Driver == \/ Signature \/ IdentifyCommand \/ Detect \/ TimeOut \/ Features
          \/ WaitNotBusy \/ Command \/ Check \/ DataWait \/ AddressError
          \/ Read \/ ReadWait \/ Write \/ EndCheck

Calls == \/ DiskInitialize \/ DiskStatus \/ DiskRead \/ DiskWrite
         \/ WrongDrive \/ ReadIdentity \/ SetIdeBusMode

Next == DriveStep \/ Die \/ Driver \/ Calls \/ Reset

\* The driver keeps running and a drive that is there ends each command;
\* nothing makes FatFs start a call.
Fairness == WF_vars(Driver) /\ WF_vars(DriveStep)

Spec == Init /\ [][Next]_vars /\ Fairness

-----------------------------------------------------------------------------
(* Properties.                                                             *)

GotSectors == [i \in 1 .. Len(got) \div Bytes |-> SubSeq(got, (i - 1) * Bytes + 1, i * Bytes)]

Abstract == INSTANCE SectorDisk WITH
  req <- call, reply <- result, got <- GotSectors

\* disk_read and disk_write serve FatFs an array of sectors: a read that
\* returns RES_OK gave the sectors asked for (never bytes of the identity
\* block that ata_detect leaves in the drive), a write touches only its own
\* sectors, and nothing is written after a call has succeeded.
ImplementsSectorDisk == Abstract!Spec

Written == \A i \in 0 .. call.count - 1 :
             /\ (call.first + i) % LbaMod \in Lbas
             /\ card[(call.first + i) % LbaMod] = call.data[i + 1]

WriteReturned == pc = "idle" /\ call.op = "write" /\ result = "ok" /\ call.exact

\* When disk_write returned RES_OK and no status showed ERR after its data,
\* every sector is on the card: the wait after the last byte lasts until the
\* drive has stored it.
WriteOkNoErr == WriteReturned /\ ~errShown => Written

\* RES_OK from disk_write means that the sectors are on the card.
WriteOkWritten == WriteReturned => Written

\* A command for data or for the bus width is never given to a drive that is
\* busy: the driver does not wait before its commands, it relies on every
\* earlier call to have left the drive idle.
CommandToIdleDrive ==
  pc \in {"features", "command"} => (present => "BSY" \notin status)

Unbounded == {"features_wait", "command_wait", "data_wait", "read_wait",
              "write_wait", "end_wait"}

Held == pc = "fault" \/ (~present /\ pc \in Unbounded)

\* Every call returns; only a drive that stops answering in the middle of a
\* sector, or the address error of the 16-bit mode, holds the BIOS.  The
\* search for a drive returns even without one.
CallReturns == (pc # "idle") ~> (pc = "idle" \/ Held)
=============================================================================
