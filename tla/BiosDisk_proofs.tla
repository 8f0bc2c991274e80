--------------------------- MODULE BiosDisk_proofs ---------------------------
(***************************************************************************)
(* Proofs about BiosDisk for every size of card, sector and request: the   *)
(* driver gives no command to a busy drive, disk_read and disk_write are   *)
(* the sector array of SectorDisk, and a write that showed no error is on  *)
(* the card.                                                               *)
(*                                                                         *)
(* Nothing is known of a drive that has stopped answering, and nothing has *)
(* to be: the driver never leaves the loop it is in.  So what the          *)
(* invariant says of the drive it says while the drive is present.         *)
(***************************************************************************)
EXTENDS BiosDisk, Integers, SequenceTheorems, TLAPS

-----------------------------------------------------------------------------
(* The inductive invariant.                                                *)

\* A byte carries the name of its sector's contents and its place in it.
Cell      == {"mbr", "old", "junk", "identity", "odd", "even"} \X (1 .. Bytes)
SectorSet == [1 .. Bytes -> Cell]
Ops       == {"none", "init", "status", "read", "write", "identity"}
CallSet   == [op : Ops, first : Nat, count : Nat, data : Seq(SectorSet), exact : BOOLEAN]

Types ==
  /\ present \in BOOLEAN /\ wide \in BOOLEAN
  /\ left \in 0 .. Bytes
  /\ dbuf \in SectorSet /\ card \in [Lbas -> SectorSet]
  /\ ideMode \in {0, 1} /\ base \in Nat
  /\ call \in CallSet
  /\ sector \in Nat /\ word \in 0 .. Bytes
  /\ got \in Seq(Cell)

\* DRQ is up exactly while bytes are left, and alone; a word is never cut.
DataPhase ==
  /\ left > 0 => status = {"DRQ"}
  /\ "DRQ" \in status => left > 0
  /\ wide => left % 2 = 0

\* The places of the driver and the calls that pass through them.
Search   == {"signature", "identify", "detect"}
Identify == {"ident_ready", "ident_command", "ident_wait", "ident_check", "ident_again"}
Opening  == {"features", "features_wait", "command", "command_wait", "check", "data_wait"}
Writing  == {"write_wait", "write", "end_wait", "end_check"}
Reading  == {"read", "read_wait", "fault"}

PlaceInv ==
  /\ pc \in {"idle"} \cup Search \cup Identify \cup Opening \cup Writing \cup Reading
  /\ pc \in Search => call.op \in {"init", "status"}
  /\ pc \in Identify => call.op = "identity"
  /\ pc \in Opening => call.op \in {"init", "read", "write"}
  /\ pc \in Writing => call.op = "write"
  /\ pc \in Reading => call.op \in {"init", "read", "identity"}
  /\ pc # "idle" /\ call.op = "identity" => fs = "none"

\* The call under way: it has no answer yet, and a write is the open one.
CallInv ==
  pc # "idle" =>
    /\ result = "none"
    /\ call.op = "write" => /\ open = call
                            /\ call.exact <=> ideMode = 0
                            /\ call.data \in [1 .. call.count -> SectorSet]
    /\ call.op \in {"read", "write"} => sector < call.count /\ call.count <= LbaMod
    /\ call.op \notin {"read", "write"} => sector = 0

WordInv ==
  /\ pc \in Opening \cup Search \cup Identify => word = 0
  /\ pc \in {"read", "write", "write_wait"} => word < Bytes
  /\ pc \in {"end_wait", "end_check"} => word = Bytes

\* At these places the drive is not busy, and stays so until the driver's
\* next access: the last status the driver read said so.
Settled == {"features", "command", "check", "data_wait", "write", "read",
            "read_wait", "end_check", "ident_command", "ident_check"}

IdleInv ==
  /\ pc \in Settled => "BSY" \notin status
  /\ pc = "idle" /\ fs = "ready" => "BSY" \notin status

\* The width of the transfers follows ide_bus_mode once SET FEATURES is done.
WidthInv ==
  /\ pc = "features_wait" =>
       \/ "BSY" \in status /\ cmd.op = (IF ideMode = 0 THEN "narrow" ELSE "widen")
       \/ "BSY" \notin status /\ (wide <=> ideMode = 1)
  /\ pc \in ((Opening \cup Writing \cup Reading) \ {"features", "features_wait"})
       /\ call.op # "identity" => (wide <=> ideMode = 1)
  /\ pc \in ((Opening \cup Writing \cup Reading) \ {"features", "features_wait"})
       /\ call.op # "identity" /\ "BSY" \in status => cmd.op \notin {"narrow", "widen"}

\* The sector the call is at, and the command for it.
This    == (call.first + sector) % LbaMod
ThisCmd == [op |-> IF call.op = "write" THEN "write" ELSE "read", lba |-> This]
AtThis  == cmd = ThisCmd /\ This \in Lbas

\* From the command to the first byte: the drive is at the sector of the call.
CommandInv ==
  pc \in {"command_wait", "check", "data_wait"} /\ call.op \in {"read", "write"} =>
    /\ "BSY" \in status => cmd = ThisCmd
    /\ left > 0 => AtThis /\ left = Bytes /\ (call.op = "read" => dbuf = card[This])

\* The byte loop of ata_write_sector; in the 16-bit mode the drive has the
\* whole sector, and stores it, half way through.
WritingInv ==
  /\ pc \in {"write_wait", "write"} =>
       /\ left > 0 => AtThis
       /\ call.exact => /\ left = Bytes - word
                        /\ \A k \in 1 .. word : dbuf[k] = call.data[sector + 1][k]
  /\ pc \in {"write_wait", "end_wait"} /\ "BSY" \in status => cmd.op = "flush"

\* A full sector in the drive belongs to the write that is open.
FlushInv ==
  cmd.op = "flush" =>
    /\ "BSY" \in status
    /\ cmd.lba \in Lbas
    /\ open.op = "write"
    /\ \E i \in 0 .. open.count - 1 :
         /\ cmd.lba = (open.first + i) % LbaMod
         /\ open.exact => dbuf = open.data[i + 1]

\* The byte loop of ata_read_sector.
ReadingInv ==
  /\ pc \in {"read", "read_wait"} /\ call.op = "read" /\ ideMode = 0 =>
       /\ left = Bytes - word
       /\ left > 0 => AtThis /\ dbuf = card[This]
  /\ pc = "read_wait" /\ call.op = "read" => ideMode = 0

\* What disk_read has stored so far.
GotCount == pc # "idle" /\ call.op = "read" => Len(got) = sector * Bytes + word

\* The k-th byte of the j-th sector of the call.
GotCell(j, k) == /\ (call.first + j) % LbaMod \in Lbas
                 /\ got[j * Bytes + k] = card[(call.first + j) % LbaMod][k]

GotInv ==
  pc # "idle" /\ call.op = "read" =>
    /\ cmd.op # "flush"
    /\ \A j \in 0 .. sector - 1 : \A k \in 1 .. Bytes : GotCell(j, k)
    /\ \A k \in 1 .. word : GotCell(sector, k)

\* The i-th sector of the call is on the card.
Stored(i) == /\ (call.first + i) % LbaMod \in Lbas
             /\ card[(call.first + i) % LbaMod] = call.data[i + 1]

\* A write without an error so far: every earlier sector is on the card, and
\* this one is, or is about to be, or the error is going to show.
StoredInv ==
  pc # "idle" /\ call.op = "write" /\ call.exact /\ ~errShown =>
    /\ \A i \in 0 .. sector - 1 : Stored(i)
    /\ cmd.op = "flush" => /\ pc = "end_wait"
                           /\ cmd.lba = This /\ dbuf = call.data[sector + 1]
    /\ pc \in {"end_wait", "end_check"} =>
         cmd.op = "flush" \/ "ERR" \in status \/ Stored(sector)

\* After a call that succeeded nothing is open.
OpenInv == pc = "idle" /\ result = "ok" => open.op # "write"

DriveInv == /\ IdleInv /\ WidthInv /\ CommandInv /\ WritingInv /\ FlushInv
            /\ ReadingInv /\ GotInv /\ StoredInv

HostInv == /\ Types /\ DataPhase /\ PlaceInv /\ CallInv /\ WordInv /\ GotCount /\ OpenInv

DiskInv == HostInv /\ (present => DriveInv) /\ WriteOkNoErr

-----------------------------------------------------------------------------
(* Arithmetic of the addresses and of the bytes of a call.                 *)

\* A whole number of sectors, counted back from their bytes.
LEMMA DivMul == ASSUME NEW n \in Nat, NEW b \in Nat, b > 0 PROVE (n * b) \div b = n
  OBVIOUS

\* Quotient and remainder.
LEMMA ModParts ==
  ASSUME NEW a \in Nat, NEW m \in Nat, m > 0
  PROVE  (a % m) \in 0 .. m - 1 /\ \E q \in Int : a = m * q + (a % m)
  <1>1. a = m * (a \div m) + (a % m)
    OBVIOUS
  <1>2. a \div m \in Int /\ (a % m) \in 0 .. m - 1
    OBVIOUS
  <1>3. QED
    BY <1>1, <1>2

\* No multiple of m lies between 0 and m.
LEMMA NoMultiple ==
  ASSUME NEW m \in Nat, NEW q \in Int, NEW d \in 1 .. m - 1, d = m * q
  PROVE  FALSE
  <1>1. CASE q >= 1
    <2>1. m * q >= m
      BY <1>1
    <2>2. QED
      BY <2>1
  <1>2. CASE q <= 0
    <2>1. m * q <= 0
      BY <1>2
    <2>2. QED
      BY <2>1
  <1>3. QED
    BY <1>1, <1>2

\* The sectors of a request no longer than the address space are apart.
LEMMA SectorsApart ==
  ASSUME NEW f \in Nat, NEW m \in Nat, NEW i \in 0 .. m - 1, NEW j \in 0 .. m - 1, i < j
  PROVE  (f + i) % m # (f + j) % m
  <1> SUFFICES ASSUME (f + i) % m = (f + j) % m
               PROVE  FALSE
    OBVIOUS
  <1> DEFINE r == (f + i) % m
  <1>1. f + i \in Nat /\ f + j \in Nat /\ m > 0
    OBVIOUS
  <1>2. PICK p \in Int : f + i = m * p + r
    BY <1>1, ModParts
  <1>3. PICK q \in Int : f + j = m * q + r
    BY <1>1, ModParts
  <1>4. r \in Int
    BY <1>1, ModParts
  <1> HIDE DEF r
  <1>5. j - i = m * q - m * p
    BY <1>2, <1>3, <1>4
  <1>6. m * q - m * p = m * (q - p)
    OBVIOUS
  <1>7. q - p \in Int /\ j - i \in 1 .. m - 1
    OBVIOUS
  <1>8. QED
    BY <1>5, <1>6, <1>7, NoMultiple

-----------------------------------------------------------------------------
(* The parts of the invariant about the driver alone.                      *)

\* A sector of one content is a sector.
LEMMA SectorType ==
  \A d \in {"mbr", "old", "junk", "identity", "odd", "even"} : Sector(d) \in SectorSet
  BY DEF Sector, SectorSet, Cell

\* Sectors with the same bytes are the same.
LEMMA SectorEqual ==
  ASSUME NEW a \in SectorSet, NEW b \in SectorSet, \A k \in 1 .. Bytes : a[k] = b[k]
  PROVE  a = b
  <1>1. a = [k \in 1 .. Bytes |-> a[k]]
    BY DEF SectorSet
  <1>2. b = [k \in 1 .. Bytes |-> b[k]]
    BY DEF SectorSet
  <1>3. [k \in 1 .. Bytes |-> a[k]] = [k \in 1 .. Bytes |-> b[k]]
    OBVIOUS
  <1>4. QED
    BY <1>1, <1>2, <1>3

LEMMA PlaceStep ==
  ASSUME HostInv, Next
  PROVE  PlaceInv'
  <1> USE DEF HostInv, PlaceInv, Search, Identify, Opening, Writing, Reading
  <1>1. CASE DriveStep \/ Die
    BY <1>1 DEF DriveStep, Die, driverVars
  <1>2. CASE Calls
    BY <1>2 DEF Calls, DiskInitialize, DiskStatus, DiskRead, DiskWrite, WrongDrive,
         ReadIdentity, SetIdeBusMode, Begin, NoCall
  <1>3. CASE Driver
    BY <1>3 DEF Driver, Signature, IdentifyCommand, Detect, TimeOut, Bounded, Features,
         WaitNotBusy, AfterWait, Command, Check, DataWait, AddressError, Read, ReadWait,
         NextSector, LastSector, InitDone, Write, EndCheck, Goto, Return, hostVars, stepVars
  <1>4. CASE Reset
    BY <1>4 DEF Reset
  <1>5. QED
    BY <1>1, <1>2, <1>3, <1>4 DEF Next

\* The five calls, as what they begin with.
BeginsCall == DiskInitialize \/ DiskStatus \/ DiskRead \/ DiskWrite \/ ReadIdentity

LEMMA CallBegins ==
  ASSUME HostInv, BeginsCall
  PROVE  /\ pc = "idle" /\ result' = "none" /\ errShown' = FALSE
         /\ sector' = 0 /\ word' = 0 /\ got' = <<>>
         /\ UNCHANGED <<driveVars, ideMode, mbr, fs>>
         /\ call' \in CallSet /\ base' \in Nat
         /\ call'.op # "write" => open' = open
         /\ \/ call'.op \in {"init", "status"} /\ pc' = "signature"
            \/ call'.op = "identity" /\ pc' = "ident_ready" /\ fs = "none"
            \/ /\ call'.op = "read" /\ pc' = "features" /\ fs = "ready"
               /\ call'.count \in 1 .. MaxCount
            \/ /\ call'.op = "write" /\ pc' = "features" /\ fs = "ready"
               /\ call'.count \in 1 .. MaxCount
               /\ open' = call' /\ (call'.exact <=> ideMode = 0)
               /\ call'.data \in [1 .. call'.count -> SectorSet]
  <1>0. base \in Nat /\ <<>> \in Seq(SectorSet) /\ \A l \in Volume : base + l \in Nat
    BY DiskAssumption DEF HostInv, Types, Volume
  <1>1. CASE DiskInitialize
    <2> DEFINE c == [NoCall EXCEPT !.op = "init"]
    <2>1. c \in CallSet /\ c.op = "init"
      BY <1>0 DEF NoCall, CallSet, Ops
    <2>2. Begin(c, "signature") /\ base' = 0
      BY <1>1 DEF DiskInitialize
    <2> HIDE DEF c
    <2>3. QED
      BY <2>1, <2>2 DEF Begin
  <1>2. CASE DiskStatus
    <2> DEFINE c == [NoCall EXCEPT !.op = "status"]
    <2>1. c \in CallSet /\ c.op = "status"
      BY <1>0 DEF NoCall, CallSet, Ops
    <2>2. Begin(c, "signature") /\ base' = base
      BY <1>2 DEF DiskStatus
    <2> HIDE DEF c
    <2>3. QED
      BY <1>0, <2>1, <2>2 DEF Begin
  <1>3. CASE ReadIdentity
    <2> DEFINE c == [NoCall EXCEPT !.op = "identity"]
    <2>1. c \in CallSet /\ c.op = "identity"
      BY <1>0 DEF NoCall, CallSet, Ops
    <2>2. Begin(c, "ident_ready") /\ base' = base /\ fs = "none"
      BY <1>3 DEF ReadIdentity
    <2> HIDE DEF c
    <2>3. QED
      BY <1>0, <2>1, <2>2 DEF Begin
  <1>4. CASE DiskRead
    <2>1. PICK l \in Volume, n \in 1 .. MaxCount :
            Begin([NoCall EXCEPT !.op = "read", !.first = base + l, !.count = n], "features")
      BY <1>4 DEF DiskRead
    <2> DEFINE c == [NoCall EXCEPT !.op = "read", !.first = base + l, !.count = n]
    <2>2. c \in CallSet /\ c.op = "read" /\ c.count = n
      <3>1. base + l \in Nat /\ n \in Nat
        BY <1>0
      <3>2. NoCall \in CallSet
        BY <1>0 DEF NoCall, CallSet, Ops
      <3>3. QED
        BY <3>1, <3>2 DEF CallSet, Ops
    <2>3. Begin(c, "features") /\ base' = base /\ fs = "ready"
      BY <1>4, <2>1 DEF DiskRead
    <2> HIDE DEF c
    <2>4. QED
      BY <1>0, <2>2, <2>3 DEF Begin
  <1>5. CASE DiskWrite
    <2>1. PICK l \in Volume, n \in 1 .. MaxCount :
            Begin([op |-> "write", first |-> base + l, count |-> n,
                   data |-> [i \in 1 .. n |-> Fill(i)], exact |-> ideMode = 0],
                  "features")
      BY <1>5 DEF DiskWrite
    <2> DEFINE d == [i \in 1 .. n |-> Fill(i)]
               c == [op |-> "write", first |-> base + l, count |-> n,
                     data |-> d, exact |-> ideMode = 0]
    <2>2. d \in [1 .. n -> SectorSet]
      BY SectorType DEF Fill
    <2>3. d \in Seq(SectorSet) /\ n \in Nat
      BY <2>2, SeqDef
    <2>4. Begin(c, "features") /\ base' = base /\ fs = "ready"
      BY <1>5, <2>1 DEF DiskWrite
    <2> HIDE DEF d
    <2>5. /\ c \in CallSet /\ c.op = "write" /\ c.count = n /\ c.data = d
          /\ c.exact <=> ideMode = 0
      BY <1>0, <2>3 DEF CallSet, Ops
    <2> HIDE DEF c
    <2>6. QED
      BY <1>0, <2>2, <2>4, <2>5 DEF Begin
  <1>6. QED
    BY <1>1, <1>2, <1>3, <1>4, <1>5 DEF BeginsCall

LEMMA WordStep ==
  ASSUME HostInv, Next
  PROVE  WordInv'
  <1> USE DiskAssumption
      DEF HostInv, PlaceInv, WordInv, Types, Search, Identify, Opening, Writing, Reading
  <1>1. CASE DriveStep \/ Die
    BY <1>1 DEF DriveStep, Die, driverVars
  <1>2. CASE Calls
    BY <1>2 DEF Calls, DiskInitialize, DiskStatus, DiskRead, DiskWrite, WrongDrive,
         ReadIdentity, SetIdeBusMode, Begin, NoCall
  <1>3. CASE Signature \/ Detect \/ TimeOut \/ Check
    BY <1>3 DEF Signature, Detect, TimeOut, Bounded, Check, InitDone, Goto, Return, hostVars
  <1>4. CASE IdentifyCommand \/ Features \/ Command
    BY <1>4 DEF IdentifyCommand, Features, Command, Goto, hostVars
  <1>5. CASE WaitNotBusy \/ DataWait \/ AddressError
    BY <1>5 DEF WaitNotBusy, AfterWait, DataWait, AddressError, Goto, hostVars
  <1>6. CASE Read
    BY <1>6 DEF Read
  <1>7. CASE ReadWait
    BY <1>7 DEF ReadWait, More, NextSector, LastSector, InitDone, Goto, Return, hostVars
  <1>8. CASE Write
    BY <1>8 DEF Write
  <1>9. CASE EndCheck \/ Reset
    BY <1>9 DEF EndCheck, Reset
  <1>10. QED
    BY <1>1, <1>2, <1>3, <1>4, <1>5, <1>6, <1>7, <1>8, <1>9 DEF Next, Driver

LEMMA CallStep ==
  ASSUME HostInv, Next
  PROVE  CallInv'
  <1>0. BeginsCall =>
          /\ result' = "none" /\ sector' = 0 /\ ideMode' = ideMode
          /\ call'.op \in {"read", "write"} => call'.count \in 1 .. MaxCount
          /\ call'.op = "write" => /\ open' = call' /\ (call'.exact <=> ideMode = 0)
                                  /\ call'.data \in [1 .. call'.count -> SectorSet]
    BY CallBegins
  <1> USE DiskAssumption
      DEF HostInv, PlaceInv, CallInv, Types, Search, Identify, Opening, Writing, Reading
  <1>1. CASE DriveStep \/ Die
    BY <1>1 DEF DriveStep, Die, driverVars
  <1>2. CASE BeginsCall
    BY <1>0, <1>2
  <1>4. CASE WrongDrive \/ SetIdeBusMode \/ Reset
    BY <1>4 DEF WrongDrive, SetIdeBusMode, Reset
  <1>5. CASE Signature \/ Detect \/ TimeOut \/ Check
    BY <1>5 DEF Signature, Detect, TimeOut, Bounded, Check, InitDone, Goto, Return, hostVars
  <1>6. CASE IdentifyCommand \/ Features \/ Command
    BY <1>6 DEF IdentifyCommand, Features, Command, Goto, hostVars
  <1>7. CASE WaitNotBusy \/ DataWait \/ AddressError
    BY <1>7 DEF WaitNotBusy, AfterWait, DataWait, AddressError, Goto, hostVars
  <1>8. CASE Read \/ Write \/ EndCheck
    BY <1>8 DEF Read, Write, EndCheck, stepVars
  <1>9. CASE ReadWait
    BY <1>9 DEF ReadWait, More, NextSector, LastSector, InitDone, Goto, Return, hostVars,
         stepVars
  <1>10. QED
    BY <1>1, <1>2, <1>4, <1>5, <1>6, <1>7, <1>8, <1>9 DEF Next, Driver, Calls, BeginsCall

LEMMA OpenStep ==
  ASSUME HostInv, Next
  PROVE  OpenInv'
  <1> USE DEF HostInv, OpenInv, NoCall
  <1>1. CASE DriveStep \/ Die
    BY <1>1 DEF DriveStep, Die, driverVars
  <1>2. CASE Calls \/ Reset
    BY <1>2 DEF Calls, DiskInitialize, DiskStatus, DiskRead, DiskWrite, WrongDrive,
         ReadIdentity, SetIdeBusMode, Begin, Reset
  <1>3. CASE Driver
    BY <1>3 DEF Driver, Signature, IdentifyCommand, Detect, TimeOut, Bounded, Features,
         WaitNotBusy, AfterWait, Command, Check, DataWait, AddressError, Read, ReadWait,
         NextSector, LastSector, InitDone, Write, EndCheck, Goto, Return, hostVars,
         stepVars, CallInv, PlaceInv
  <1>5. QED
    BY <1>1, <1>2, <1>3 DEF Next

LEMMA GotCountStep ==
  ASSUME HostInv, Next
  PROVE  GotCount'
  <1> DEFINE start == sector * Bytes
  <1>0. /\ start \in Nat /\ sector \in Nat /\ Bytes \in Nat /\ word \in 0 .. Bytes
        /\ (sector + 1) * Bytes + 0 = start + Bytes
    BY DiskAssumption DEF HostInv, Types
  <1> USE DEF HostInv, PlaceInv, GotCount, Search, Identify, Opening, Writing, Reading
  <1>1. CASE DriveStep \/ Die
    BY <1>1 DEF DriveStep, Die, driverVars
  <1>2. CASE BeginsCall
    <2>1. sector' = 0 /\ word' = 0 /\ Len(got') = 0
      BY <1>2, CallBegins
    <2>2. QED
      BY <1>0, <2>1
  <1>3. CASE Signature \/ Detect \/ TimeOut \/ Check
    BY <1>3 DEF Signature, Detect, TimeOut, Bounded, Check, InitDone, Goto, Return, hostVars
  <1>4. CASE IdentifyCommand \/ Features \/ Command
    BY <1>4 DEF IdentifyCommand, Features, Command, Goto, hostVars
  <1>5. CASE WaitNotBusy \/ DataWait \/ AddressError
    BY <1>5 DEF WaitNotBusy, AfterWait, DataWait, AddressError, Goto, hostVars
  <1>6. CASE Read
    <2>1. Len(got') = Len(got) + 1 /\ Len(got) \in Nat
      BY <1>6 DEF Read, Types
    <2>2. word' = word + 1 /\ sector' = sector /\ call' = call /\ pc # "idle"
      BY <1>6 DEF Read, stepVars
    <2>3. QED
      BY <1>0, <2>1, <2>2
  <1>7. CASE ReadWait
    <2>1. CASE More /\ Goto("read")
      BY <1>7, <2>1 DEF ReadWait, Goto, hostVars
    <2>2. CASE ~More /\ NextSector
      <3>1. /\ got' = got /\ word = Bytes /\ word' = 0 /\ sector' = sector + 1
            /\ call' = call /\ pc # "idle"
        BY <1>0, <1>7, <2>2 DEF ReadWait, NextSector, stepVars, More
      <3>2. QED
        BY <1>0, <3>1
    <2>3. CASE LastSector
      BY <2>3 DEF LastSector, InitDone, Return
    <2>4. QED
      BY <1>7, <2>1, <2>2, <2>3 DEF ReadWait
  <1>8. CASE Write \/ EndCheck \/ Reset \/ WrongDrive \/ SetIdeBusMode
    BY <1>8 DEF Write, EndCheck, Reset, WrongDrive, SetIdeBusMode, stepVars
  <1>9. QED
    BY <1>1, <1>2, <1>3, <1>4, <1>5, <1>6, <1>7, <1>8 DEF Next, Driver, Calls, BeginsCall

LEMMA CommandTypes ==
  ASSUME HostInv, NEW op, NEW l, CommandCycle(op, l)
  PROVE  /\ wide' = wide /\ present' = present /\ card' = card
         /\ left' \in 0 .. Bytes /\ dbuf' \in SectorSet
         /\ DataPhase'
  <1>1. Junk \in SectorSet /\ 0 \in 0 .. Bytes
    BY SectorType, DiskAssumption DEF Junk
  <1>2. CASE present /\ "BSY" \notin status
    BY <1>1, <1>2 DEF CommandCycle, DataPhase, HostInv
  <1>3. CASE ~(present /\ "BSY" \notin status)
    BY <1>3 DEF CommandCycle, DataPhase, HostInv, Types
  <1>4. QED
    BY <1>2, <1>3

\* What the drive and a byte read or written do to the data phase.
LEMMA DriveTypes ==
  ASSUME HostInv, DriveStep
  PROVE  DataPhase' /\ Types'
  <1>0. /\ Junk \in SectorSet /\ Sector("identity") \in SectorSet
        /\ Bytes \in 0 .. Bytes /\ 0 \in 0 .. Bytes /\ Bytes % 2 = 0 /\ 0 % 2 = 0 /\ Bytes > 0
    BY SectorType, DiskAssumption DEF Junk
  <1>1. UNCHANGED <<present, ideMode, base, call, sector, word, got>>
    BY DEF DriveStep, driverVars
  <1>2. ASSUME NEW bits, Done(bits), "DRQ" \notin bits,
               wide' \in BOOLEAN, card' \in [Lbas -> SectorSet]
        PROVE  DataPhase' /\ Types'
    BY <1>0, <1>1, <1>2 DEF Done, DataPhase, Types, HostInv
  <1>3. ASSUME NEW data \in SectorSet, Ready(data)
        PROVE  DataPhase' /\ Types'
    BY <1>0, <1>1, <1>3 DEF Ready, DataPhase, Types, HostInv
  <1>4. CASE Done({}) /\ wide' = (cmd.op = "widen") /\ UNCHANGED card
    BY <1>2, <1>4 DEF Types, HostInv
  <1>5. CASE cmd.op = "identify" /\ Ready(Sector("identity"))
    BY <1>0, <1>3, <1>5
  <1>6. CASE cmd.lba \in Lbas /\ Ready(card[cmd.lba])
    BY <1>3, <1>6 DEF Types, HostInv
  <1>7. CASE Ready(Junk)
    BY <1>0, <1>3, <1>7
  <1>8. CASE Done({}) /\ card' = [card EXCEPT ![cmd.lba] = dbuf] /\ UNCHANGED wide
    BY <1>2, <1>8 DEF Types, HostInv
  <1>9. CASE Done({"ERR"}) /\ UNCHANGED <<wide, card>>
    BY <1>2, <1>9 DEF Types, HostInv
  <1>10. QED
    BY <1>4, <1>5, <1>6, <1>7, <1>8, <1>9 DEF DriveStep

LEMMA ReadTypes ==
  ASSUME HostInv, Read
  PROVE  DataPhase' /\ Types'
  <1>0. Junk \in SectorSet /\ Bytes \in Nat /\ Bytes > 0 /\ 0 % 2 = 0
    BY SectorType, DiskAssumption DEF Junk
  <1>1. /\ UNCHANGED <<present, wide, card, ideMode, base, call, sector>>
        /\ got' = Append(got, ByteRead) /\ word' = word + 1 /\ word < Bytes
    BY DEF Read, ReadCycle, stepVars, HostInv, WordInv
  <1>2. ByteRead \in Cell
    <2>1. CASE present /\ left > 0
      <3>1. Pos + 1 \in 1 .. Bytes
        BY <1>0, <2>1 DEF Pos, HostInv, Types
      <3>2. QED
        BY <2>1, <3>1 DEF ByteRead, HostInv, Types, SectorSet
    <2>2. CASE ~(present /\ left > 0)
      BY <1>0, <2>2 DEF ByteRead, Cell
    <2>3. QED
      BY <2>1, <2>2
  <1>3. got' \in Seq(Cell) /\ word' \in 0 .. Bytes
    BY <1>0, <1>1, <1>2 DEF HostInv, Types
  <1>4. DataPhase' /\ left' \in 0 .. Bytes /\ dbuf' \in SectorSet
    <2>1. CASE left > Moved
      <3>1. left' = left - Moved /\ UNCHANGED <<status, dbuf>>
        BY <2>1 DEF Read, ReadCycle
      <3>2. CASE wide
        BY <1>0, <1>1, <2>1, <3>1, <3>2 DEF Moved, HostInv, Types, DataPhase
      <3>3. CASE ~wide
        BY <1>0, <1>1, <2>1, <3>1, <3>3 DEF Moved, HostInv, Types, DataPhase
      <3>4. QED
        BY <3>2, <3>3
    <2>2. CASE ~(left > Moved)
      BY <1>0, <1>1, <2>2 DEF Read, ReadCycle, Done, HostInv, Types, DataPhase
    <2>3. QED
      BY <2>1, <2>2
  <1>5. QED
    BY <1>1, <1>3, <1>4 DEF HostInv, Types

LEMMA WriteTypes ==
  ASSUME HostInv, Write
  PROVE  DataPhase' /\ Types'
  <1>0. Bytes \in Nat /\ Bytes > 0 /\ 0 % 2 = 0
    BY DiskAssumption
  <1>1. /\ UNCHANGED <<present, wide, card, ideMode, base, call, sector, got>>
        /\ word' = word + 1 /\ word < Bytes /\ pc = "write"
    BY DEF Write, WriteCycle, stepVars, HostInv, WordInv
  <1>2. CASE present /\ left > 0
    <2> DEFINE b == call.data[sector + 1][word + 1]
    <2>1. /\ dbuf' = [k \in 1 .. Bytes |-> IF k \in Pos + 1 .. Pos + Moved THEN b ELSE dbuf[k]]
          /\ left' = left - Moved
          /\ left' = 0 => status' = {"BSY"}
          /\ left' # 0 => status' = status
      BY <1>2 DEF Write, WriteCycle
    <2>2. b \in Cell
      <3>1. /\ call.data \in [1 .. call.count -> SectorSet] /\ call.count \in Nat
            /\ sector + 1 \in 1 .. call.count
        BY <1>1 DEF HostInv, Types, CallSet, CallInv, PlaceInv, Writing
      <3>2. word + 1 \in 1 .. Bytes
        BY <1>0, <1>1 DEF HostInv, Types
      <3>3. QED
        BY <3>1, <3>2 DEF SectorSet
    <2> HIDE DEF b
    <2>3. dbuf' \in SectorSet
      BY <2>1, <2>2 DEF HostInv, Types, SectorSet
    <2>4. DataPhase' /\ left' \in 0 .. Bytes
      <3>1. CASE wide
        BY <1>0, <1>1, <1>2, <2>1, <3>1 DEF Moved, HostInv, Types, DataPhase
      <3>2. CASE ~wide
        BY <1>0, <1>1, <1>2, <2>1, <3>2 DEF Moved, HostInv, Types, DataPhase
      <3>3. QED
        BY <3>1, <3>2
    <2>5. QED
      BY <1>0, <1>1, <2>3, <2>4 DEF HostInv, Types
  <1>3. CASE ~(present /\ left > 0)
    BY <1>0, <1>1, <1>3 DEF Write, WriteCycle, HostInv, Types, DataPhase
  <1>4. QED
    BY <1>2, <1>3

\* Types and the data phase under every step.
LEMMA TypesStep ==
  ASSUME HostInv, Next
  PROVE  Types' /\ DataPhase'
  <1>0. /\ 0 \in Nat /\ 0 \in 0 .. Bytes /\ Junk \in SectorSet /\ <<>> \in Seq(Cell) /\ 0 % 2 = 0
        /\ \A t \in BOOLEAN : BasesIn(t) \subseteq Nat
    BY SectorType, DiskAssumption DEF Junk, BasesIn
  <1>1. CASE Die
    BY <1>1 DEF Die, driverVars, HostInv, Types, DataPhase
  <1>2. CASE BeginsCall
    <2>1. /\ call' \in CallSet /\ base' \in Nat /\ sector' = 0 /\ word' = 0 /\ got' = <<>>
          /\ UNCHANGED <<present, status, wide, dbuf, left, card, ideMode>>
      BY <1>2, CallBegins DEF driveVars
    <2>2. QED
      BY <1>0, <2>1 DEF HostInv, Types, DataPhase
  <1>3. CASE WrongDrive \/ SetIdeBusMode
    BY <1>3 DEF WrongDrive, SetIdeBusMode, driveVars, HostInv, Types, DataPhase
  <1>4. CASE Reset
    <2>1. NoCall \in CallSet
      <3>1. <<>> \in Seq(SectorSet)
        OBVIOUS
      <3>2. QED
        BY <3>1 DEF NoCall, CallSet, Ops
    <2>2. /\ ideMode' = 0 /\ base' = 0 /\ call' = NoCall /\ sector' = 0 /\ word' = 0
          /\ got' = <<>> /\ UNCHANGED <<present, card>>
      BY <1>4 DEF Reset, driveVars
    <2>3. /\ wide' \in BOOLEAN /\ left' \in 0 .. Bytes /\ dbuf' \in SectorSet /\ DataPhase'
      <3>1. CASE UNCHANGED driveVars
        BY <3>1 DEF driveVars, HostInv, Types, DataPhase
      <3>2. CASE Done({}) /\ wide' = TRUE
        BY <1>0, <3>2 DEF Done, DataPhase
      <3>3. QED
        BY <1>4, <3>1, <3>2 DEF Reset
    <2>4. QED
      BY <1>0, <2>1, <2>2, <2>3 DEF HostInv, Types
  <1>5. CASE IdentifyCommand \/ Features \/ Command
    <2>1. UNCHANGED <<ideMode, base, call, sector, word, got>>
      BY <1>5 DEF IdentifyCommand, Features, Command, Goto, hostVars
    <2>2. \E op, l : CommandCycle(op, l)
      BY <1>5 DEF IdentifyCommand, Features, Command
    <2>3. QED
      BY <2>1, <2>2, CommandTypes DEF HostInv, Types
  <1>6. ASSUME UNCHANGED driveVars, UNCHANGED <<ideMode, call, got>>, base' \in Nat,
               sector' \in Nat, word' \in 0 .. Bytes
        PROVE  Types' /\ DataPhase'
    BY <1>6 DEF driveVars, HostInv, Types, DataPhase
  <1>7. ASSUME NEW r, Return(r)
        PROVE  UNCHANGED <<ideMode, call>> /\ sector' \in Nat /\ word' \in 0 .. Bytes
    BY <1>0, <1>7 DEF Return
  <1>8. ASSUME NEW t \in BOOLEAN, InitDone(t)
        PROVE  base' \in Nat /\ UNCHANGED <<ideMode, call>> /\ sector' \in Nat
                 /\ word' \in 0 .. Bytes
    BY <1>0, <1>7, <1>8 DEF InitDone
  <1>9. base \in Nat /\ sector \in Nat /\ word \in 0 .. Bytes /\ sector + 1 \in Nat
    BY DEF HostInv, Types
  <1>10. ASSUME NEW place, Goto(place), UNCHANGED driveVars
         PROVE  Types' /\ DataPhase'
    BY <1>6, <1>9, <1>10 DEF Goto, hostVars
  <1>11. CASE WaitNotBusy \/ DataWait \/ AddressError
    BY <1>10, <1>11 DEF WaitNotBusy, DataWait, AddressError
  <1>12. CASE Signature \/ Detect \/ TimeOut
    BY <1>6, <1>7, <1>9, <1>10, <1>12 DEF Signature, Detect, TimeOut
  <1>13. CASE Check
    <2>1. CASE InitDone(mbr) /\ UNCHANGED got
      <3>2. base' \in Nat
        BY <2>1, DiskAssumption DEF InitDone, BasesIn
      <3>3. UNCHANGED <<ideMode, call>> /\ sector' \in Nat /\ word' \in 0 .. Bytes
        BY <2>1, <1>7 DEF InitDone
      <3>4. QED
        BY <1>6, <1>13, <2>1, <3>2, <3>3 DEF Check
    <2>2. CASE Return("error") /\ UNCHANGED <<base, mbr, got>>
      BY <1>6, <1>7, <1>9, <1>13, <2>2 DEF Check
    <2>3. QED
      BY <1>10, <1>13, <2>1, <2>2 DEF Check
  <1>14. CASE ReadWait
    <2>1. CASE NextSector
      BY <1>0, <1>6, <1>9, <1>14, <2>1 DEF ReadWait, NextSector, stepVars
    <2>2. CASE LastSector
      BY <1>6, <1>7, <1>8, <1>9, <1>14, <2>2 DEF ReadWait, LastSector
    <2>3. QED
      BY <1>10, <1>14, <2>1, <2>2 DEF ReadWait
  <1>15. CASE EndCheck
    BY <1>0, <1>6, <1>9, <1>15 DEF EndCheck, stepVars
  <1>16. QED
    BY <1>1, <1>2, <1>3, <1>4, <1>5, <1>11, <1>12, <1>13, <1>14, <1>15, DriveTypes,
       ReadTypes, WriteTypes DEF Next, Driver, Calls, BeginsCall

LEMMA HostStep ==
  ASSUME HostInv, [Next]_vars
  PROVE  HostInv'
  <1>1. CASE Next
    BY <1>1, TypesStep, PlaceStep, CallStep, WordStep, GotCountStep, OpenStep DEF HostInv
  <1>2. CASE UNCHANGED vars
    BY <1>2 DEF vars, driveVars, driverVars, HostInv, Types, DataPhase, PlaceInv, CallInv,
         WordInv, GotCount, OpenInv
  <1>3. QED
    BY <1>1, <1>2

-----------------------------------------------------------------------------
(* The parts about the drive, while it is present.                         *)

\* The places a call can go to without an access to the drive, as a frame:
\* the status it saw is the status.
LEMMA ShownIsStatus == present => Shown = status
  BY DEF Shown

\* BSY is taken down by the drive alone; only a command or the last byte of a
\* write puts it up.
LEMMA IdleStep ==
  ASSUME HostInv, DriveInv, Next, present, present'
  PROVE  IdleInv'
  <1> USE DEF IdleInv, Settled
  <1>0. /\ IdleInv /\ PlaceInv /\ Shown = status
    BY ShownIsStatus DEF HostInv, DriveInv
  <1>1. CASE DriveStep \/ Die
    BY <1>0, <1>1 DEF DriveStep, Die, driverVars
  <1>2. CASE BeginsCall
    <2>1. pc = "idle" /\ status' = status /\ fs' = fs
            /\ (pc' = "features" => fs = "ready") /\ pc' \in {"signature", "ident_ready", "features"}
      BY <1>2, CallBegins DEF driveVars
    <2>2. QED
      BY <1>0, <2>1
  <1>3. CASE WrongDrive \/ SetIdeBusMode \/ Reset
    BY <1>0, <1>3 DEF WrongDrive, SetIdeBusMode, Reset, driveVars
  <1>4. CASE Signature \/ Detect \/ TimeOut \/ Check
    BY <1>0, <1>4 DEF Signature, Detect, TimeOut, Bounded, Check, InitDone, Goto, Return,
         hostVars, driveVars, PlaceInv, Search, Identify
  <1>5. CASE IdentifyCommand \/ Features \/ Command
    BY <1>0, <1>5 DEF IdentifyCommand, Features, Command, Goto
  <1>6. CASE WaitNotBusy \/ DataWait \/ AddressError
    BY <1>0, <1>6 DEF WaitNotBusy, AfterWait, DataWait, AddressError, Goto, hostVars, driveVars
  <1>7. CASE Read
    BY <1>0, <1>7 DEF Read, ReadCycle, Done
  <1>8. CASE ReadWait
    BY <1>0, <1>8 DEF ReadWait, NextSector, LastSector, InitDone, Goto, Return, hostVars,
         driveVars
  <1>9. CASE Write
    BY <1>0, <1>9 DEF Write
  <1>10. CASE EndCheck
    BY <1>0, <1>10 DEF EndCheck, driveVars, stepVars
  <1>11. QED
    BY <1>1, <1>2, <1>3, <1>4, <1>5, <1>6, <1>7, <1>8, <1>9, <1>10
       DEF Next, Driver, Calls, BeginsCall

\* The width changes only while the driver waits for SET FEATURES.
LEMMA WidthStep ==
  ASSUME HostInv, DriveInv, Next, present, present'
  PROVE  WidthInv'
  <1> USE DEF WidthInv, Opening, Writing, Reading
  <1>0. /\ WidthInv /\ IdleInv /\ PlaceInv /\ Shown = status /\ ideMode \in {0, 1}
        /\ wide \in BOOLEAN
    BY ShownIsStatus DEF HostInv, DriveInv, Types
  <1>1. CASE Die
    BY <1>0, <1>1 DEF Die
  <1>2. CASE DriveStep
    <2>0. pc' = pc /\ ideMode' = ideMode /\ call' = call /\ "BSY" \in status
      BY <1>2 DEF DriveStep, driverVars
    <2>1. CASE cmd.op \in {"narrow", "widen"}
      <3>1. status' = {} /\ (wide' <=> cmd.op = "widen")
        BY <1>2, <2>1 DEF DriveStep, Done
      <3>2. CASE pc = "features_wait"
        <4>1. wide' <=> ideMode' = 1
          BY <1>0, <2>0, <3>1, <3>2
        <4>2. QED
          BY <2>0, <3>1, <3>2, <4>1
      <3>3. CASE pc # "features_wait"
        BY <1>0, <2>0, <2>1, <3>1, <3>3
      <3>4. QED
        BY <3>2, <3>3
    <2>2. CASE cmd.op \notin {"narrow", "widen"}
      <3>1. wide' = wide /\ "BSY" \notin status'
        BY <1>2, <2>2 DEF DriveStep, Done, Ready
      <3>2. QED
        BY <1>0, <2>0, <2>2, <3>1
    <2>3. QED
      BY <2>1, <2>2
  <1>3. CASE BeginsCall
    BY <1>3, CallBegins
  <1>4. CASE WrongDrive \/ SetIdeBusMode \/ Reset
    BY <1>0, <1>4 DEF WrongDrive, SetIdeBusMode, Reset
  <1>5. CASE Signature \/ Detect \/ TimeOut \/ Check
    BY <1>0, <1>5 DEF Signature, Detect, TimeOut, Bounded, Check, InitDone, Goto, Return,
         hostVars, driveVars, PlaceInv, Identify
  <1>6. CASE IdentifyCommand
    BY <1>0, <1>6 DEF IdentifyCommand, Goto
  <1>7. CASE Features
    <2>1. /\ pc' = "features_wait" /\ ideMode' = ideMode /\ status' = {"BSY"}
          /\ cmd' = [op |-> IF ideMode = 0 THEN "narrow" ELSE "widen", lba |-> 0]
      BY <1>0, <1>7 DEF Features, CommandCycle, Goto, hostVars, IdleInv, Settled
    <2>2. QED
      BY <2>1
  <1>8. CASE Command
    <2>1. /\ pc' = "command_wait" /\ ideMode' = ideMode /\ wide' = wide /\ call' = call
          /\ cmd' = [op |-> IF call.op = "write" THEN "write" ELSE "read", lba |-> Target]
      BY <1>0, <1>8 DEF Command, CommandCycle, Goto, hostVars, IdleInv, Settled
    <2>2. QED
      BY <1>0, <1>8, <2>1 DEF Command
  <1>9. CASE WaitNotBusy \/ DataWait \/ AddressError
    BY <1>0, <1>9 DEF WaitNotBusy, AfterWait, DataWait, AddressError, Goto, hostVars,
         driveVars, PlaceInv, Identify
  <1>10. CASE Read
    <2>1. UNCHANGED <<wide, ideMode, call>> /\ pc' = "read_wait" /\ "BSY" \notin status'
      BY <1>0, <1>10 DEF Read, ReadCycle, Done, stepVars, IdleInv, Settled
    <2>2. QED
      BY <1>0, <1>10, <2>1 DEF Read
  <1>11. CASE ReadWait
    BY <1>0, <1>11 DEF ReadWait, NextSector, LastSector, InitDone, Goto, Return, hostVars,
         driveVars
  <1>12. CASE Write
    <2>1. /\ UNCHANGED <<wide, ideMode, call>> /\ pc' \in {"write_wait", "end_wait"}
          /\ call.op = "write"
      BY <1>0, <1>12 DEF Write, WriteCycle, stepVars, PlaceInv
    <2>2. "BSY" \in status' => cmd'.op = "flush"
      <3>1. CASE present /\ left > 0 /\ left' = 0
        <4>1. cmd = ThisCmd
          BY <1>12, <3>1 DEF Write, DriveInv, WritingInv, AtThis
        <4>2. QED
          BY <1>12, <3>1, <4>1 DEF Write, WriteCycle, ThisCmd
      <3>2. CASE ~(present /\ left > 0 /\ left' = 0)
        BY <1>0, <1>12, <3>2 DEF Write, WriteCycle, IdleInv, Settled
      <3>3. QED
        BY <3>1, <3>2
    <2>3. QED
      BY <1>0, <1>12, <2>1, <2>2 DEF Write
  <1>13. CASE EndCheck
    BY <1>0, <1>13 DEF EndCheck
  <1>14. QED
    BY <1>1, <1>2, <1>3, <1>4, <1>5, <1>6, <1>7, <1>8, <1>9, <1>10, <1>11, <1>12, <1>13
       DEF Next, Driver, Calls, BeginsCall

\* Which steps of the driver reach a place from another one: the rest of the
\* proofs look at these and at the drive.
LEMMA Arrivals ==
  ASSUME HostInv, Next
  PROVE  /\ pc' \in {"command_wait", "check", "data_wait"} =>
              \/ DriveStep \/ Die \/ Command
              \/ (WaitNotBusy /\ pc = "command_wait") \/ (Check /\ pc = "check")
         /\ pc' \in {"write_wait", "write"} =>
              DriveStep \/ Die \/ (WaitNotBusy /\ pc = "write_wait") \/ DataWait \/ Write
         /\ pc' \in {"end_wait", "end_check"} =>
              DriveStep \/ Die \/ (WaitNotBusy /\ pc = "end_wait") \/ Write
         /\ pc' \in {"read", "read_wait"} /\ call'.op = "read" =>
              DriveStep \/ Die \/ DataWait \/ Read \/ ReadWait
  <1>1. CASE BeginsCall
    BY <1>1, CallBegins
  <1>2. CASE WrongDrive \/ SetIdeBusMode \/ Reset
    BY <1>2 DEF WrongDrive, SetIdeBusMode, Reset
  <1>3. CASE Signature \/ Detect \/ TimeOut \/ IdentifyCommand \/ Features \/ AddressError
    BY <1>3 DEF Signature, Detect, TimeOut, IdentifyCommand, Features, AddressError, Goto,
         Return
  <1>4. CASE WaitNotBusy
    BY <1>4 DEF WaitNotBusy, AfterWait, Goto, hostVars, HostInv, PlaceInv, Identify
  <1>5. CASE Check
    BY <1>5 DEF Check, Goto, Return, InitDone, hostVars, HostInv, PlaceInv, Identify
  <1>6. CASE Command \/ DataWait
    BY <1>6 DEF Command, DataWait, Goto, hostVars
  <1>7. CASE Read \/ Write
    BY <1>7 DEF Read, Write
  <1>8. CASE ReadWait
    BY <1>8 DEF ReadWait, NextSector, LastSector, InitDone, Goto, Return
  <1>9. CASE EndCheck
    BY <1>9 DEF EndCheck
  <1>10. QED
    BY <1>1, <1>2, <1>3, <1>4, <1>5, <1>6, <1>7, <1>8, <1>9
       DEF Next, Driver, Calls, BeginsCall

\* The drive ends its command or has a sector ready; a sector is stored only
\* by the end of a flush.
LEMMA DriveEffect ==
  ASSUME HostInv, DriveStep
  PROVE  /\ "BSY" \in status /\ "BSY" \notin status' /\ UNCHANGED <<driverVars, fs, errShown, open>>
         /\ \/ left' = 0 /\ cmd' = NoCmd
            \/ /\ cmd' = cmd /\ left' = Bytes /\ cmd.op \in {"identify", "read", "write"}
               /\ cmd.op \in {"read", "write"} => cmd.lba \in Lbas
               /\ cmd.op = "read" => dbuf' = card[cmd.lba]
         /\ \/ card' = card
            \/ cmd.op = "flush" /\ status' = {} /\ card' = [card EXCEPT ![cmd.lba] = dbuf]
         /\ cmd.op = "flush" /\ card' = card =>
              "ERR" \in status' \/ card' = [card EXCEPT ![cmd.lba] = dbuf]
  BY DEF DriveStep, Done, Ready

LEMMA CommandStep ==
  ASSUME HostInv, DriveInv, Next, present, present'
  PROVE  CommandInv'
  <1> SUFFICES ASSUME pc' \in {"command_wait", "check", "data_wait"},
                      call'.op \in {"read", "write"}
               PROVE  CommandInv'
    BY DEF CommandInv
  <1>0. /\ CommandInv /\ IdleInv /\ DataPhase /\ Shown = status
        /\ left \in 0 .. Bytes /\ Bytes \in Nat /\ Bytes > 0
    BY ShownIsStatus, DiskAssumption DEF HostInv, DriveInv, Types
  <1>1. CASE Die
    BY <1>0, <1>1 DEF Die, driverVars, CommandInv, AtThis, This, ThisCmd
  <1>2. CASE DriveStep
    <2>1. /\ "BSY" \in status /\ "BSY" \notin status' /\ UNCHANGED <<pc, call, sector>>
      BY <1>2, DriveEffect DEF driverVars
    <2>2. cmd = ThisCmd /\ ThisCmd.op = cmd.op /\ ThisCmd.lba = This
          /\ (call.op = "read" => cmd.op = "read") /\ (call.op = "write" => cmd.op = "write")
      BY <1>0, <2>1 DEF CommandInv, ThisCmd
    <2>3. card' = card
      BY <1>2, <2>1, <2>2, DriveEffect
    <2>4. ThisCmd' = ThisCmd /\ This' = This
      BY <2>1 DEF ThisCmd, This
    <2>5. CASE left' = 0
      BY <2>1, <2>5 DEF CommandInv
    <2>6. CASE /\ cmd' = cmd /\ left' = Bytes /\ cmd.lba \in Lbas
               /\ cmd.op = "read" => dbuf' = card[cmd.lba]
      BY <2>1, <2>2, <2>3, <2>4, <2>6 DEF CommandInv, AtThis
    <2>7. QED
      BY <1>2, <2>1, <2>2, <2>5, <2>6, DriveEffect
  <1>3. CASE Command
    <2>1. /\ UNCHANGED <<call, sector>> /\ left' = 0
          /\ cmd' = [op |-> IF call.op = "write" THEN "write" ELSE "read", lba |-> Target]
      BY <1>0, <1>3 DEF Command, CommandCycle, Goto, hostVars, IdleInv, Settled
    <2>2. Target = This
      BY <2>1 DEF Target, This
    <2>3. cmd' = ThisCmd'
      BY <2>1, <2>2 DEF ThisCmd, This
    <2>4. QED
      BY <2>1, <2>3 DEF CommandInv
  <1>4. CASE (WaitNotBusy /\ pc = "command_wait") \/ (Check /\ pc = "check")
    <2>1. /\ UNCHANGED <<call, sector, driveVars>>
          /\ pc \in {"command_wait", "check"}
      BY <1>4 DEF WaitNotBusy, Check, Goto, hostVars, Return, InitDone
    <2>2. QED
      BY <1>0, <2>1 DEF CommandInv, AtThis, This, ThisCmd, driveVars
  <1>5. QED
    BY <1>1, <1>2, <1>3, <1>4, Arrivals

\* One byte of a write, in the mode in which the drive takes one.
LEMMA ByteWritten ==
  ASSUME HostInv, DriveInv, Write, present, call.exact
  PROVE  /\ left = Bytes - word /\ left > 0 /\ left' = left - 1
         /\ \A k \in 1 .. word + 1 : dbuf'[k] = call.data[sector + 1][k]
         /\ dbuf' \in SectorSet
  <1>0. /\ pc = "write" /\ word \in 0 .. Bytes /\ word < Bytes /\ Bytes \in Nat
        /\ left = Bytes - word /\ call.op = "write" /\ ~wide
        /\ \A k \in 1 .. word : dbuf[k] = call.data[sector + 1][k]
    <2>1. pc = "write" /\ call.op = "write" /\ (call.exact <=> ideMode = 0)
      BY DEF Write, HostInv, PlaceInv, Writing, CallInv
    <2>2. ~wide
      BY <2>1 DEF DriveInv, WidthInv, Writing
    <2>3. QED
      BY <2>1, <2>2, DiskAssumption DEF HostInv, Types, WordInv, DriveInv, WritingInv
  <1>1. Moved = 1 /\ Pos = word
    BY <1>0 DEF Moved, Pos
  <1>2. /\ left' = left - 1
        /\ dbuf' = [k \in 1 .. Bytes |-> IF k \in word + 1 .. word + 1
                       THEN call.data[sector + 1][word + 1] ELSE dbuf[k]]
    BY <1>0, <1>1 DEF Write, WriteCycle
  <1>3. ASSUME NEW k \in 1 .. word + 1
        PROVE  dbuf'[k] = call.data[sector + 1][k]
    <2>1. CASE k = word + 1
      BY <1>0, <1>2, <2>1
    <2>2. CASE k # word + 1
      BY <1>0, <1>2, <2>2
    <2>3. QED
      BY <2>1, <2>2
  <1>4. dbuf' \in SectorSet
    BY WriteTypes DEF Types
  <1>5. QED
    BY <1>0, <1>2, <1>3, <1>4, SMTT(30)

LEMMA WritingStep ==
  ASSUME HostInv, DriveInv, Next, present, present'
  PROVE  WritingInv'
  <1>0. /\ WritingInv /\ CommandInv /\ IdleInv /\ PlaceInv /\ WordInv /\ DataPhase
        /\ Shown = status
        /\ left \in 0 .. Bytes /\ word \in 0 .. Bytes /\ Bytes \in Nat /\ Bytes > 0
    BY ShownIsStatus, DiskAssumption DEF HostInv, DriveInv, Types
  <1> SUFFICES ASSUME pc' \in {"write_wait", "write", "end_wait"}
               PROVE  WritingInv'
    BY DEF WritingInv
  <1>1. CASE Die
    BY <1>0, <1>1 DEF Die, driverVars, WritingInv, AtThis, This, ThisCmd
  <1>2. CASE DriveStep
    <2>1. /\ "BSY" \in status /\ "BSY" \notin status' /\ UNCHANGED <<pc, call, sector, word>>
      BY <1>2, DriveEffect DEF driverVars
    <2>2. pc # "write" /\ cmd.op = "flush" /\ left = 0
      BY <1>0, <2>1 DEF WritingInv, IdleInv, Settled, DataPhase
    <2>3. left' = 0
      BY <1>2, <2>2, DriveEffect
    <2>4. pc = "write_wait" => ~call.exact
      BY <1>0, <2>2 DEF WritingInv, WordInv
    <2>5. QED
      BY <2>1, <2>2, <2>3, <2>4 DEF WritingInv
  <1>3. CASE WaitNotBusy
    <2>1. /\ UNCHANGED <<call, sector, word, driveVars>>
          /\ "BSY" \notin status /\ pc' = "write" /\ pc = "write_wait"
      BY <1>0, <1>3 DEF WaitNotBusy, AfterWait, Goto, hostVars
    <2>2. QED
      BY <1>0, <2>1 DEF WritingInv, AtThis, This, ThisCmd, driveVars
  <1>4. CASE DataWait
    <2>1. /\ UNCHANGED <<call, sector, word, driveVars>> /\ pc = "data_wait" /\ word = 0
          /\ "BSY" \notin status /\ "DRQ" \in status /\ call.op = "write"
      BY <1>0, <1>4 DEF DataWait, Goto, hostVars, WordInv, Opening
    <2>2. left = Bytes /\ AtThis
      BY <1>0, <2>1 DEF CommandInv, DataPhase
    <2>3. QED
      BY <1>0, <2>1, <2>2 DEF WritingInv, AtThis, This, ThisCmd, driveVars
  <1>5. CASE Write
    <2>1. /\ UNCHANGED <<call, sector>> /\ word' = word + 1 /\ pc = "write"
          /\ "BSY" \notin status /\ (left > 0 => AtThis)
          /\ pc' = IF word + 1 < Bytes THEN "write_wait" ELSE "end_wait"
      BY <1>0, <1>5 DEF Write, stepVars, IdleInv, Settled, WritingInv
    <2>2. left' > 0 => AtThis'
      <3>1. left' > 0 => left > 0 /\ cmd' = cmd
        BY <1>0, <1>5 DEF Write, WriteCycle
      <3>2. QED
        BY <2>1, <3>1 DEF AtThis, This, ThisCmd
    <2>3. "BSY" \in status' => cmd'.op = "flush"
      <3>1. CASE left > 0 /\ left' = 0
        <4>1. cmd = ThisCmd
          BY <2>1, <3>1 DEF AtThis
        <4>2. QED
          BY <1>5, <3>1, <4>1 DEF Write, WriteCycle, ThisCmd
      <3>2. CASE ~(left > 0 /\ left' = 0)
        BY <1>5, <2>1, <3>2 DEF Write, WriteCycle
      <3>3. QED
        BY <3>1, <3>2
    <2>4. call.exact => /\ left' = Bytes - word'
                        /\ \A k \in 1 .. word' : dbuf'[k] = call.data[sector + 1][k]
      BY <1>0, <1>5, <2>1, ByteWritten
    <2>5. QED
      BY <2>1, <2>2, <2>3, <2>4 DEF WritingInv
  <1>6. QED
    BY <1>1, <1>2, <1>3, <1>4, <1>5, Arrivals

\* A call that ends well, or a new write, finds no flush under way.
LEMMA FlushStep ==
  ASSUME HostInv, DriveInv, Next, present, present'
  PROVE  FlushInv'
  <1>0. /\ FlushInv /\ IdleInv /\ PlaceInv /\ CallInv /\ WritingInv /\ WordInv /\ Shown = status
        /\ left \in 0 .. Bytes /\ word \in 0 .. Bytes /\ Bytes \in Nat
        /\ call \in CallSet /\ sector \in Nat
    BY ShownIsStatus, DiskAssumption DEF HostInv, DriveInv, Types
  <1>1. ASSUME UNCHANGED <<status, cmd, dbuf, open>>
        PROVE  FlushInv'
    BY <1>0, <1>1 DEF FlushInv
  <1>2. ASSUME cmd'.op # "flush"
        PROVE  FlushInv'
    BY <1>2 DEF FlushInv
  <1>3. ASSUME UNCHANGED cmd, "BSY" \notin status
        PROVE  FlushInv'
    BY <1>0, <1>3 DEF FlushInv
  <1>4. NoCmd.op # "flush"
    BY DEF NoCmd
  <1>5. CASE DriveStep
    BY <1>2, <1>4, <1>5, DriveEffect
  <1>6. CASE BeginsCall
    <2>1. /\ UNCHANGED <<status, cmd, dbuf>> /\ pc = "idle"
          /\ open' = open \/ fs = "ready"
      BY <1>6, CallBegins DEF driveVars
    <2>2. QED
      BY <1>0, <1>1, <1>3, <2>1 DEF IdleInv
  <1>7. CASE Die \/ WrongDrive \/ SetIdeBusMode
    BY <1>1, <1>7 DEF Die, WrongDrive, SetIdeBusMode, driveVars
  <1>8. CASE Reset
    BY <1>1, <1>2, <1>4, <1>8 DEF Reset, Done, driveVars
  <1>9. CASE IdentifyCommand \/ Features \/ Command
    <2>1. UNCHANGED open
      BY <1>9 DEF IdentifyCommand, Features, Command, Goto, hostVars
    <2>2. PICK op \in {"identify", "narrow", "widen", "read", "write"}, l \in {0, Target} :
            CommandCycle(op, l)
      BY <1>9 DEF IdentifyCommand, Features, Command
    <2>3. CASE present /\ "BSY" \notin status
      BY <1>2, <2>2, <2>3 DEF CommandCycle
    <2>4. CASE ~(present /\ "BSY" \notin status)
      BY <1>1, <2>1, <2>2, <2>4 DEF CommandCycle
    <2>5. QED
      BY <2>3, <2>4
  <1>10. CASE WaitNotBusy \/ DataWait \/ AddressError \/ TimeOut
    BY <1>1, <1>10 DEF WaitNotBusy, DataWait, AddressError, TimeOut, Goto, Return, hostVars,
         driveVars
  <1>11. CASE Signature
    BY <1>1, <1>11 DEF Signature, Goto, Return, hostVars, driveVars
  <1>12. CASE Detect \/ Check \/ ReadWait \/ EndCheck
    <2>1. UNCHANGED cmd /\ "BSY" \notin status
      BY <1>0, <1>12 DEF Detect, Check, ReadWait, EndCheck, driveVars, IdleInv, Settled
    <2>2. QED
      BY <1>3, <2>1
  <1>13. CASE Read
    <2>1. "BSY" \notin status /\ (UNCHANGED cmd \/ cmd' = NoCmd)
      BY <1>0, <1>13 DEF Read, ReadCycle, Done, IdleInv, Settled
    <2>2. QED
      BY <1>2, <1>3, <1>4, <2>1
  <1>14. CASE Write
    <2>1. /\ pc = "write" /\ "BSY" \notin status /\ call.op = "write" /\ open = call
          /\ open' = open /\ word' = word + 1 /\ word < Bytes /\ sector < call.count
          /\ call.count \in Nat
      BY <1>0, <1>14 DEF Write, stepVars, IdleInv, Settled, PlaceInv, Writing, CallInv,
           WordInv, CallSet
    <2>2. CASE left > 0 /\ left' = 0
      <3>1. cmd = ThisCmd /\ This \in Lbas
        BY <1>0, <2>1, <2>2 DEF WritingInv, AtThis
      <3>2. status' = {"BSY"} /\ cmd' = [op |-> "flush", lba |-> This]
        BY <1>14, <2>2, <3>1 DEF Write, WriteCycle, ThisCmd
      <3>3. call.exact => dbuf' = call.data[sector + 1]
        <4> SUFFICES ASSUME call.exact
                     PROVE  dbuf' = call.data[sector + 1]
          OBVIOUS
        <4>1. /\ dbuf' \in SectorSet /\ word + 1 = Bytes
              /\ \A k \in 1 .. word + 1 : dbuf'[k] = call.data[sector + 1][k]
          BY <1>0, <1>14, <2>1, <2>2, ByteWritten
        <4>2. call.data[sector + 1] \in SectorSet
          <5>1. call.data \in [1 .. call.count -> SectorSet] /\ sector + 1 \in 1 .. call.count
            BY <1>0, <2>1 DEF CallInv
          <5>2. QED
            BY <5>1
        <4>3. \A k \in 1 .. Bytes : dbuf'[k] = call.data[sector + 1][k]
          BY <4>1
        <4>4. QED
          BY <4>1, <4>2, <4>3, SectorEqual
      <3>4. sector \in 0 .. open'.count - 1
        BY <1>0, <2>1
      <3>5. QED
        BY <2>1, <3>1, <3>2, <3>3, <3>4 DEF FlushInv, This
    <2>3. CASE ~(left > 0 /\ left' = 0)
      BY <1>3, <1>14, <2>1, <2>3 DEF Write, WriteCycle
    <2>4. QED
      BY <2>2, <2>3
  <1>15. QED
    BY <1>5, <1>6, <1>7, <1>8, <1>9, <1>10, <1>11, <1>12, <1>13, <1>14
       DEF Next, Driver, Calls, BeginsCall

LEMMA ReadingStep ==
  ASSUME HostInv, DriveInv, Next, present, present'
  PROVE  ReadingInv'
  <1>0. /\ ReadingInv /\ CommandInv /\ IdleInv /\ WidthInv /\ PlaceInv /\ WordInv /\ DataPhase
        /\ Shown = status
        /\ left \in 0 .. Bytes /\ word \in 0 .. Bytes /\ Bytes \in Nat /\ Bytes > 0
    BY ShownIsStatus, DiskAssumption DEF HostInv, DriveInv, Types
  <1> SUFFICES ASSUME pc' \in {"read", "read_wait"}, call'.op = "read"
               PROVE  ReadingInv'
    BY DEF ReadingInv
  <1>1. CASE Die
    BY <1>0, <1>1 DEF Die, driverVars, ReadingInv, AtThis, This, ThisCmd
  <1>2. CASE DriveStep
    <2>1. "BSY" \in status /\ pc' = pc
      BY <1>2, DriveEffect DEF driverVars
    <2>2. QED
      BY <1>0, <2>1 DEF IdleInv, Settled
  <1>3. CASE DataWait
    <2>1. /\ UNCHANGED <<call, sector, word, driveVars, ideMode>> /\ pc = "data_wait"
          /\ word = 0 /\ "DRQ" \in status /\ pc' = "read"
      BY <1>0, <1>3 DEF DataWait, Goto, hostVars, WordInv, Opening
    <2>2. left = Bytes /\ AtThis /\ dbuf = card[This]
      BY <1>0, <2>1 DEF CommandInv, DataPhase
    <2>3. QED
      BY <1>0, <2>1, <2>2 DEF ReadingInv, AtThis, This, ThisCmd, driveVars
  <1>4. CASE Read
    <2>1. /\ UNCHANGED <<call, sector, card, wide, ideMode>> /\ word' = word + 1
          /\ pc = "read" /\ ideMode = 0 /\ word < Bytes
      BY <1>0, <1>4 DEF Read, ReadCycle, stepVars, WordInv
    <2>2. ~wide /\ left = Bytes - word /\ AtThis /\ dbuf = card[This]
      BY <1>0, <2>1 DEF WidthInv, Reading, ReadingInv
    <2>3. /\ left' = left - 1
          /\ left' > 0 => UNCHANGED <<cmd, dbuf>>
      BY <1>0, <1>4, <2>1, <2>2 DEF Read, ReadCycle, Moved, Done
    <2>4. left' = Bytes - word'
      BY <1>0, <2>1, <2>2, <2>3
    <2>5. QED
      BY <2>1, <2>2, <2>3, <2>4 DEF ReadingInv, AtThis, This, ThisCmd
  <1>5. CASE ReadWait
    <2>1. UNCHANGED <<call, sector, word, driveVars, ideMode>> /\ pc = "read_wait" /\ pc' = "read"
      BY <1>5 DEF ReadWait, Goto, hostVars, NextSector, LastSector, Return, InitDone
    <2>2. QED
      BY <1>0, <2>1 DEF ReadingInv, AtThis, This, ThisCmd, driveVars
  <1>6. QED
    BY <1>1, <1>2, <1>3, <1>4, <1>5, Arrivals

\* The byte ata_read_sector stores is the next one of the sector on the card,
\* and the bytes before it stay.
LEMMA ByteGot ==
  ASSUME HostInv, DriveInv, Read, present, call.op = "read"
  PROVE  /\ This \in Lbas
         /\ Len(got') = Len(got) + 1
         /\ got'[Len(got) + 1] = card[This][word + 1]
         /\ \A i \in 1 .. Len(got) : got'[i] = got[i]
  <1>1. /\ pc = "read" /\ ideMode = 0 /\ word < Bytes /\ word \in 0 .. Bytes /\ Bytes \in Nat
    BY DiskAssumption DEF Read, HostInv, WordInv, Types
  <1>2. left = Bytes - word /\ AtThis /\ dbuf = card[This]
    BY <1>1 DEF DriveInv, ReadingInv
  <1>3. ByteRead = card[This][word + 1]
    <2>1. left > 0 /\ Pos = word
      BY <1>1, <1>2 DEF Pos
    <2>2. QED
      BY <1>2, <2>1 DEF ByteRead
  <1>4. got' = Append(got, ByteRead) /\ got \in Seq(Cell) /\ got' \in Seq(Cell)
    BY ReadTypes DEF Read, HostInv, Types
  <1>5. ByteRead \in Cell
    <2>1. This \in Lbas /\ word + 1 \in 1 .. Bytes
      BY <1>1, <1>2 DEF AtThis
    <2>2. QED
      BY <1>3, <2>1 DEF HostInv, Types, SectorSet
  <1>6. QED
    BY <1>2, <1>3, <1>4, <1>5, AppendProperties DEF AtThis

\* Where a byte of an earlier sector lies among the bytes stored.
LEMMA ByteIndex ==
  ASSUME NEW b \in Nat, NEW n \in Nat, NEW w \in 0 .. b, NEW j \in Nat, NEW k \in Nat, k > 0,
         \/ j < n /\ k <= b
         \/ j = n /\ k <= w
  PROVE  j * b + k \in 1 .. n * b + w
  <1>1. j * b \in Nat /\ n * b \in Nat
    OBVIOUS
  <1>2. CASE j < n /\ k <= b
    <2>1. (j + 1) * b <= n * b
      BY <1>2
    <2>2. (j + 1) * b = j * b + b
      OBVIOUS
    <2>3. QED
      BY <1>1, <1>2, <2>1, <2>2
  <1>3. CASE j = n /\ k <= w
    BY <1>1, <1>3
  <1>4. QED
    BY <1>2, <1>3

LEMMA GotStep ==
  ASSUME HostInv, DriveInv, Next, present, present'
  PROVE  GotInv'
  <1>0. /\ GotInv /\ FlushInv /\ IdleInv /\ PlaceInv /\ WordInv /\ Shown = status /\ GotCount
        /\ sector \in Nat /\ word \in 0 .. Bytes /\ Bytes \in Nat /\ Bytes > 0
    BY ShownIsStatus, DiskAssumption DEF HostInv, DriveInv, Types
  <1> SUFFICES ASSUME pc' # "idle", call'.op = "read"
               PROVE  GotInv'
    BY DEF GotInv
  <1>1. ASSUME UNCHANGED <<call, sector, word, got, card>>, pc # "idle", cmd'.op # "flush"
        PROVE  GotInv'
    BY <1>0, <1>1 DEF GotInv, GotCell
  <1>2. CASE BeginsCall
    <2>1. sector' = 0 /\ word' = 0 /\ cmd' = cmd /\ status' = status /\ pc = "idle" /\ fs = "ready"
      BY <1>2, CallBegins DEF driveVars
    <2>2. cmd'.op # "flush"
      BY <1>0, <2>1 DEF IdleInv, FlushInv
    <2>3. 0 .. sector' - 1 = {} /\ 1 .. word' = {}
      BY <2>1
    <2>4. QED
      BY <2>2, <2>3 DEF GotInv
  <1>3. CASE WrongDrive \/ SetIdeBusMode \/ Reset
    BY <1>0, <1>3 DEF WrongDrive, SetIdeBusMode, Reset, PlaceInv
  <1>4. CASE Die
    <2>1. UNCHANGED <<call, sector, word, got, card, pc, cmd>>
      BY <1>4 DEF Die, driverVars
    <2>2. QED
      BY <1>0, <1>1, <2>1 DEF GotInv
  <1>5. CASE DriveStep
    <2>1. UNCHANGED <<pc, call, sector, word, got>>
      BY <1>5, DriveEffect DEF driverVars
    <2>2. cmd.op # "flush"
      BY <1>0, <2>1 DEF GotInv
    <2>3. card' = card /\ cmd'.op # "flush"
      BY <1>5, <2>2, DriveEffect DEF NoCmd
    <2>4. QED
      BY <1>1, <2>1, <2>3
  <1>6. CASE Signature \/ Detect \/ TimeOut \/ Check \/ WaitNotBusy \/ DataWait \/ AddressError
    <2>1. UNCHANGED <<call, sector, word, got, card, cmd>> /\ pc # "idle"
      BY <1>6 DEF Signature, Detect, TimeOut, Bounded, Check, WaitNotBusy, AfterWait, DataWait,
           AddressError, Goto, Return, InitDone, hostVars, driveVars
    <2>2. QED
      BY <1>0, <1>1, <2>1 DEF GotInv
  <1>7. CASE IdentifyCommand \/ Features \/ Command
    <2>1. UNCHANGED <<call, sector, word, got, card>> /\ pc # "idle"
      BY <1>7 DEF IdentifyCommand, Features, Command, CommandCycle, Goto, hostVars
    <2>2. PICK op \in {"identify", "narrow", "widen", "read", "write"}, l \in {0, Target} :
            CommandCycle(op, l)
      BY <1>7 DEF IdentifyCommand, Features, Command
    <2>3. cmd.op # "flush"
      BY <1>0, <2>1 DEF GotInv
    <2>4. cmd'.op # "flush"
      BY <2>2, <2>3 DEF CommandCycle
    <2>5. QED
      BY <1>1, <2>1, <2>4
  <1>8. CASE Write \/ EndCheck
    BY <1>0, <1>8 DEF Write, EndCheck, PlaceInv, Writing, stepVars
  <1>9. CASE Read
    <2>1. /\ UNCHANGED <<call, sector, card>> /\ word' = word + 1 /\ word < Bytes /\ pc = "read"
          /\ cmd'.op # "flush"
      BY <1>0, <1>9 DEF Read, ReadCycle, Done, NoCmd, stepVars, WordInv, GotInv
    <2>2. Len(got) = sector * Bytes + word /\ sector * Bytes \in Nat
      BY <1>0, <2>1 DEF GotCount
    <2>3. /\ This \in Lbas
          /\ got'[Len(got) + 1] = card[This][word + 1]
          /\ \A i \in 1 .. Len(got) : got'[i] = got[i]
      BY <1>9, <2>1, ByteGot
    <2>4. ASSUME NEW j \in 0 .. sector - 1, NEW k \in 1 .. Bytes
          PROVE  GotCell(j, k)'
      <3>1. GotCell(j, k)
        BY <1>0, <2>1 DEF GotInv
      <3>2. j * Bytes + k \in 1 .. Len(got)
        BY <1>0, <2>2, ByteIndex
      <3>3. QED
        BY <2>1, <2>3, <3>1, <3>2 DEF GotCell
    <2>5. ASSUME NEW k \in 1 .. word'
          PROVE  GotCell(sector, k)'
      <3>1. CASE k = word + 1
        <4>1. sector * Bytes + k = Len(got) + 1
          BY <1>0, <2>2, <3>1
        <4>2. QED
          BY <2>1, <2>3, <3>1, <4>1 DEF GotCell, This
      <3>2. CASE k # word + 1
        <4>1. k \in 1 .. word
          BY <1>0, <2>1, <3>2
        <4>2. GotCell(sector, k)
          BY <1>0, <2>1, <4>1 DEF GotInv
        <4>3. sector * Bytes + k \in 1 .. Len(got)
          BY <1>0, <2>2, <4>1
        <4>4. QED
          BY <2>1, <2>3, <4>2, <4>3 DEF GotCell
      <3>3. QED
        BY <3>1, <3>2
    <2>6. QED
      BY <2>1, <2>4, <2>5 DEF GotInv
  <1>10. CASE ReadWait
    <2>1. UNCHANGED <<call, got, card, cmd>> /\ pc # "idle"
      BY <1>10 DEF ReadWait, Goto, hostVars, NextSector, LastSector, Return, InitDone,
           stepVars, driveVars
    <2>2. cmd'.op # "flush"
      BY <1>0, <2>1 DEF GotInv
    <2>3. CASE Goto("read")
      BY <1>1, <2>1, <2>2, <2>3 DEF Goto, hostVars
    <2>4. CASE ~More /\ NextSector
      <3>1. sector' = sector + 1 /\ word' = 0 /\ word = Bytes
        BY <1>0, <2>4 DEF More, NextSector
      <3>2. ASSUME NEW j \in 0 .. sector' - 1, NEW k \in 1 .. Bytes
            PROVE  GotCell(j, k)'
        <4>1. GotCell(j, k)
          <5>1. CASE j = sector
            BY <1>0, <2>1, <3>1, <5>1 DEF GotInv
          <5>2. CASE j # sector
            BY <1>0, <2>1, <3>1, <5>2 DEF GotInv
          <5>3. QED
            BY <5>1, <5>2
        <4>2. QED
          BY <2>1, <4>1 DEF GotCell
      <3>3. 1 .. word' = {}
        BY <3>1
      <3>4. QED
        BY <2>2, <3>2, <3>3 DEF GotInv
    <2>5. QED
      BY <1>10, <2>3, <2>4 DEF ReadWait, LastSector, Return, InitDone
  <1>11. QED
    BY <1>2, <1>3, <1>4, <1>5, <1>6, <1>7, <1>8, <1>9, <1>10
       DEF Next, Driver, Calls, BeginsCall

\* The end of a flush stores the sector of the call and leaves the sectors
\* before it, which have other addresses.
LEMMA SectorStored ==
  ASSUME HostInv, DriveInv, DriveStep, call.op = "write", cmd.op = "flush", cmd.lba = This,
         dbuf = call.data[sector + 1], pc # "idle",
         card' = [card EXCEPT ![cmd.lba] = dbuf],
         \A i \in 0 .. sector - 1 : Stored(i)
  PROVE  \A i \in 0 .. sector : Stored(i)'
  <1>0. /\ call \in CallSet /\ sector \in Nat /\ card \in [Lbas -> SectorSet]
        /\ sector < call.count /\ call.count <= LbaMod /\ LbaMod \in Nat
        /\ cmd.lba \in Lbas /\ UNCHANGED call
    BY DriveEffect, DiskAssumption
       DEF HostInv, Types, CallInv, DriveInv, FlushInv, driverVars
  <1>1. call.first \in Nat /\ call.count \in Nat
    BY <1>0 DEF CallSet
  <1> SUFFICES ASSUME NEW i \in 0 .. sector
               PROVE  Stored(i)'
    OBVIOUS
  <1>2. CASE i = sector
    BY <1>0, <1>2 DEF Stored, This
  <1>3. CASE i # sector
    <2>1. i \in 0 .. sector - 1 /\ i \in 0 .. LbaMod - 1 /\ sector \in 0 .. LbaMod - 1 /\ i < sector
      BY <1>0, <1>1, <1>3
    <2>2. (call.first + i) % LbaMod # (call.first + sector) % LbaMod
      BY <1>0, <1>1, <2>1, SectorsApart
    <2>3. Stored(i)
      BY <2>1
    <2>4. QED
      BY <1>0, <2>2, <2>3 DEF Stored, This
  <1>4. QED
    BY <1>2, <1>3

LEMMA StoredStep ==
  ASSUME HostInv, DriveInv, Next, present, present'
  PROVE  StoredInv'
  <1>0. /\ StoredInv /\ FlushInv /\ IdleInv /\ PlaceInv /\ WordInv /\ WritingInv /\ Shown = status
        /\ sector \in Nat /\ word \in 0 .. Bytes /\ Bytes \in Nat /\ Bytes > 0
    BY ShownIsStatus, DiskAssumption DEF HostInv, DriveInv, Types
  <1> SUFFICES ASSUME pc' # "idle", call'.op = "write", call'.exact, ~errShown'
               PROVE  StoredInv'
    BY DEF StoredInv
  <1>1. ASSUME UNCHANGED <<call, sector, card>>, pc # "idle", ~errShown, cmd'.op # "flush",
               pc' \notin {"end_wait", "end_check"}
        PROVE  StoredInv'
    BY <1>0, <1>1 DEF StoredInv, Stored
  <1>2. CASE BeginsCall
    <2>1. sector' = 0 /\ UNCHANGED <<cmd, status>> /\ pc = "idle" /\ fs = "ready" /\ pc' = "features"
      BY <1>2, CallBegins DEF driveVars
    <2>2. cmd'.op # "flush"
      BY <1>0, <2>1 DEF IdleInv, FlushInv
    <2>3. 0 .. sector' - 1 = {}
      BY <2>1
    <2>4. QED
      BY <2>1, <2>2, <2>3 DEF StoredInv
  <1>3. CASE WrongDrive \/ SetIdeBusMode \/ Reset
    BY <1>3 DEF WrongDrive, SetIdeBusMode, Reset
  <1>4. CASE Die
    <2>1. UNCHANGED <<call, sector, card, pc, cmd, dbuf, status, errShown>>
      BY <1>4 DEF Die, driverVars
    <2>2. QED
      BY <1>0, <2>1 DEF StoredInv, Stored, This
  <1>5. CASE DriveStep
    <2>1. UNCHANGED <<pc, call, sector, word, errShown>> /\ "BSY" \in status
      BY <1>5, DriveEffect DEF driverVars
    <2>2. CASE cmd.op = "flush"
      <3>1. pc = "end_wait" /\ cmd.lba = This /\ dbuf = call.data[sector + 1]
            /\ \A i \in 0 .. sector - 1 : Stored(i)
        BY <1>0, <2>1, <2>2 DEF StoredInv
      <3>2. cmd'.op # "flush"
        BY <1>5, <2>2, DriveEffect DEF NoCmd
      <3>3. CASE card' = [card EXCEPT ![cmd.lba] = dbuf]
        <4>1. \A i \in 0 .. sector : Stored(i)'
          BY <1>5, <2>1, <2>2, <3>1, <3>3, SectorStored
        <4>2. sector \in 0 .. sector /\ 0 .. sector - 1 \subseteq 0 .. sector
          BY <1>0
        <4>3. (\A i \in 0 .. sector - 1 : Stored(i))' /\ Stored(sector)'
          BY <2>1, <4>1, <4>2
        <4>4. QED
          BY <2>1, <3>1, <3>2, <4>3 DEF StoredInv
      <3>4. CASE card' = card /\ "ERR" \in status'
        <4>1. (\A i \in 0 .. sector - 1 : Stored(i))'
          BY <2>1, <3>1, <3>4 DEF Stored
        <4>2. QED
          BY <2>1, <3>2, <3>4, <4>1 DEF StoredInv
      <3>5. QED
        BY <1>5, <2>2, <3>3, <3>4, DriveEffect
    <2>3. CASE cmd.op # "flush"
      <3>1. card' = card /\ cmd'.op # "flush"
        BY <1>5, <2>3, DriveEffect DEF NoCmd
      <3>2. pc \notin {"end_wait", "end_check"}
        BY <1>0, <2>1, <2>3 DEF WritingInv, IdleInv, Settled
      <3>3. QED
        BY <1>1, <2>1, <3>1, <3>2
    <2>4. QED
      BY <2>2, <2>3
  <1>6. CASE Signature \/ Detect \/ TimeOut \/ AddressError \/ Read \/ ReadWait
    BY <1>0, <1>6 DEF Signature, Detect, TimeOut, Bounded, AddressError, Read, ReadWait,
         NextSector, LastSector, InitDone, Goto, Return, hostVars, stepVars, PlaceInv, Search,
         Identify, Reading
  <1>7. CASE Check \/ DataWait
    <2>1. /\ UNCHANGED <<call, sector, card, cmd, errShown>> /\ pc \notin {"idle", "end_wait"}
          /\ pc' \notin {"end_wait", "end_check"}
      BY <1>7 DEF Check, DataWait, Goto, Return, InitDone, hostVars, driveVars
    <2>2. QED
      BY <1>0, <1>1, <2>1 DEF StoredInv
  <1>8. CASE WaitNotBusy
    <2>1. /\ UNCHANGED <<call, sector, card, cmd, status, dbuf, errShown>>
          /\ "BSY" \notin status /\ pc # "idle"
          /\ pc' = "end_check" => pc = "end_wait"
      BY <1>0, <1>8 DEF WaitNotBusy, AfterWait, Goto, hostVars, driveVars
    <2>2. cmd.op # "flush"
      BY <1>0, <2>1 DEF FlushInv
    <2>3. pc' # "end_wait"
      BY <1>8 DEF WaitNotBusy, AfterWait, Goto
    <2>4. QED
      BY <1>0, <2>1, <2>2, <2>3 DEF StoredInv, Stored
  <1>9. CASE IdentifyCommand \/ Features \/ Command
    <2>1. /\ UNCHANGED <<call, sector, card, errShown>> /\ pc \notin {"idle", "end_wait"}
          /\ pc' \notin {"end_wait", "end_check"}
      BY <1>9 DEF IdentifyCommand, Features, Command, CommandCycle, Goto, hostVars
    <2>2. PICK op \in {"identify", "narrow", "widen", "read", "write"}, l \in {0, Target} :
            CommandCycle(op, l)
      BY <1>9 DEF IdentifyCommand, Features, Command
    <2>3. cmd.op # "flush"
      BY <1>0, <2>1 DEF StoredInv
    <2>4. cmd'.op # "flush"
      BY <2>2, <2>3 DEF CommandCycle
    <2>5. QED
      BY <1>1, <2>1, <2>4
  <1>10. CASE Write
    <2>1. /\ UNCHANGED <<call, sector, card, errShown>> /\ pc = "write"
          /\ pc' = IF word + 1 < Bytes THEN "write_wait" ELSE "end_wait"
      BY <1>10 DEF Write, WriteCycle, stepVars
    <2>2. /\ left = Bytes - word /\ left > 0 /\ left' = left - 1
          /\ \A k \in 1 .. word + 1 : dbuf'[k] = call.data[sector + 1][k]
          /\ dbuf' \in SectorSet
      BY <1>10, <2>1, ByteWritten
    <2>3. cmd = ThisCmd
      BY <1>0, <2>1, <2>2 DEF WritingInv, AtThis
    <2>4. CASE word + 1 < Bytes
      <3>1. left' # 0
        BY <1>0, <2>2, <2>4
      <3>2. cmd' = cmd
        BY <1>10, <2>2, <3>1 DEF Write, WriteCycle
      <3>3. cmd'.op # "flush"
        BY <2>3, <3>2 DEF ThisCmd
      <3>4. QED
        BY <1>1, <2>1, <2>4, <3>3
    <2>5. CASE ~(word + 1 < Bytes)
      <3>1. left' = 0 /\ word + 1 = Bytes
        BY <1>0, <2>2, <2>5
      <3>2. cmd' = [op |-> "flush", lba |-> This]
        BY <1>10, <2>2, <2>3, <3>1 DEF Write, WriteCycle, ThisCmd
      <3>3. dbuf' = call.data[sector + 1]
        <4>1. call.data[sector + 1] \in SectorSet
          <5>1. call.data \in [1 .. call.count -> SectorSet] /\ sector < call.count
                /\ call.count \in Nat
            BY <2>1 DEF HostInv, CallInv, Types, CallSet
          <5>2. QED
            BY <1>0, <5>1
        <4>2. \A k \in 1 .. Bytes : dbuf'[k] = call.data[sector + 1][k]
          BY <2>2, <3>1
        <4>3. QED
          BY <2>2, <4>1, <4>2, SectorEqual
      <3>4. (\A i \in 0 .. sector - 1 : Stored(i))'
        BY <1>0, <2>1 DEF StoredInv, Stored
      <3>5. pc' = "end_wait" /\ cmd'.op = "flush" /\ cmd'.lba = This'
        BY <2>1, <2>5, <3>2 DEF This
      <3>6. QED
        BY <2>1, <3>3, <3>4, <3>5 DEF StoredInv
    <2>6. QED
      BY <2>4, <2>5
  <1>11. CASE EndCheck
    <2>1. /\ UNCHANGED <<call, card, cmd>> /\ sector' = sector + 1 /\ pc' = "features"
          /\ pc = "end_check" /\ ~errShown /\ "ERR" \notin status /\ "BSY" \notin status
      BY <1>0, <1>11 DEF EndCheck, stepVars, driveVars, IdleInv, Settled
    <2>2. cmd.op # "flush"
      BY <1>0, <2>1 DEF FlushInv
    <2>3. Stored(sector) /\ \A i \in 0 .. sector - 1 : Stored(i)
      BY <1>0, <2>1, <2>2 DEF StoredInv
    <2>4. ASSUME NEW i \in 0 .. sector' - 1
          PROVE  Stored(i)'
      <3>1. i = sector \/ i \in 0 .. sector - 1
        BY <1>0, <2>1
      <3>2. QED
        BY <2>1, <2>3, <3>1 DEF Stored
    <2>5. QED
      BY <2>1, <2>2, <2>4 DEF StoredInv
  <1>12. QED
    BY <1>2, <1>3, <1>4, <1>5, <1>6, <1>7, <1>8, <1>9, <1>10, <1>11
       DEF Next, Driver, Calls, BeginsCall

LEMMA WriteOkStep ==
  ASSUME DiskInv, Next
  PROVE  WriteOkNoErr'
  <1>0. HostInv /\ (present => DriveInv) /\ WriteOkNoErr /\ PlaceInv /\ OpenInv
    BY DEF DiskInv, HostInv
  <1> SUFFICES ASSUME pc' = "idle", call'.op = "write", result' = "ok", call'.exact, ~errShown'
               PROVE  Written'
    BY DEF WriteOkNoErr, WriteReturned
  <1>1. ASSUME UNCHANGED <<pc, call, result, card, errShown>>
        PROVE  Written'
    BY <1>0, <1>1 DEF WriteOkNoErr, WriteReturned, Written
  <1>2. CASE DriveStep
    <2>1. UNCHANGED <<pc, call, result, errShown, open>> /\ present
      BY <1>0, <1>2, DriveEffect DEF driverVars, DriveStep
    <2>2. cmd.op # "flush"
      BY <1>0, <2>1 DEF DriveInv, FlushInv, OpenInv
    <2>3. QED
      BY <1>0, <1>1, <1>2, <2>1, <2>2, DriveEffect
  <1>3. CASE Die \/ SetIdeBusMode
    BY <1>1, <1>3 DEF Die, SetIdeBusMode, driverVars, driveVars
  <1>4. CASE BeginsCall
    BY <1>0, <1>4, CallBegins
  <1>5. CASE WrongDrive \/ Reset
    BY <1>5 DEF WrongDrive, Reset
  <1>6. CASE Signature \/ Detect \/ TimeOut \/ Check \/ ReadWait
    BY <1>0, <1>6 DEF Signature, Detect, TimeOut, Bounded, Check, ReadWait, NextSector,
         LastSector, InitDone, Goto, Return, hostVars, stepVars, PlaceInv, Search, Identify,
         Reading
  <1>7. CASE IdentifyCommand \/ Features \/ Command
    BY <1>7 DEF IdentifyCommand, Features, Command, Goto
  <1>8. CASE WaitNotBusy \/ DataWait \/ AddressError
    BY <1>8 DEF WaitNotBusy, AfterWait, DataWait, AddressError, Goto
  <1>9. CASE Read \/ Write
    BY <1>9 DEF Read, Write
  <1>10. CASE EndCheck
    <2>1. /\ pc = "end_check" /\ sector + 1 = call.count /\ UNCHANGED <<call, card>>
          /\ ~errShown /\ "ERR" \notin Shown
      BY <1>10 DEF EndCheck, driveVars
    <2>2. present /\ "ERR" \notin status
      BY <2>1 DEF Shown
    <2>3. cmd.op # "flush"
      BY <1>0, <2>1, <2>2 DEF DriveInv, FlushInv, IdleInv, Settled
    <2>4. Stored(sector) /\ \A i \in 0 .. sector - 1 : Stored(i)
      BY <1>0, <2>1, <2>2, <2>3 DEF DriveInv, StoredInv
    <2>5. ASSUME NEW i \in 0 .. call.count - 1
          PROVE  Stored(i)
      <3>1. i = sector \/ i \in 0 .. sector - 1
        BY <1>0, <2>1 DEF HostInv, Types
      <3>2. QED
        BY <2>4, <3>1
    <2>6. QED
      BY <2>1, <2>5 DEF Written, Stored
  <1>11. QED
    BY <1>2, <1>3, <1>4, <1>5, <1>6, <1>7, <1>8, <1>9, <1>10
       DEF Next, Driver, Calls, BeginsCall

-----------------------------------------------------------------------------
(* The theorems.                                                           *)

LEMMA InitDiskInv == Init => DiskInv
  <1> SUFFICES ASSUME Init
               PROVE  DiskInv
    OBVIOUS
  <1>1. NoCall \in CallSet /\ NoCall.op = "none"
    <2>1. <<>> \in Seq(SectorSet)
      OBVIOUS
    <2>2. QED
      BY <2>1 DEF NoCall, CallSet, Ops
  <1>2. Types
    <2>1. card \in [Lbas -> SectorSet]
      BY SectorType DEF Init
    <2>2. dbuf \in SectorSet /\ 0 \in 0 .. Bytes /\ <<>> \in Seq(Cell)
      BY SectorType, DiskAssumption DEF Init, Junk
    <2>3. QED
      BY <1>1, <2>1, <2>2 DEF Init, Types
  <1>3. DataPhase /\ PlaceInv /\ CallInv /\ WordInv /\ GotCount /\ OpenInv
    <2>1. 0 % 2 = 0
      OBVIOUS
    <2>2. QED
      BY <1>1, <2>1 DEF Init, DataPhase, PlaceInv, CallInv, WordInv, GotCount, OpenInv, Search,
           Identify, Opening, Writing, Reading
  <1>4. DriveInv
    BY <1>1 DEF Init, DriveInv, IdleInv, WidthInv, CommandInv, WritingInv, FlushInv, ReadingInv,
         GotInv, StoredInv, Settled, Opening, Writing, Reading, NoCmd
  <1>5. WriteOkNoErr
    BY <1>1 DEF Init, WriteOkNoErr, WriteReturned
  <1>6. QED
    BY <1>2, <1>3, <1>4, <1>5 DEF DiskInv, HostInv

\* A drive that has stopped answering does not come back.
LEMMA StaysGone ==
  ASSUME HostInv, Next
  PROVE  present' => present
  <1>1. CASE DriveStep \/ Die \/ Reset \/ WrongDrive \/ SetIdeBusMode
    BY <1>1 DEF DriveStep, Die, Reset, WrongDrive, SetIdeBusMode, driveVars
  <1>2. CASE BeginsCall
    BY <1>2, CallBegins DEF driveVars
  <1>3. CASE IdentifyCommand \/ Features \/ Command
    BY <1>3 DEF IdentifyCommand, Features, Command, CommandCycle
  <1>4. CASE Read \/ Write
    BY <1>4 DEF Read, ReadCycle, Write, WriteCycle
  <1>5. CASE \/ Signature \/ Detect \/ TimeOut \/ WaitNotBusy \/ Check \/ DataWait
             \/ AddressError \/ ReadWait \/ EndCheck
    <2>1. UNCHANGED driveVars
      BY <1>5 DEF Signature, Detect, TimeOut, WaitNotBusy, Check, DataWait, AddressError,
           ReadWait, EndCheck
    <2>2. QED
      BY <2>1 DEF driveVars
  <1>6. QED
    BY <1>1, <1>2, <1>3, <1>4, <1>5 DEF Next, Driver, Calls, BeginsCall

LEMMA StepDiskInv ==
  ASSUME DiskInv, [Next]_vars
  PROVE  DiskInv'
  <1>1. CASE Next
    <2>1. HostInv /\ (present' => present)
      BY <1>1, StaysGone DEF DiskInv
    <2>2. present' => DriveInv'
      <3> SUFFICES ASSUME present'
                   PROVE  DriveInv'
        OBVIOUS
      <3>1. present /\ DriveInv
        BY <2>1 DEF DiskInv
      <3>2. QED
        BY <1>1, <2>1, <3>1, IdleStep, WidthStep, CommandStep, WritingStep, FlushStep,
           ReadingStep, GotStep, StoredStep DEF DriveInv
    <2>3. QED
      BY <1>1, <2>1, <2>2, HostStep, WriteOkStep DEF DiskInv
  <1>2. CASE UNCHANGED vars
    <2>1. HostInv'
      BY <1>2, HostStep DEF DiskInv
    <2>2. UNCHANGED <<present, status, cmd, wide, dbuf, left, card, pc, ideMode, call, sector,
                      got, word, result, fs, errShown, open>>
      BY <1>2 DEF vars, driveVars, driverVars
    <2>3. present /\ DriveInv => DriveInv'
      BY <2>2 DEF DriveInv, IdleInv, WidthInv, CommandInv, WritingInv, FlushInv, ReadingInv,
           GotInv, StoredInv, AtThis, This, ThisCmd, GotCell, Stored
    <2>4. WriteOkNoErr => WriteOkNoErr'
      BY <2>2 DEF WriteOkNoErr, WriteReturned, Written
    <2>5. QED
      BY <2>1, <2>2, <2>3, <2>4 DEF DiskInv
  <1>3. QED
    BY <1>1, <1>2

\* The invariant of the driver and the drive holds in every behaviour, whatever
\* fails, stops answering or is reset, for every size of sector, card and request.
THEOREM DiskInvariant == Spec => []DiskInv
  <1>1. DiskInv /\ [Next]_vars => DiskInv'
    BY StepDiskInv
  <1>2. QED
    BY InitDiskInv, <1>1, PTL DEF Spec

\* go_8bits_mode and the read and write commands are never given to a busy
\* drive: it would ignore them and the driver would go on with the wrong data.
THEOREM CommandsFindDriveIdle == Spec => []CommandToIdleDrive
  <1>1. DiskInv => CommandToIdleDrive
    BY DEF DiskInv, DriveInv, IdleInv, Settled, CommandToIdleDrive
  <1>2. QED
    BY <1>1, DiskInvariant, PTL

\* When disk_write returned RES_OK and no status showed ERR after its data,
\* every sector is on the card.
THEOREM NoErrMeansWritten == Spec => []WriteOkNoErr
  <1>1. DiskInv => WriteOkNoErr
    BY DEF DiskInv
  <1>2. QED
    BY <1>1, DiskInvariant, PTL

\* A call that ends gives back the sectors it has read, and a successful
\* disk_read has read them all: what Succeed of SectorDisk asks.
LEMMA GotAll ==
  ASSUME HostInv, DriveInv, pc = "read_wait", call.op = "read", word = Bytes,
         sector + 1 = call.count
  PROVE  /\ Len(GotSectors) = call.count
         /\ \A i \in 0 .. call.count - 1 :
              /\ (call.first + i) % LbaMod \in DOMAIN card
              /\ GotSectors[i + 1] = card[(call.first + i) % LbaMod]
  <1>0. /\ sector \in Nat /\ Bytes \in Nat /\ Bytes > 0 /\ call.count \in Nat
        /\ got \in Seq(Cell) /\ card \in [Lbas -> SectorSet]
    BY DiskAssumption DEF HostInv, Types, CallSet
  <1>1. Len(got) = call.count * Bytes
    <2>1. Len(got) = sector * Bytes + Bytes
      BY DEF HostInv, GotCount
    <2>2. (sector + 1) * Bytes = sector * Bytes + Bytes
      BY <1>0
    <2>3. QED
      BY <2>1, <2>2
  <1>2. Len(got) \div Bytes = call.count
    BY <1>0, <1>1, DivMul
  <1>3. GotSectors = [i \in 1 .. call.count |-> SubSeq(got, (i - 1) * Bytes + 1, i * Bytes)]
    BY <1>2 DEF GotSectors
  <1>4. ASSUME NEW i \in 0 .. call.count - 1
        PROVE  /\ (call.first + i) % LbaMod \in Lbas
               /\ SubSeq(got, i * Bytes + 1, (i + 1) * Bytes) = card[(call.first + i) % LbaMod]
    <2>1. \A k \in 1 .. Bytes : GotCell(i, k)
      <3>1. i = sector \/ i \in 0 .. sector - 1
        BY <1>0
      <3>2. QED
        BY <3>1 DEF DriveInv, GotInv
    <2>2. (call.first + i) % LbaMod \in Lbas
      <3>1. 1 \in 1 .. Bytes
        BY <1>0
      <3>2. QED
        BY <2>1, <3>1 DEF GotCell
    <2> DEFINE m == i * Bytes + 1
               n == (i + 1) * Bytes
    <2>3. /\ i * Bytes \in Nat /\ n = i * Bytes + Bytes /\ m \in 1 .. Len(got) + 1
          /\ n \in m - 1 .. Len(got)
      <3>1. i * Bytes \in Nat /\ n = i * Bytes + Bytes
        BY <1>0
      <3>2. i * Bytes + Bytes \in 1 .. sector * Bytes + Bytes
        <4>1. (i < sector /\ Bytes <= Bytes) \/ (i = sector /\ Bytes <= Bytes)
          BY <1>0
        <4>2. QED
          BY <1>0, <4>1, ByteIndex
      <3>3. Len(got) = sector * Bytes + Bytes
        BY DEF HostInv, GotCount
      <3>4. QED
        BY <1>0, <3>1, <3>2, <3>3
    <2>4. /\ SubSeq(got, m, n) \in Seq(Cell)
          /\ Len(SubSeq(got, m, n)) = n - m + 1
          /\ \A k \in 1 .. n - m + 1 : SubSeq(got, m, n)[k] = got[m + k - 1]
      <3> HIDE DEF m, n
      <3>1. m \in Int /\ n \in Int /\ m >= 1 /\ n <= Len(got) /\ n - m + 1 \in Nat
        BY <1>0, <2>3 DEF m
      <3>2. QED
        BY <1>0, <2>3, <3>1, SubSeqProperties
    <2>5. n - m + 1 = Bytes
      BY <1>0, <2>3
    <2>6. SubSeq(got, m, n) \in SectorSet
      BY <2>4, <2>5, LenProperties DEF SectorSet
    <2>7. ASSUME NEW k \in 1 .. Bytes
          PROVE  SubSeq(got, m, n)[k] = card[(call.first + i) % LbaMod][k]
      <3>1. m + k - 1 = i * Bytes + k
        BY <1>0, <2>3
      <3>2. QED
        BY <2>1, <2>4, <2>5, <3>1 DEF GotCell
    <2>8. card[(call.first + i) % LbaMod] \in SectorSet
      BY <1>0, <2>2
    <2>9. SubSeq(got, m, n) = card[(call.first + i) % LbaMod]
      BY <2>6, <2>7, <2>8, SectorEqual
    <2>10. QED
      BY <2>2, <2>9
  <1>5. Len(GotSectors) = call.count
    BY <1>0, <1>3
  <1>6. ASSUME NEW i \in 0 .. call.count - 1
        PROVE  GotSectors[i + 1] = SubSeq(got, i * Bytes + 1, (i + 1) * Bytes)
    <2>1. i + 1 \in 1 .. call.count /\ (i + 1) - 1 = i
      BY <1>0
    <2>2. QED
      BY <1>3, <2>1
  <1>7. QED
    BY <1>0, <1>4, <1>5, <1>6

\* Every step of the driver and the drive is a step of the array of sectors:
\* a call requests, a flush lands, a return succeeds or fails.
LEMMA StepIsSectorDisk ==
  ASSUME DiskInv, [Next]_vars
  PROVE  [Abstract!Next]_(Abstract!vars)
  <1>0. /\ HostInv /\ PlaceInv /\ CallInv /\ (present => DriveInv)
        /\ word \in 0 .. Bytes /\ Bytes \in Nat
    BY DiskAssumption DEF DiskInv, HostInv, Types
  <1>1. ASSUME UNCHANGED <<card, call, result, got, open>>
        PROVE  [Abstract!Next]_(Abstract!vars)
    <2>1. GotSectors' = GotSectors
      BY <1>1 DEF GotSectors
    <2>2. QED
      BY <1>1, <2>1 DEF Abstract!vars
  <1>2. ASSUME Abstract!Request \/ Abstract!Land \/ Abstract!Succeed \/ Abstract!Fail
        PROVE  [Abstract!Next]_(Abstract!vars)
    BY <1>2 DEF Abstract!Next
  <1>3. ASSUME result' # "ok", UNCHANGED <<card, call, open>>
        PROVE  [Abstract!Next]_(Abstract!vars)
    BY <1>2, <1>3 DEF Abstract!Fail
  <1>4. ASSUME pc # "idle", result' = "ok", call.op # "read", open' = NoCall,
               UNCHANGED <<card, call>>
        PROVE  [Abstract!Next]_(Abstract!vars)
    <2>1. result = "none" /\ NoCall.op # "write"
      BY <1>0, <1>4 DEF CallInv, NoCall
    <2>2. Abstract!Succeed
      BY <1>4, <2>1 DEF Abstract!Succeed
    <2>3. QED
      BY <1>2, <2>2
  <1>5. CASE UNCHANGED vars
    BY <1>1, <1>5 DEF vars, driveVars, driverVars
  <1>6. CASE DriveStep
    <2>1. UNCHANGED <<call, result, got, open>> /\ present /\ card \in [Lbas -> SectorSet]
      BY <1>0, <1>6, DriveEffect DEF driverVars, DriveStep, HostInv, Types
    <2>2. CASE card' = card
      BY <1>1, <2>1, <2>2
    <2>3. CASE cmd.op = "flush" /\ card' = [card EXCEPT ![cmd.lba] = dbuf]
      <3>1. cmd.lba \in Lbas /\ open.op = "write"
        BY <1>0, <2>1, <2>3 DEF DriveInv, FlushInv
      <3>2. PICK i \in 0 .. open.count - 1 :
              /\ cmd.lba = (open.first + i) % LbaMod
              /\ open.exact => dbuf = open.data[i + 1]
        BY <1>0, <2>1, <2>3 DEF DriveInv, FlushInv
      <3>3. DOMAIN card = Lbas /\ card'[cmd.lba] = dbuf
        BY <2>1, <2>3, <3>1
      <3>4. GotSectors' = GotSectors
        BY <2>1 DEF GotSectors
      <3>5. \E j \in 0 .. open.count - 1 :
              LET a == (open.first + j) % LbaMod
              IN /\ a \in DOMAIN card
                 /\ card' = [card EXCEPT ![a] = card'[a]]
                 /\ open.exact => card'[a] = open.data[j + 1]
        <4>1. cmd.lba \in DOMAIN card /\ card' = [card EXCEPT ![cmd.lba] = card'[cmd.lba]]
          BY <2>3, <3>1, <3>3
        <4>2. open.exact => card'[cmd.lba] = open.data[i + 1]
          BY <3>2, <3>3
        <4>3. QED
          BY <3>2, <4>1, <4>2
      <3>6. Abstract!Land
        BY <2>1, <3>1, <3>4, <3>5 DEF Abstract!Land, Abstract!At
      <3>7. QED
        BY <1>2, <3>6
    <2>4. QED
      BY <1>0, <1>6, <2>2, <2>3, DriveEffect
  <1>7. CASE Die \/ SetIdeBusMode
    BY <1>1, <1>7 DEF Die, SetIdeBusMode, driverVars, driveVars
  <1>8. CASE BeginsCall
    <2>1. /\ result' = "none" /\ card' = card
          /\ open' = IF call'.op = "write" THEN call' ELSE open
      BY <1>0, <1>8, CallBegins DEF driveVars
    <2>2. QED
      BY <1>2, <2>1 DEF Abstract!Request
  <1>9. CASE Reset
    <2>1. result' = "none" /\ card' = card /\ open' = open /\ call'.op # "write"
      BY <1>9 DEF Reset, driveVars, NoCall
    <2>2. QED
      BY <1>2, <2>1 DEF Abstract!Request
  <1>10. CASE WrongDrive
    BY <1>3, <1>10 DEF WrongDrive, driveVars
  <1>11. CASE IdentifyCommand \/ Features \/ Command
    BY <1>1, <1>11 DEF IdentifyCommand, Features, Command, CommandCycle, Goto, hostVars
  <1>12. CASE WaitNotBusy \/ DataWait \/ AddressError
    BY <1>1, <1>12 DEF WaitNotBusy, DataWait, AddressError, Goto, hostVars, driveVars
  <1>13. CASE TimeOut
    BY <1>3, <1>13 DEF TimeOut, Return, driveVars
  <1>14. CASE Signature
    BY <1>1, <1>3, <1>14 DEF Signature, Goto, Return, hostVars, driveVars
  <1>15. CASE Detect
    <2>1. CASE Goto("features")
      BY <1>1, <1>15, <2>1 DEF Detect, Goto, hostVars, driveVars
    <2>2. CASE Return("error")
      BY <1>3, <1>15, <2>2 DEF Detect, Return, driveVars
    <2>3. CASE Return("ok")
      BY <1>0, <1>4, <1>15, <2>3 DEF Detect, Return, driveVars, PlaceInv, Search
    <2>4. QED
      BY <1>15, <2>1, <2>2, <2>3 DEF Detect
  <1>16. CASE Check
    <2>1. CASE \E place : Goto(place)
      BY <1>1, <1>16, <2>1 DEF Check, Goto, hostVars, driveVars
    <2>2. CASE Return("error")
      BY <1>3, <1>16, <2>2 DEF Check, Return, driveVars
    <2>3. CASE InitDone(mbr) /\ call.op = "init"
      BY <1>4, <1>16, <2>3 DEF Check, InitDone, Return, driveVars
    <2>4. QED
      BY <1>16, <2>1, <2>2, <2>3 DEF Check
  <1>17. CASE Read
    BY <1>0, <1>3, <1>17 DEF Read, ReadCycle, stepVars, CallInv
  <1>18. CASE Write
    BY <1>1, <1>18 DEF Write, WriteCycle, stepVars
  <1>19. CASE EndCheck
    <2>1. CASE sector + 1 < call.count
      <3>1. UNCHANGED <<card, call, result, got, open>>
        BY <1>0, <1>19, <2>1 DEF EndCheck, stepVars, driveVars, HostInv, Types, CallSet
      <3>2. QED
        BY <1>1, <3>1
    <2>2. CASE sector + 1 = call.count
      <3>1. /\ pc # "idle" /\ result' = "ok" /\ call.op # "read" /\ open' = NoCall
            /\ UNCHANGED <<card, call>>
        BY <1>0, <1>19, <2>2 DEF EndCheck, driveVars, PlaceInv, Writing, HostInv, Types, CallSet
      <3>2. QED
        BY <1>4, <3>1
    <2>3. QED
      BY <1>19, <2>1, <2>2 DEF EndCheck
  <1>20. CASE ReadWait
    <2>1. CASE Goto("read")
      BY <1>1, <1>20, <2>1 DEF ReadWait, Goto, hostVars, driveVars
    <2>2. CASE NextSector
      BY <1>1, <1>20, <2>2 DEF ReadWait, NextSector, stepVars, driveVars
    <2>3. CASE ~More /\ LastSector
      <3>1. /\ pc = "read_wait" /\ result' = "ok" /\ open' = NoCall
            /\ UNCHANGED <<card, call, got>>
        BY <1>20, <2>3 DEF ReadWait, LastSector, InitDone, Return, driveVars
      <3>2. CASE call.op # "read"
        BY <1>4, <3>1, <3>2
      <3>3. CASE call.op = "read"
        <4>1. present /\ DriveInv /\ word = Bytes
          BY <1>0, <1>20, <2>3 DEF ReadWait, Shown, More
        <4>2. sector + 1 = call.count
          BY <1>0, <2>3, <3>1, <3>3 DEF LastSector, CallInv, HostInv, Types, CallSet
        <4>3. /\ Len(GotSectors) = call.count
              /\ \A i \in 0 .. call.count - 1 :
                   /\ (call.first + i) % LbaMod \in DOMAIN card
                   /\ GotSectors[i + 1] = card[(call.first + i) % LbaMod]
          BY <1>0, <3>1, <3>3, <4>1, <4>2, GotAll
        <4>4. GotSectors' = GotSectors
          BY <3>1 DEF GotSectors
        <4>5. result = "none" /\ NoCall.op # "write"
          BY <1>0, <3>1 DEF CallInv, NoCall
        <4>6. Abstract!Succeed
          BY <3>1, <4>3, <4>4, <4>5 DEF Abstract!Succeed, Abstract!At
        <4>7. QED
          BY <1>2, <4>6
      <3>4. QED
        BY <3>2, <3>3
    <2>4. QED
      BY <1>20, <2>1, <2>2, <2>3 DEF ReadWait
  <1>21. QED
    BY <1>5, <1>6, <1>7, <1>8, <1>9, <1>10, <1>11, <1>12, <1>13, <1>14, <1>15, <1>16, <1>17,
       <1>18, <1>19, <1>20 DEF Next, Driver, Calls, BeginsCall

\* disk_read and disk_write serve FatFs an array of sectors: what a successful
\* read returns is on the card, a write touches only its own sectors, and
\* nothing lands after a success.
THEOREM DiskIsSectorArray == Spec => ImplementsSectorDisk
  <1>1. Init => Abstract!Init
    BY DEF Init, Abstract!Init, NoCall
  <1>2. DiskInv /\ [Next]_vars => [Abstract!Next]_(Abstract!vars)
    BY StepIsSectorDisk
  <1>3. QED
    BY <1>1, <1>2, DiskInvariant, PTL DEF Spec, ImplementsSectorDisk, Abstract!Spec
=============================================================================
