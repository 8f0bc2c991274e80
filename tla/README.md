# Verification of OrionBios

OrionBios is the ROM BIOS of a home-built 68000 computer together with the
firmware of its peripherals: a Raspberry Pi Pico 2 W (keyboard, network files),
an RP2350B that emulates an IDE drive on an SD card, a Pico that drives the VGA
screen, and an ATmega8 that encodes interrupts. This directory holds TLA+
modules for the parts where several processors, interrupts and DMA channels
meet, TLC configurations that check them, and TLAPS proofs.

Run a check with `tlc -workers 2 -config X.cfg M` and the proofs of a module with
`tlapm M_proofs.tla`. `PROJECT.json` lists components, runs, the
correspondence of every definition with source lines, findings and hazards.

## 1. Inventory

| Component (source) | State | Operations | What makes it correct |
|---|---|---|---|
| Keyboard ring (`drivers/kbd/ringbuffer.c`) | `buffer`, `head`, `tail` | init, put (interrupt), get, get_char | bytes in order, once, none lost with room left |
| Vectors (`bios/sys/vectors`) | `systemTick`, `tick_count`, trap tables | `Int2Handler`, `Int3Handler`, `Trap1Handler` | the handlers save what they use and mask only around `ring_buf_put` |
| picoIDE firmware (`peripheral/RP2350B/ide_interface.c`, `ide_pio.pio`) | task-file registers, `g_dir`, counters, two staging buffers, two DMA channels, FIFOs | four interrupt handlers (core 0), `ide_interface_task` (core 1), `dispatch_command` | the right sector at the right time, BSY and DRQ never lie, buffers have one owner |
| picoIDE SD driver (`sd_driver.c`) | card type and size | block read and write, start-up | an error is reported, a block is written whole or not |
| picoIDE host driver (`drivers/picoIDE/ata.c`) | none but the drive's | `ata_init`, `ata_identify`, `ata_read_sectors`, `ata_write_sectors` | ATA_OK means done; calls end |
| USB keyboard reader (`peripheral/pico2W/kbd_usb/kbd_usb.c`) | parser state, report, modifiers, one pending character | `kbd_poll`, `get_char_nonblocking` | one character per key report, in step with the frames |
| Pico 2 W bus (`orion_bus.c`, `orion_bus.pio`, `ps2_keyboard.c`) | two FIFOs, interrupt line, `bkd_int` | answer a packet (core 0), put a key and `kbd_int_on` (core 1) | each access gets its own answer; every key reaches the 68000; no bus hang |
| Interrupt encoder (`peripheral/atmega8/interruptCntrl`) | IPL outputs | poll the lines, pulse IPL | a request is repeated until served |
| Pico 2 W file server (`pds200_1.c`, file registers of `orion_bus.c`) | state per connection, the published block with size, CRC, read index and flag | TCP accept, receive, close; publish (core 1); serve a register (core 0) | the 68000 reads a whole file of one connection; every block has one owner |
| CompactFlash driver (`drivers/ide/ata.c`, `diskio.c`) | partition bases, bus mode | detect, initialize, status, read, write, identity | RES_OK means done; only the sectors asked for change; calls end |
| DHCP client (`bios/sys/ethernet/dhcp_client.c`) | socket 0, own address, offer | discover, take offer, request, take answer, waits | the address used is one a server granted, or the static one; the boot goes on |
| Receiver and its client (`bios/shell/receiver.c`, `tools/sender2`) | parser state kept between calls, size, memory | open, listen, header, payload, close, save | the file saved is the file sent; both sides get out of the transfer |
| Timers (`bios/timers.c`) | five slots | add, delete, start, stop, update | nothing calls them |
| Line editor (`shell_history.c`) | history, line, cursor | add, cursor keys | the line shown is the line returned |
| Boot, shell, commands, TRAP calls, ELF loader | global flags | sequential glue around FatFs | - |
| pico2VGA firmware | character ring, cursor | put, draw | characters in order |
| RTC and I2C, consoles, C library, GAL equations | registers | bit-level or polled I/O | - |

FatFs, the SD-SPI library, the C compiler, assembler and linker in the tree and
most of `apps/` are third-party.

How they interact. A key goes from the CH9350 converter over a UART to core 1 of
the Pico 2 W (`kbd_poll`), into the TX FIFO of the bus state machine, raises a
line to the ATmega, which pulses the IPL inputs of the 68000; `Int3Handler`
reads register 0x09 of the Pico and calls `ring_buf_put`; the shell takes the
byte with `ring_buf_get_char`. A sector goes from the SD card through core 1 of
the RP2350B into a staging buffer, by DMA into a FIFO, over a bus cycle that has
no timeout to the driver on the 68000. A sector of the CompactFlash goes byte by
byte through `ata_read_sector` into a buffer of FatFs. A file comes to the
machine in two ways: over Wi-Fi to core 1 of the Pico 2 W, which publishes it for
core 0 to serve through bus registers, or over the W5100 chip, whose only used
socket serves DHCP at boot and the shell command `recv` afterwards. The modules
follow these five paths.

What is hard: two cores and DMA share variables without locks; statuses that are
stale for a few cycles; FIFOs cleared while somebody fills them; bus cycles that
never end when nobody answers; a driver that gave up, or a 68000 that was reset,
while the drive works on; bytes lost by a FIFO that overflows; TCP streams cut
anywhere; memory published by one core and freed under the other; datagrams lost,
late, or meant for somebody else. The hazards of
`PROJECT.json` list them with their lines.

## 2. Modules

| Module | Models | Composes |
|---|---|---|
| `BoundedFifo` | what the ring promises (abstract) | |
| `KbdRing` | `ringbuffer.c` and `Int3Handler` | implements `BoundedFifo` |
| `IdeInterface` | the RP2350B drive: handlers, DMA, core 1, card | |
| `PicoIdeDisk` | the 68000 driver using the drive | extends `IdeInterface` |
| `KbdUsb` | frame parser and report decoder on core 1, the UART | |
| `PicoBus` | Pico bus, both cores, ATmega, `Int3Handler`'s read | |
| `SectorDisk` | what the disk functions promise FatFs (abstract) | |
| `BiosDisk` | `diskio.c`, `ata.c` and the drive | implements `SectorDisk` |
| `PicoFile` | TCP callbacks on core 1, file registers on core 0, the heap | |
| `W5100` | socket 0 of the network chip | |
| `Dhcp` | `w5100_dhcp_request`, servers, network | extends `W5100` |
| `Receiver` | `do_receiver` and its client | extends `W5100` |
| `Ethernet` | boot, then shell, on one socket; reboots | extends `Dhcp`, `Receiver` |
| `MC*` | instances for TLC | |
| `KbdRing_proofs`, `BiosDisk_proofs`, `PicoIdeDisk_proofs`, `PicoFile_proofs`, `PicoBus_proofs`, `KbdUsb_proofs`, `Ethernet_proofs` | theorems (section 4) | each extends its module |

Operators called "faulty variant" are plausible errors of the definition that
follows them; each property is shown to fail when its variant takes the
definition's place, so that no property holds for want of anything to break it.

### KbdRing
`Int3Handler` masks everything around `ring_buf_put`, so a put is one step.
`ring_buf_init` and `ring_buf_get` run with interrupts open: every store is a
step of its own. The interrupts are open before `ring_buf_init`, so bytes may
arrive when `rb->buffer` is NULL (the put then writes to low ROM addresses and
only `head` moves) or between the resets of `head` and `tail`. Indices are
uint8_t and the size is 256; the model wraps at `Size`. `stored` and `got` are
histories. `ImplementsFifo` maps the bytes waiting to the queue of `BoundedFifo`.

### IdeInterface and PicoIdeDisk
The interrupt handlers of core 0 have one priority and each is one step. Core 1
is split where a handler can make a difference, and an SD operation begins and ends
in different steps; `FetchTest` is the exception, core 1's three tests after an SD
read together with the arming of the DMA that follows them, on the assumption about
core 1's speed below. A DMA channel moves a word per step. Byte order is modelled:
the little-endian load, the byte swap of the DMA channel and the driver's
storing of the high byte first. A sector is `Words` words that carry their
position, so a shifted or foreign word is seen. LBA and count registers have
`Radix` and `CountMax` values; a count of 0 means `CountMax`. Core 1 reads or
writes the card, or fails.

`PicoIdeDisk` adds the driver: every bus cycle is a step. `Reset` restarts the
68000 and leaves the drive as it is; `TimeOut` lets a polling loop give up.
A loop of `ata_init` may give up as well. `RawCommand` stands for programs that
issue commands without data: `apps/ide_test` issues one the drive does not know,
the drive also has a diagnostic and commands that do nothing. A behaviour has one of three settings, fixed at the start: usual (all calls,
resets), impatient (a polling loop may give up at any moment; reads and writes),
late interrupt (the DMA interrupt is taken after the read of the status; writes,
card size unknown). Three assumptions about time are explicit:
- `DmaSettled` (in `RegisterIrqTaken`): a DMA channel that can move does so
  before the next register cycle; it needs some clock cycles where the 68000
  needs microseconds.
- `dmaIrqFirst`: when both are pending core 0 takes DMA_IRQ_0 before the
  register interrupt, as the vector numbers order them. Without it only writes
  are safe, through the correction in `pio_taskfile_read_irq_handler`.
- `Core1Stalls = FALSE`: core 1 passes from `set_ready_idle` to
  `g_dir = DIR_NONE`, two adjacent statements, before the 68000 can read the
  status and issue a command. `FetchTest` takes the same for granted. With `TRUE` in `MCPicoIdeDisk.cfg` TLC finds
  `BusyHasWorker` violated: the new command's direction is erased and BSY stays.

### KbdUsb
One step per byte of `kbd_poll`. A report is handled by `FinishRelease`,
`FinishCaps` or `FinishKey`. The converter is external: it sends whole frames
from a set that has every kind `kbd_poll` knows and an unknown one; up to
`MaxLost` bytes that find the UART FIFO full are lost. A character is the table
it is taken from and the key code; the tables themselves are left out.

### PicoBus
The state machine pulls right after its push, and takes a word as soon as it is
put: it runs at the clock of the cores. Core 0 (`kbd_int_off` in two stores, get,
clear, put) and core 1 (put, then `kbd_int_on` in three steps) interleave. A TX
word is a key with its number or the answer to an access with its number. The
ATmega pulses while the line is asserted; a pulse may be missed. Two tempos:
- slow: a key comes after the one before was served, with core 0 idle and no bus
  cycle under way (milliseconds against microseconds); core 0 finishes a packet
  before the next cycle of the 68000; `kbd_int_on` finishes before its interrupt is
  handled. So `kbd_int_on` and `kbd_int_off` never overlap at this tempo;
- fast: the keyboard alone, no assumption about anybody's speed. It happens when
  core 1 was away with the network and finds several reports in the UART. Here the
  two do overlap, keys are lost and the keyboard may fall silent (see below);
  `NoPhantomKeys` is what is left.

The PS/2 decoder runs in an interrupt of core 0 and is a second source of keys
(`ps2_keyboard.c:205`). It is not modelled: the USB keyboard is the one in use.

### BiosDisk and SectorDisk
Every access to a drive register that the drive can tell apart is a step; a
polling loop is a step enabled when its condition holds, so the drive may change
between any two accesses. The drive is external: it executes a command in a step
of its own, may answer with ERR, may be absent, and may stop answering for good;
an absent drive reads as all ones. Commands while BSY are ignored. FatFs is what
`find_volume` needs: `disk_status`, `disk_initialize` when that fails, and requests
for its volume once initialized. `ata_init` does not look at the result of reading
sector 0, so the base may come from `GarbageBases`; that is more than can happen
right after a start, which clears the RAM the table is taken from. The drive is
assumed to accept SET FEATURES (the code does not look at its result), and both
waits of `ata_read_identity` around its status test may time out. A sector has `Bytes` bytes that
carry their position. In the 16-bit mode (`idemode`) a read faults, since the data
register is at an odd address, and a write stores something else; such a write is
marked as not exact. `Reset` may or may not reach the drive.

`SectorDisk` is an array of sectors: a read that succeeds returned the sectors
asked for, only the write under way changes the card, nothing changes after a
request succeeded. `open` carries the write that may still land after a failure or
a reset. It does not promise that a successful write is on the card: the code does
not keep that, see `bios_disk_error`.

### PicoFile
The callbacks of lwIP run to completion on core 1, one step each, until a file is
complete; the publication is one step per store. On core 0 each of the three loads
of the test at the start of an access, each register and each store is a step; the
byte of register 0 is loaded together with pointer and index, and its
`ponteiro_leitura++` is stored in a later step. The two registers of the size and
the four of the CRC are separate accesses. A segment has n units of which len are in
its first pbuf: the code looks at that one only. `intact` records that a connection
lost nothing, and separates what the code promises from what happens to a stream in
pieces (content read as a header, `GarbageSizes`). `broken` marks undefined behaviour
(a copy past the end of the block, a freed `es` used again); the model stops there.
The program on the 68000 reads status, size, data and CRC like the loader in
`drivers/picoW/picow.c`, which is commented out there and the only description of
the protocol. Between two files it may also load a sector (register 0x0C), whose CRC
core 0 stores over the file's; core 0 gives no answer, and the cycle ends when a key
word comes or the 68000 is reset. A CRC is the data it is computed over, so the
models know no collisions. Lines 323 to 648 of `pds200_1.c` are compiled out
(`#ifdef buceton`) and are not modelled.

### W5100, Dhcp, Receiver, Ethernet
A command to the chip is complete when `w5100_cmd` returns. `get_tick_ms` reads
0x80064, which lies in the RAM jump table and not where `systemTick` is linked: the
clock of `dhcp_client.c` stands still, so neither `wait_rx_at_least` nor `w5100_cmd`
ever gives up, and `WaitRx` only polls. Each server has one address for this machine.
Requests reach any subset of the servers, answers are lost and overtake each other,
and answers to other clients are broadcast; a datagram too short for options makes
`parse_dhcp_options` find those of the one before, and a tiny one alone is not enough
for `wait_rx_at_least`. `Receiver` takes the stream in any pieces; the client may go
away at any moment, with or without closing. A save fails at the open, or has
truncated the file and writes any part of it. `Reboot` starts the BIOS again: RAM is
cleared, the chip stays as it is, and so does a client that waits for its answer
(`cut`): nothing tells it.

## 3. Runs

| Run | Shows |
|---|---|
| `kbd_ring` | `DeliveredInOrder`, `SlotHeldWhileRead`, `DropOnlyWhenFull`, `EveryByteDelivered`, `ImplementsFifo`, and `RingInv`, the invariant of the proofs |
| `picoide` | all three settings: `ReadCorrect`, `WriteDurable`, `BufferNotShared`, `DrqHasDma`, `BusyHasWorker`, `WritesOnlyWhatWasAsked`; no deadlock, which here means no bus cycle that waits for ever |
| `picoide_live` | `CallReturns`: no call needs its timeout, in the settings without timeouts |
| `kbd_usb` | `KeysInOrder`, `BackInStep`, `CapsFollowsPresses`, `ReleasedMeansNoModifier`, `NoExtraKeys`, `EveryKeyTyped` |
| `pico_bus` | slow: `KeysInOrder`, `EveryKeyReceived`, `AtMostOneBehind`, `BusAnswered`; both tempos: `NoPhantomKeys` |
| `bios_disk` | `ImplementsSectorDisk`; `WriteOkNoErr` (RES_OK without a shown error means stored); `CommandToIdleDrive`; `CallReturns` (only a drive that stops in the middle of a sector, or the 16-bit mode, holds the BIOS) |
| `pico_file` | `BlocksAccounted` (one owner per block, a leak only after a reset connection), `PublishedIsSent`, `AcceptedIsOneFile` (no mixture of files is ever accepted, whatever is published or freed in the middle of a read), `CalmRead` (an undisturbed read is accepted exactly if the size fits and no sector was loaded), `BrokenByPieces`, `SentIsPublished` |
| `ethernet` | `AddressKnown`, `SavedBegins`, `BootGoesOn` (the boot hangs only while too few bytes come), `TransferEnds` (except for a client whose 68000 was reset), `RecvListens` |

Runs that show a disagreement with a comment of the code:

| Run | What happens |
|---|---|
| `bios_disk_error` | the drive reports ERR after the data; `ata_write_sector` logs it and returns 512, `disk_write` returns RES_OK |
| `pico_file_alive` | a second client's file is complete while the 68000 reads the first: the block is freed under it |
| `ethernet_file` | the client sends as many bytes as the content has, header included: the last 21 bytes of the saved file are not the client's |
| `pico_bus_sector` | writes to 0x0A, 0x0B, 0x0C get no DTACK: their cases return before the put |

Seen while modelling, without a run of its own:
- `ata_write_sectors` of the picoIDE driver returns ATA_OK when the card refused
  the last sector: ERR is not tested after the last wait (`picoIDE/ata.c:355`);
- `ata_identify` does not wait for BSY: after a read that timed out its late
  sector lands in the identity block being sent (`picoIDE/ata.c:239`);
- a modifier stays in force for a report without one while some key is down
  (`kbd_usb.c:247`); Caps Lock with a modifier held is decoded as a character and
  does not toggle (`kbd_usb.c:238`);
- a key waiting in the TX FIFO answers a read of another register, and the answers
  are one access late until the keyboard register is read (`pds200_1.c:314`);
- a key put between the pull and `pio_sm_clear_fifos` is lost, and if the line was
  asserted again the next read of 0x09 waits until another key comes
  (`orion_bus.c:39`); core 1 held up between driving the line and setting `bkd_int`
  leaves the flag set and the keyboard silent until some register is accessed
  (`ps2_keyboard.c:78`);
- a sector loaded after a file was published replaces its CRC, and the program
  refuses the file (`orion_bus.c:110`); `CalmRead` says so;
- when the 68000 is reset during a transfer, `sender2` waits in `recv` for ever
  (`sender.c:99`): reopening the socket as UDP tells the client nothing;
- `get_tick_ms` reads 0x80064, the longword in the RAM jump table, where the comment
  above it names 0x80448 and the linker puts `systemTick` behind 0x80604: without a
  DHCP server the boot never ends, although the code allows 30 seconds
  (`dhcp_client.c:256`); `BootGoesOn` excepts exactly this;
- core 0 stores its incremented `ponteiro_leitura` over core 1's reset, so a new file
  may be announced with the index behind its start (`orion_bus.c:52`); what the next
  program then reads it does not accept (`AcceptedIsOneFile`);
- core 0, having seen the old file read to its end, clears `arquivo_pronto` after
  core 1 set it for a new file, which is then never announced (`orion_bus.c:46`);
- `recv` of a file of 21 bytes or fewer: both sides wait (`receiver.c:160`); a client
  that closes early makes `saving_file` write what memory held (`receiver.c:184`);
- an answer to another client of the network is taken for our own
  (`dhcp_client.c:434`); `AddressKnown` says exactly when.

### Bounds
- Ring of 3 slots, 2 different bytes, 6 interrupts: the ring fills, drops and
  wraps twice. The proofs remove the bound.
- Drive: sectors of 2 words with a FIFO of 1, so a transfer is suspended with the
  FIFO full and empty; 2 sectors on the card and LBAs up to one past its end;
  counts 1 and 2, so first, middle and last sector of a transfer differ;
  2 sector contents (1 in the liveness run); 1 reset. Both staging buffers are in
  use at once with 2 sectors.
- Keyboard: 3 frames, FIFO of 2 bytes, 1 lost byte: two reports in the FIFO and a
  frame cut anywhere. The buffer holds 6 bytes and reports have 4, as only bytes
  2 and 4 matter.
- CompactFlash: sectors of 2 bytes, so 16-bit and 8-bit transfers differ; a card of
  3 sectors with the partition at 1, requests of 1 and 2 sectors up to one past its
  end; one rubbish base that reaches past the card; no bound on calls or resets.
- File server: two connections, two blocks, so that malloc fails; a header of 2
  units, so it can be cut; two size registers of one bit and two registers of the CRC,
  so each can be torn; files of 1 and 4 bytes, of which the second does not fit and a
  size torn between them is that of neither. While the 68000 reads, at most one
  connection is open and it has lost nothing so far (`IdleWhileTwo`); before and
  after, both are, in any state. The proofs have neither bound, and cover the empty
  file. No bound on transfers.
- Network: 2 servers, a receive buffer of 2, a header of 2 units, files of 2 (as
  long as the header) and 4 units, 1 reboot; no bound on transfers.
- Pico bus: 3 keys, 4 other accesses, FIFOs of 2 words (4 in the hardware), so a
  FIFO fills.

Deadlock checking is off where the bounds end the behaviour (`kbd_ring`,
`kbd_usb`, `pico_bus`) and where undefined behaviour does (`pico_file`); in the
other runs it is on.

### Fairness
Weak fairness of each processor and of the DMA: they are never switched off. No
fairness for keys, calls, resets, timeouts and lost bytes. The converter finishes
a frame it began. `PicoBus` assumes strong fairness of the interrupt: the ATmega
repeats its pulse every 500 us while the line is asserted, and the 68000 cannot
miss all of them. An SD operation ends, with success or failure: `sd_driver.c`
bounds its waiting loops. A CompactFlash that is present ends each command, with
success or ERR; one that died is the exception `CallReturns` names. A client of
`recv` sends what it announced unless it goes away or the 68000 is reset, and the
chip completes a disconnection. Nothing makes a DHCP server answer, and no timeout
is assumed to fire; nothing makes an operator type `recv` or a client connect.

## 4. Proofs

Each `X_proofs` module extends `X`, states an inductive invariant, proves that
`Init` gives it and that every action keeps it, and derives the theorems. The
constants are arbitrary within the `ASSUME` of the module; a theorem that needs
more says so in its own hypotheses.

### KbdRing_proofs
For every `Size >= 2`, every `Byte` and every `MaxTyped`: `RingInvariant`,
`TypeCorrect`, `InOrder`, `SlotHeld`, `NoEarlyDrop` (an action property) and
`RingIsFifo`, the refinement of `BoundedFifo`.

`DeliveredInOrder` is not inductive: nothing in it says where the waiting bytes
are. `RingInv` adds that with n = `Len(stored) - Len(got)` bytes waiting head is
the n-th slot after tail and n < `Size` (`HeadInv`), that the k-th waiting byte is
in the k-th slot (`SlotsInv`), that a get in progress has a byte and holds the
right one (`GetInv`), and what is known during `ring_buf_init` (`BaseInv`,
`ResetInv`). The lemmas `SlotsApart`, `SlotAfter` and `SlotShift` are the modular
arithmetic of the slots. `RingIsFifo` maps each step to a put, a get, a reset, a
drop with the FIFO full, or no step.

### BiosDisk_proofs
For every even sector size, card and request that fit the LBA registers:
`CommandsFindDriveIdle`, `NoErrMeansWritten` and `DiskIsSectorArray`, the
refinement of `SectorDisk`.

`DiskInv` ties each place of the driver to what the drive is doing: who owes bytes
and how many are left (`DataPhase`, `PlaceInv`), which sector is under way
(`CallInv`), what the driver has read so far (`GotCount`, `GotInv`, `ReadingInv`),
what the drive has been given and what the card holds of it (`WritingInv`,
`FlushInv`, `StoredInv`), and that the width of the bus is the one the driver
believes in (`WidthInv`). What it says of the drive it says while the drive is
present: of one that has stopped answering nothing is known, and the driver never
leaves its loop. `OpenInv` says that no write is still under way after a call that
succeeded, which is what `SectorDisk` promises.

### PicoIdeDisk_proofs
For every sector size, FIFO depth smaller than a sector, card and number of
sectors: `BuffersAreNotShared`, `DrqIsBacked`, `BusyIsBacked`, `ReadsAreCorrect`,
`WritesAreDurable` and the action property `OnlyAskedIsWritten`.

None of them is inductive: that DRQ is backed by a DMA transfer depends on how far
core 1, the two channels and the driver have come with one command. `WorkInv`
says it: the drive is at rest, or in one of the phases of a read (`Fetching`,
`Sending`, `ReadOver`) or of a write (`Taking`, `Flushing`, `WriteOver`), and
`HostInv` relates the place of the driver to the phase. It suffices for the three
theorems about ownership. `DataInv` adds the words: the buffer, the FIFO and the
byte in the driver's hand are consecutive words of one sector (`Stream`,
`Loaded`, `TakeData`), the word the driver reads next is the one it takes it for
(`ReadPlace`), and what was flushed is on the card (`Stored`, `FlushData`,
`WriteEnded`). The drive takes the LBA from four registers; `LbaRoundTrip` shows
that it is the LBA the driver split, from the uniqueness of division
(`DivUnique`). This needs `Capacity < Radix^4`: `ata.c` refuses an LBA that the
registers do not hold.

Hypotheses. `Core1Stalls` is false: no bus cycle slips between two adjacent stores
of core 1 (see section 2 for why the hardware makes this so). The settings are
`Orderly`: where calls may give up on a busy drive `ata_identify` is not called,
since it does not wait for BSY, and where sectors are read the DMA_B interrupt is
handled before the next status read. All settings of the run `picoide` are
orderly, so the theorems cover that run for every size.

### PicoFile_proofs
For any connections, blocks and files, with streams cut anywhere:
`BlocksAreAccounted`, `PublishedFileIsSent`, `CalmReadIsWhole`, `AcceptedFileIsOne`,
`BrokenOnlyByPieces` and `SentFileIsPublished`.

`FileInv`: each live block has one owner and no two connections fill the same one
(`HeapInv`), a block being filled holds the part of its file received so far
(`DataInv`), the published pointer, size and CRC belong together except between
the stores of a publication, and but for the CRC of a sector loaded since (`PubInv`),
and a program reading registers has what
the block held up to its index unless something was published since (`ReadInv`,
`CalmInv`). Ownership is needed for all: without it a `free` could take the block
another place still names. `AcceptedFileIsOne` assumes nothing about who publishes
when. It adds that every CRC core 1 stores is that of one whole file, because a block
is filled by one connection (`BlocksOne`), and that a program at the CRC has as many
bytes as it was told (`SeenOne`).

### PicoBus_proofs
For every FIFO depth, set of registers and number of keys: `SlowKeysInOrder`,
`OnlyTypedKeys` and `AnswersOneBehind`.

`BusInv`: an access that waits finds the TX FIFO empty; at slow tempo at most one
packet is under way and an answer waits only at the head of the FIFO, while core 0
is idle (`SlowInv`); with the keyboard alone in use the words read and waiting are
keys in the order typed (`KbdInv`); and with both, the last key either waits in the
FIFO while `kbd_int_on` runs or was read and core 0 takes back line and flag
(`KeyLife`), which is where the flag and the line are related step by step.

### KbdUsb_proofs
For any well-formed frames, any FIFO and any number of frames: `KeysAreInOrder`,
`ParserIsBackInStep`, `CapsFollows`, `ReleaseEndsModifiers`, and `NoKeysMadeUp` with
any number of bytes lost.

The properties speak of frames sent and characters made, and in between are a FIFO
that spans several frames and a parser in the middle of one. `KbdInv` gives each
byte of the FIFO its place, frame and byte, in the order of the line (`Line`), one
after another when nothing was lost (`Unbroken`). The state, length, index and
buffer of `kbd_poll` are then a function of the place of the last byte it took
(`InStep`), and characters, Caps Lock and modifiers one of the reports among the
frames taken whole (`Decoded`). With bytes lost only a count is left: characters
made and the report `kbd_poll` believes to be in are no more than the kinds of
reports it passed (`Begun`). Frames are well formed (`WellFormedFrames`): the length
byte tells the length, which is what `kbd_poll` goes by. `NoKeysMadeUp` also needs
`KindIsUnique`: a payload with the byte 0x88 in it could be taken for a report when
the bytes before it are lost.

### Ethernet_proofs
For any servers, any receive buffer and reboots, and any set of files that has a
largest one: `AddressIsKnown` and `SavedFileBegins`.

`DhcpInv`: every ACK for this machine, in the network or in the socket, carries an
address a server leased to it (`AirInv`, `RxInv`), and the address register is the
static one until an answer is taken (`SockInv`). `RecvInv`: the bytes in the
socket are the next ones of the client's stream, and memory holds those before; no
acknowledged transfer is open outside the call of `recv` that saves it, so neither a
reset nor a partial write makes a saved file count as acknowledged.
The largest file is there because memory is a function over addresses up to its
size; the sets of a build are finite and have one.

### Only model-checked
- Liveness (`EveryByteDelivered`, `CallReturns`, `EveryKeyTyped`,
  `EveryKeyReceived`, `BusAnswered`, `BootGoesOn`, `TransferEnds`, `RecvListens`):
  fairness and ENABLED are out of the prover's reach.
- The findings: a violation is a counterexample, not a theorem.

## 5. Plan

Every invariant and every safety action property a run checks is stated by a
theorem. Theorems that could follow: `SectorDisk` from `PicoIdeDisk`, with the
transfer of a call as the refinement mapping's open write.

Modules that could still be added: the chain `KbdUsb`, `PicoBus`, `KbdRing` as one
composition against one keyboard queue; `PicoIdeDisk` as a refinement of
`SectorDisk`; SD card start-up over SPI.

## 6. Not modelled

- FatFs, lwIP, the C library and other third-party code (most of the tree).
- Dead code: `bios/timers.c` (no caller), the variants of `has_master_disk`,
  `w5100_init`, `drivers/ethernet`, the second half of `pds200_1.c`,
  `shell_historyComNavegacao.c`.
- Drawing, fonts, printing, line editing and parsing of commands: sequential code
  about data.
- The data of the sector registers of the Pico 2 W: core 0 does what a write to them
  asks but answers nothing, see `pico_bus_sector`; the CRC it stores is modelled in
  `PicoFile`.
- The PS/2 keyboard as a second source of keys.
- The key tables of `kbd_usb.c`, and so a key code past their end.
- GAL equations, the I2C clock, and electrical timing below the steps described
  above.
