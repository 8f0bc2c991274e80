------------------------------- MODULE PicoBus -------------------------------
(***************************************************************************)
(* The Pico 2 W on the bus of the 68000 and the path of a key to the 68000 *)
(* (peripheral/pico2W/orion_bus.c, PIOs/orion_bus.pio, ps2_keyboard.c,     *)
(* pds200_1.c; peripheral/atmega8/interruptCntrl; Int3Handler).            *)
(*                                                                         *)
(* A state machine serves the bus: it pushes the packet of a cycle into    *)
(* the RX FIFO and then pulls one word from the TX FIFO as its answer.     *)
(* Core 0 answers packets.  Core 1 puts keys into the same TX FIFO, ahead  *)
(* of any read, and asserts the interrupt line with kbd_int_on; the ATmega *)
(* pulses the 68000's IPL inputs while the line is asserted, and           *)
(* Int3Handler reads register 0x09 to fetch the key.                       *)
(*                                                                         *)
(* The state machine runs at the clock of the cores, so its pull follows   *)
(* its push, and its answer a put, before any other step.  A word of the   *)
(* TX FIFO is a key (numbered as typed) or the answer to an access.        *)
(* The keyboard is the USB one, which core 1 polls.  With a PS/2 keyboard  *)
(* plugged in as well its interrupt, on core 0, is a second producer with  *)
(* the same put and kbd_int_on (ps2_keyboard.c); that is not modelled.     *)
(***************************************************************************)
EXTENDS Naturals, Sequences

CONSTANTS
  FifoDepth,   \* words a FIFO of the state machine holds (4)
  Other,       \* the registers the program on the 68000 uses besides 0x09
  MaxKeys,     \* bound: keys typed
  MaxCycles,   \* bound: accesses to Other
  Tempos       \* which of the tempos "slow" and "fast" are considered

ASSUME PicoBusAssumption ==
  /\ FifoDepth \in Nat \ {0}
  /\ Other \subseteq (0 .. 63) \ {9}
  /\ MaxKeys \in Nat /\ MaxCycles \in Nat
  /\ Tempos \subseteq {"slow", "fast"}

VARIABLES
  tx, rx,      \* the FIFOs
  cycle,       \* <<register>> while a bus cycle waits for its answer
  pirq,        \* the interrupt line is asserted (GPIO PIRQ = 0)
  bkd_int,     \* the flag of kbd_int_on and kbd_int_off
  ipl,         \* the ATmega drives the IPL inputs
  core0, pkt,  \* place of core 0 and the packet it took
  core1,       \* place of core 1
  tempo,       \* slow: a key is typed only after the one before was dealt
               \* with, core 0 answers before the 68000 starts another cycle
               \* and kbd_int_on ends before its interrupt is handled;
               \* fast: the keyboard alone, whatever the speed of the parts
  keys,        \* keys typed
  log          \* accesses that ended: register and word

vars == <<tx, rx, cycle, pirq, bkd_int, ipl, core0, pkt, core1, tempo, keys, log>>

KbdReg   == 9
NoCycle  == <<>>
Key(k)   == <<"key", k>>
Answer(n) == <<"answer", n>>
NoPacket == [reg |-> 0, n |-> 0]

Init ==
  /\ tx = <<>> /\ rx = <<>> /\ cycle = NoCycle
  /\ pirq = FALSE /\ bkd_int = FALSE /\ ipl = FALSE
  /\ core0 = "idle" /\ pkt = NoPacket
  /\ core1 = "poll" /\ keys = 0 /\ tempo \in Tempos
  /\ log = <<>>

-----------------------------------------------------------------------------
(* The state machine.                                                      *)

\* A cycle of the 68000: push noblock, then pull block.
BeginCycle(reg) ==
  /\ cycle = NoCycle
  /\ rx' = IF Len(rx) < FifoDepth THEN Append(rx, [reg |-> reg, n |-> Len(log) + 1]) ELSE rx
  /\ \/ /\ tx # <<>>
        /\ tx' = Tail(tx)
        /\ log' = Append(log, <<reg, Head(tx)>>)
        /\ UNCHANGED cycle
     \/ /\ tx = <<>>
        /\ cycle' = <<reg>>
        /\ UNCHANGED <<tx, log>>

\* pio_sm_put: a waiting pull takes the word; a full FIFO drops it.
SmPut(word) ==
  \/ /\ cycle # NoCycle
     /\ log' = Append(log, <<cycle[1], word>>)
     /\ cycle' = NoCycle
     /\ UNCHANGED tx
  \/ /\ cycle = NoCycle
     /\ tx' = IF Len(tx) < FifoDepth THEN Append(tx, word) ELSE tx
     /\ UNCHANGED <<cycle, log>>

-----------------------------------------------------------------------------
(* Core 0: gerenciar_barramento_m68k.                                      *)

\* Faulty variants of NoAnswer: the keyboard register is answered as well; the
\* write of a character (0x15) is not.
NoAnswerButKbd(reg) == reg \in {10, 11, 12}
NoAnswerWriteCh(reg) == reg \in {9, 10, 11, 12, 21}

\* The registers whose case returns before the put of the answer.
NoAnswer(reg) == reg \in {9, 10, 11, 12}

IntOffLine ==
  /\ core0 = "idle" /\ rx # <<>>
  /\ pirq' = FALSE
  /\ core0' = "flag"
  /\ UNCHANGED <<tx, rx, cycle, bkd_int, ipl, pkt, core1, tempo, keys, log>>

\* Faulty variant of IntOffFlag: the flag is not cleared.
IntOffFlagKept ==
  /\ core0 = "flag"
  /\ core0' = "get"
  /\ UNCHANGED <<tx, rx, cycle, pirq, bkd_int, ipl, pkt, core1, tempo, keys, log>>

IntOffFlag ==
  /\ core0 = "flag"
  /\ bkd_int' = FALSE
  /\ core0' = "get"
  /\ UNCHANGED <<tx, rx, cycle, pirq, ipl, pkt, core1, tempo, keys, log>>

GetPacket ==
  /\ core0 = "get" /\ rx # <<>>
  /\ pkt' = Head(rx) /\ rx' = Tail(rx)
  /\ core0' = "clear"
  /\ UNCHANGED <<tx, cycle, pirq, bkd_int, ipl, core1, tempo, keys, log>>

\* Faulty variant of ClearFifos: nothing is cleared.
ClearFifosNot ==
  /\ core0 = "clear"
  /\ core0' = "put"
  /\ UNCHANGED <<tx, rx, cycle, pirq, bkd_int, ipl, pkt, core1, tempo, keys, log>>

ClearFifos ==
  /\ core0 = "clear"
  /\ tx' = <<>> /\ rx' = <<>>
  /\ core0' = "put"
  /\ UNCHANGED <<cycle, pirq, bkd_int, ipl, pkt, core1, tempo, keys, log>>

PutAnswer ==
  /\ core0 = "put"
  /\ IF NoAnswer(pkt.reg) THEN UNCHANGED <<tx, cycle, log>> ELSE SmPut(Answer(pkt.n))
  /\ core0' = "idle" /\ pkt' = NoPacket
  /\ UNCHANGED <<rx, pirq, bkd_int, ipl, core1, keys, tempo>>

Core0 == IntOffLine \/ IntOffFlag \/ GetPacket \/ ClearFifos \/ PutAnswer
Core0Idle == core0 = "idle" /\ rx = <<>>

-----------------------------------------------------------------------------
(* Core 1: a key arrived; pio_sm_put and kbd_int_on.                       *)

\* A slow key finds core 0 idle, no cycle under way and the line released, so
\* that at this tempo kbd_int_on overlaps no kbd_int_off.  At the fast one they
\* overlap at every step and may leave the flag set with the line released,
\* which silences the keyboard until the next access to the Pico.
Quiet == Core0Idle /\ cycle = NoCycle /\ ~pirq /\ ~ipl

PutKey ==
  /\ core1 = "poll" /\ keys < MaxKeys
  /\ tempo = "slow" => Quiet
  /\ keys' = keys + 1
  /\ SmPut(Key(keys + 1))
  /\ core1' = "test"
  /\ UNCHANGED <<rx, pirq, bkd_int, ipl, core0, pkt, tempo>>

IntOnTest ==
  /\ core1 = "test"
  /\ core1' = IF bkd_int THEN "poll" ELSE "line"
  /\ UNCHANGED <<tx, rx, cycle, pirq, bkd_int, ipl, core0, pkt, tempo, keys, log>>

IntOnLine ==
  /\ core1 = "line"
  /\ pirq' = TRUE
  /\ core1' = "flag"
  /\ UNCHANGED <<tx, rx, cycle, bkd_int, ipl, core0, pkt, tempo, keys, log>>

IntOnFlag ==
  /\ core1 = "flag"
  /\ bkd_int' = TRUE
  /\ core1' = "poll"
  /\ UNCHANGED <<tx, rx, cycle, pirq, ipl, core0, pkt, tempo, keys, log>>

Core1 == IntOnTest \/ IntOnLine \/ IntOnFlag

-----------------------------------------------------------------------------
(* The ATmega and the 68000.  A pulse is much shorter than the 500 us      *)
(* between two, and may fall where the 68000 does not look.                *)

Pulse ==
  /\ pirq /\ ~ipl
  /\ tempo = "slow" => Core0Idle
  /\ ipl' = TRUE
  /\ UNCHANGED <<tx, rx, cycle, pirq, bkd_int, core0, pkt, core1, tempo, keys, log>>

PulseEnds ==
  /\ ipl
  /\ ipl' = FALSE
  /\ UNCHANGED <<tx, rx, cycle, pirq, bkd_int, core0, pkt, core1, tempo, keys, log>>

\* Int3Handler reads register 0x09.
Int3 ==
  /\ ipl
  /\ tempo = "slow" => Core0Idle /\ core1 # "flag"
  /\ ipl' = FALSE
  /\ BeginCycle(KbdReg)
  /\ UNCHANGED <<pirq, bkd_int, core0, pkt, core1, keys, tempo>>

\* The program reads or writes another register.
Access ==
  /\ Len(SelectSeq(log, LAMBDA e : e[1] # KbdReg)) < MaxCycles
  /\ tempo = "slow" /\ Core0Idle
  /\ \E reg \in Other : BeginCycle(reg)
  /\ UNCHANGED <<pirq, bkd_int, ipl, core0, pkt, core1, keys, tempo>>

Next == Core0 \/ Core1 \/ PutKey \/ Pulse \/ PulseEnds \/ Int3 \/ Access

\* Both cores run for ever, and of the pulses the 68000 sees one in the end.
Spec == /\ Init /\ [][Next]_vars
        /\ WF_vars(Core0) /\ WF_vars(Core1)
        /\ WF_vars(Pulse) /\ SF_vars(Int3)

-----------------------------------------------------------------------------
(* Properties.                                                             *)

\* The words the accesses read.  Where OnlyKbd holds they are all Int3Handler's.
KbdReads == [i \in DOMAIN log |-> log[i][2]]

\* No register but the keyboard's was used.
OnlyKbd == /\ \A i \in DOMAIN log : log[i][1] = KbdReg
           /\ cycle \in {NoCycle, <<KbdReg>>}

\* Keys typed slowly, with no other access: Int3Handler reads every key, in
\* the order typed, once.
KeysInOrder == (tempo = "slow" /\ OnlyKbd) =>
                 /\ Len(KbdReads) <= keys
                 /\ \A i \in DOMAIN KbdReads : KbdReads[i] = Key(i)

\* Every key typed is read by Int3Handler in the end, unless another register
\* is used.
EveryKeyReceived ==
  tempo = "slow" =>
    \A k \in 1 .. MaxKeys : [](keys >= k => <>(Len(KbdReads) >= k \/ ~OnlyKbd))

\* At slow tempo no access holds the bus for ever: each one gets its DTACK.
BusAnswered == tempo = "slow" => []<>(cycle = NoCycle)

\* Whatever the timing, without other accesses Int3Handler reads only keys
\* that were typed, none twice and none before one typed earlier.
NoPhantomKeys ==
  OnlyKbd =>
  /\ \A i \in DOMAIN KbdReads : KbdReads[i] \in {Key(k) : k \in 1 .. keys}
  /\ \A i, j \in DOMAIN KbdReads : i < j => KbdReads[i][2] < KbdReads[j][2]

\* With other accesses, at slow tempo, a key displaces answers by one access
\* at most: each is answered with a key, its own answer, or that of the access
\* before.
AtMostOneBehind ==
  tempo = "slow" => \A i \in DOMAIN log :
    \/ log[i][2] \in {Key(k) : k \in 1 .. keys}
    \/ log[i][2] \in {Answer(i), Answer(i - 1)}
=============================================================================
