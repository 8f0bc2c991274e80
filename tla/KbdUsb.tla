------------------------------- MODULE KbdUsb -------------------------------
(***************************************************************************)
(* The USB keyboard reader on core 1 of the Pico 2 W                       *)
(* (peripheral/pico2W/kbd_usb/kbd_usb.c).  A CH9350 converter sends frames *)
(* over a serial line; kbd_poll takes them apart one byte at a time and    *)
(* keeps its place in static variables, kbd_finish_0x88 turns a keyboard   *)
(* report into at most one pending character, and the loop of core 1 takes *)
(* it with get_char_nonblocking.                                           *)
(*                                                                         *)
(* Core 1 also serves the network: any number of bytes may arrive between  *)
(* two of its steps, and a byte that finds the receive FIFO full is lost.  *)
(*                                                                         *)
(* A character is the table it was taken from and the key code.  The flags *)
(* special_key_up, key_up and key_down are never tested; special_key_down  *)
(* is set exactly when special_key_status is not zero.                     *)
(***************************************************************************)
EXTENDS Naturals, Sequences, FiniteSets, SequencesExt

CONSTANTS
  FifoDepth,   \* bytes the receive FIFO of the UART holds (32)
  BufSize,     \* sizeof(key_buffer) (1048)
  Frames,      \* the frames the converter may send, header included
  MaxFrames,   \* bound: frames sent
  MaxLost      \* bound: bytes lost because core 1 was away too long

ASSUME FramesAssumption ==
  /\ FifoDepth \in Nat \ {0}
  /\ BufSize \in Nat /\ BufSize > 4
  /\ MaxFrames \in Nat /\ MaxLost \in Nat
  /\ Frames \subseteq Seq(0 .. 255)

\* The frames of the converter are those kbd_poll takes apart: a header, the
\* kind, and as many bytes as the kind or its length byte says.
WellFormed(f) ==
  /\ Len(f) >= 3 /\ f[1] = 87 /\ f[2] = 171
  /\ f[3] = 129 => Len(f) >= 5 /\ Len(f) = 5 + f[5]
  /\ f[3] \in {130, 133} => Len(f) = 4
  /\ f[3] = 136 => Len(f) >= 4 /\ Len(f) = 4 + f[4]
  /\ f[3] \notin {129, 130, 133, 136} => Len(f) = 3

ASSUME WellFormedFrames == \A f \in Frames : WellFormed(f)

VARIABLES
  state, size, index,    \* kbd_state, kbd_size (and length), kbd_index
  buffer,                \* key_buffer
  mods,                  \* special_key_status
  caps, capsHeld,        \* mod_caps # 0, capslock_ja_pressionado
  led,                   \* the state last sent to the keyboard
  pending,               \* kbd_pending_char
  at,                    \* place of the loop of core 1
  uart,                  \* the receive FIFO
  sent, pos,             \* frames sent and being sent, bytes of the last one sent
  lost,                  \* bytes lost
  typed                  \* the characters put into the bus FIFO

parserVars == <<state, size, index, buffer, mods, caps, capsHeld, led, pending>>
lineVars   == <<sent, pos, lost>>
vars       == <<parserVars, at, uart, lineVars, typed>>

None   == "none"
NoChar == <<>>
CapsLock == 57      \* 0x39

Init ==
  /\ state = "hdr1" /\ size = 0 /\ index = 0
  /\ buffer = [i \in 0 .. BufSize - 1 |-> 0]
  /\ mods = None /\ caps = FALSE /\ capsHeld = FALSE /\ led = FALSE
  /\ pending = NoChar
  /\ at = "poll"
  /\ uart = <<>>
  /\ sent = <<>> /\ pos = 0 /\ lost = 0
  /\ typed = <<>>

-----------------------------------------------------------------------------
(* kbd_finish_0x88.  Byte 2 of a report is the modifier byte, byte 4 the   *)
(* first key.  Two modifiers at once match no branch.                      *)

ModifierOf(b) == CASE b \in {1, 16} -> "ctrl"
                   [] b \in {2, 32} -> "shift"
                   [] b = 4         -> "alt"
                   [] b = 64        -> "altgr"
                   [] OTHER         -> None

\* get_kbd_key: the table for a modifier; Shift and Caps Lock cancel out.
TableOf(m) == CASE m = "shift" -> IF caps THEN "base" ELSE "shift"
                [] m = None    -> IF caps THEN "shift" ELSE "base"
                [] OTHER       -> m

Released(b) == b[2] = 0 /\ b[4] = 0
IsCaps(b)   == ModifierOf(b[2]) = None /\ b[4] = CapsLock

\* Faulty variant of FinishRelease: the modifier outlives the release.
FinishReleaseKeeps(b) ==
  /\ Released(b)
  /\ capsHeld' = FALSE
  /\ UNCHANGED <<mods, caps, led, pending>>

FinishRelease(b) ==
  /\ Released(b)
  /\ mods' = None
  /\ capsHeld' = FALSE
  /\ UNCHANGED <<caps, led, pending>>

\* Faulty variant of FinishCaps: no edge detection.
FinishCapsEach(b) ==
  /\ ~Released(b) /\ IsCaps(b)
  /\ capsHeld' = TRUE
  /\ caps' = ~caps /\ led' = ~caps
  /\ UNCHANGED <<mods, pending>>

\* Caps Lock toggles once until the keys are released.
FinishCaps(b) ==
  /\ ~Released(b) /\ IsCaps(b)
  /\ capsHeld' = TRUE
  /\ \/ /\ ~capsHeld
        /\ caps' = ~caps /\ led' = ~caps
     \/ /\ capsHeld
        /\ UNCHANGED <<caps, led>>
  /\ UNCHANGED <<mods, pending>>

\* A modifier replaces the one in force; without one it stays in force.
FinishKey(b) ==
  LET m == IF ModifierOf(b[2]) = None THEN mods ELSE ModifierOf(b[2])
  IN /\ ~Released(b) /\ ~IsCaps(b)
     /\ mods' = m
     /\ pending' = IF b[4] > 0 THEN <<TableOf(m), b[4]>> ELSE pending
     /\ UNCHANGED <<caps, capsHeld, led>>

Finish(b) == FinishRelease(b) \/ FinishCaps(b) \/ FinishKey(b)

NoFinish == UNCHANGED <<mods, caps, capsHeld, led, pending>>

-----------------------------------------------------------------------------
(* kbd_poll: one byte.                                                     *)

Goto(s) == state' = s /\ UNCHANGED <<size, index, buffer>> /\ NoFinish

\* The byte after the header selects the kind of frame; 0x87 and what is
\* unknown have no more to read.
AfterCommand(c) == CASE c = 129 -> "81_type"  [] c = 130 -> "82_byte"
                     [] c = 133 -> "85_byte"  [] c = 136 -> "88_size"
                     [] OTHER   -> "hdr1"

Header(c) ==
  \/ state = "hdr1" /\ Goto(IF c = 87 THEN "hdr2" ELSE "hdr1")
  \/ state = "hdr2" /\ Goto(IF c = 171 THEN "cmd" ELSE "hdr1")
  \/ state = "cmd"  /\ Goto(AfterCommand(c))

\* 0x81: a type, a length, and as many bytes to skip; 0x82 and 0x85: one byte.
Skipped(c) ==
  \/ state = "81_type" /\ Goto("81_len")
  \/ /\ state = "81_len"
     /\ size' = c /\ index' = 0
     /\ state' = IF c > 0 THEN "81_skip" ELSE "hdr1"
     /\ UNCHANGED buffer /\ NoFinish
  \/ /\ state = "81_skip"
     /\ index' = index + 1
     /\ state' = IF index + 1 >= size THEN "hdr1" ELSE "81_skip"
     /\ UNCHANGED <<size, buffer>> /\ NoFinish
  \/ state \in {"82_byte", "85_byte"} /\ Goto("hdr1")

ReportSize(c) ==
  /\ state = "88_size"
  /\ size' = c /\ index' = 1
  /\ buffer' = [i \in DOMAIN buffer |-> 0]
  /\ state' = IF c > 0 THEN "88_payload" ELSE "hdr1"
  /\ IF c = 0 THEN Finish(buffer') ELSE NoFinish

\* Faulty variant of ReportByte: goes on with the same report.
ReportByteStays(c) ==
  /\ state = "88_payload"
  /\ buffer' = IF index < BufSize THEN [buffer EXCEPT ![index] = c] ELSE buffer
  /\ index' = index + 1
  /\ UNCHANGED <<size, state>>
  /\ IF index + 1 > size THEN Finish(buffer') ELSE NoFinish

ReportByte(c) ==
  /\ state = "88_payload"
  /\ buffer' = IF index < BufSize THEN [buffer EXCEPT ![index] = c] ELSE buffer
  /\ index' = index + 1
  /\ UNCHANGED size
  /\ IF index + 1 > size THEN state' = "hdr1" /\ Finish(buffer')
                         ELSE state' = state /\ NoFinish

\* Faulty variant of PollMore: the loop goes on with a character pending.
PollMoreAlways == uart # <<>>

\* The loop of kbd_poll: bytes are there and no character is pending.
PollMore == uart # <<>> /\ pending = NoChar

PollByte ==
  /\ at = "poll"
  /\ PollMore
  /\ uart' = Tail(uart)
  /\ LET c == Head(uart) IN Header(c) \/ Skipped(c) \/ ReportSize(c) \/ ReportByte(c)
  /\ UNCHANGED <<at, lineVars, typed>>

PollEnd ==
  /\ at = "poll"
  /\ ~PollMore
  /\ at' = "get"
  /\ UNCHANGED <<parserVars, uart, lineVars, typed>>

\* get_char_nonblocking, and the put into the FIFO of the bus.
GetChar ==
  /\ at = "get"
  /\ typed' = IF pending = NoChar THEN typed ELSE Append(typed, pending)
  /\ pending' = NoChar
  /\ at' = "poll"
  /\ UNCHANGED <<state, size, index, buffer, mods, caps, capsHeld, led, uart, lineVars>>

-----------------------------------------------------------------------------
(* The converter (external): frames one after another, a byte at a time.   *)

FrameDone == pos = IF sent = <<>> THEN 0 ELSE Len(Last(sent))

SendByte ==
  /\ \/ /\ FrameDone
        /\ Len(sent) < MaxFrames
        /\ \E f \in Frames : sent' = Append(sent, f)
        /\ pos' = 1
     \/ /\ ~FrameDone
        /\ pos' = pos + 1
        /\ UNCHANGED sent
  /\ \/ Len(uart) < FifoDepth /\ uart' = Append(uart, Last(sent')[pos']) /\ UNCHANGED lost
     \/ Len(uart) = FifoDepth /\ lost < MaxLost /\ lost' = lost + 1 /\ UNCHANGED uart
  /\ UNCHANGED <<parserVars, at, typed>>

Core1 == PollByte \/ PollEnd \/ GetChar
Next  == Core1 \/ SendByte

\* Core 1 never stops; a frame once begun is sent to its end.
Spec == Init /\ [][Next]_vars /\ WF_vars(Core1) /\ WF_vars(SendByte /\ ~FrameDone)

-----------------------------------------------------------------------------
(* Properties.                                                             *)

\* The reports among the frames, as the kbd_finish_0x88 of the code sees them,
\* and those that stand for a character.
IsReport(f)  == Len(f) > 3 /\ f[3] = 136
Payload(f)   == [i \in 0 .. BufSize - 1 |-> IF i \in 1 .. f[4] THEN f[4 + i] ELSE 0]
ReportsAt    == {i \in DOMAIN sent : IsReport(sent[i])}
Rep(i)       == Payload(sent[i])
GivesChar(b) == ~Released(b) /\ ~IsCaps(b) /\ b[4] > 0
TypingAt     == {i \in ReportsAt : GivesChar(Rep(i))}

\* The frames of S up to the n-th, and the characters produced.
UpTo(S, n) == {i \in S : i <= n}
Produced   == typed \o (IF pending = NoChar THEN <<>> ELSE <<pending>>)

\* As long as no byte was lost, the characters produced are those of the
\* reports sent, in order, none skipped, doubled or made up, wherever kbd_poll
\* was interrupted by an empty FIFO.
KeysInOrder ==
  lost = 0 =>
    /\ Len(Produced) <= Cardinality(TypingAt)
    /\ \A i \in TypingAt :
         LET n == Cardinality(UpTo(TypingAt, i))
         IN n <= Len(Produced) => Produced[n][2] = Rep(i)[4]

\* Everything sent has been taken apart.
Drained == FrameDone /\ uart = <<>>

\* At the end of the last frame, with the FIFO drained and nothing lost, the
\* parser waits for a header again.
BackInStep == (lost = 0 /\ Drained) => state = "hdr1"

\* What the keyboard is told to show is what the tables follow, and an odd
\* number of Caps Lock presses turns it on.  A press is a Caps Lock report with
\* no other one since the keys were released.
PressedAt == {i \in ReportsAt :
                /\ IsCaps(Rep(i))
                /\ \A j \in ReportsAt : j < i /\ IsCaps(Rep(j)) =>
                     \E k \in ReportsAt : j < k /\ k < i /\ Released(Rep(k))}
CapsFollowsPresses ==
  /\ led = caps
  /\ (lost = 0 /\ Drained) => (caps <=> Cardinality(PressedAt) % 2 = 1)

\* Once the keys have been released no modifier is in force.
LastReleased == \E i \in ReportsAt : Released(Rep(i)) /\ \A j \in ReportsAt : j <= i
ReleasedMeansNoModifier == (lost = 0 /\ Drained /\ LastReleased) => mods = None

\* A report that stands for a character is followed by that character.
EveryKeyTyped ==
  \A n \in 1 .. MaxFrames :
    [](Cardinality(TypingAt) >= n => <>(lost > 0 \/ Len(typed) >= n))

\* Even when bytes were lost, and frames run into one another, there are never
\* more characters than keyboard reports were sent.
NoExtraKeys == Len(Produced) <= Cardinality(ReportsAt)
=============================================================================
