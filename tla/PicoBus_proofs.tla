---------------------------- MODULE PicoBus_proofs ----------------------------
(***************************************************************************)
(* What the bus of the Pico 2 W keeps for every depth of the FIFOs, every  *)
(* set of registers and any number of keys and accesses.                   *)
(***************************************************************************)
EXTENDS PicoBus, TLAPS

Packet == [reg : Nat, n : Nat]
Word   == {Key(k) : k \in Nat} \cup {Answer(n) : n \in Nat}

BusTypes ==
  /\ tx \in Seq(Word) /\ rx \in Seq(Packet) /\ pkt \in Packet
  /\ cycle \in {NoCycle} \cup {<<reg>> : reg \in Nat}
  /\ pirq \in BOOLEAN /\ bkd_int \in BOOLEAN /\ ipl \in BOOLEAN
  /\ core0 \in {"idle", "flag", "get", "clear", "put"}
  /\ core1 \in {"poll", "test", "line", "flag"}
  /\ tempo \in {"slow", "fast"} /\ keys \in Nat
  /\ log \in Seq(Nat \X Word)

-----------------------------------------------------------------------------
(* The inductive invariant.                                                *)

\* The words of the keys typed so far.
Typed == {Key(k) : k \in 1 .. keys}

\* The number of the access whose packet core 0 works on: the one that waits
\* for its answer or, if a word was there for it, the last one that ended.
Serving == IF cycle = NoCycle THEN Len(log) ELSE Len(log) + 1

\* At slow tempo one packet is underway at most, core 0 has the FIFO for
\* itself when it puts the answer, and an answer waits at the head of the FIFO
\* only while core 0 is idle, as that of the access before.
SlowInv ==
  /\ Len(rx) <= 1
  /\ \A i \in DOMAIN rx : rx[i].n = Serving
  /\ core0 \in {"clear", "put"} => rx = <<>> /\ pkt.n = Serving
  /\ core0 \in {"flag", "get"} => rx # <<>>
  /\ core0 = "put" => tx = <<>>
  /\ \A i \in DOMAIN tx :
       \/ tx[i] \in Typed
       \/ i = 1 /\ tx[i] = Answer(Len(log)) /\ Core0Idle
  /\ AtMostOneBehind

\* Without other accesses every packet is a read of the keyboard register, so
\* core 0 answers none, and the words read and waiting are keys in the order
\* typed.
KbdInv ==
  /\ \A i \in DOMAIN rx : rx[i].reg = KbdReg
  /\ core0 \in {"clear", "put"} => pkt.reg = KbdReg
  /\ \A i \in DOMAIN tx : tx[i] \in Typed
  /\ \A i \in DOMAIN log : log[i][2] \in Typed
  /\ \A i, j \in DOMAIN tx : i < j => tx[i][2] < tx[j][2]
  /\ \A i, j \in DOMAIN log : i < j => log[i][2][2] < log[j][2][2]
  /\ \A i \in DOMAIN log, j \in DOMAIN tx : log[i][2][2] < tx[j][2]

\* The life of a key at slow tempo: it waits in the FIFO while core 1 runs
\* kbd_int_on, until Int3Handler reads it.
Waiting ==
  /\ tx = <<Key(keys)>> /\ Len(log) + 1 = keys /\ Core0Idle
  /\ core1 \in {"test", "line"} => ~pirq /\ ~bkd_int /\ ~ipl
  /\ core1 = "flag" => pirq /\ ~bkd_int
  /\ core1 = "poll" => pirq /\ bkd_int

\* The key was read and core 0 takes the line back and then the flag.
Served ==
  /\ tx = <<>> /\ Len(log) = keys /\ core1 = "poll" /\ ~ipl
  /\ \/ Core0Idle /\ ~pirq /\ ~bkd_int
     \/ core0 = "idle" /\ rx # <<>> /\ pirq /\ bkd_int
     \/ core0 = "flag" /\ ~pirq /\ bkd_int
     \/ core0 \in {"get", "clear", "put"} /\ ~pirq /\ ~bkd_int

KeyLife ==
  /\ cycle = NoCycle
  /\ \A i \in DOMAIN log : log[i][2] = Key(i)
  /\ Waiting \/ Served

BusInv ==
  /\ BusTypes
  /\ cycle # NoCycle => tx = <<>>
  /\ tempo = "slow" => SlowInv
  /\ OnlyKbd => KbdInv
  /\ tempo = "slow" /\ OnlyKbd => KeyLife

-----------------------------------------------------------------------------
(* Types.                                                                  *)

\* A cycle of the bus keeps the types of what it changes.
LEMMA BeginTypes ==
  ASSUME BusTypes, NEW reg \in Nat, BeginCycle(reg)
  PROVE  /\ tx' \in Seq(Word) /\ rx' \in Seq(Packet)
         /\ cycle' \in {NoCycle} \cup {<<r>> : r \in Nat}
         /\ log' \in Seq(Nat \X Word)
<1>. USE DEF BusTypes
<1>1. rx' \in Seq(Packet)
  <2>1. Len(log) + 1 \in Nat
    OBVIOUS
  <2>2. [reg |-> reg, n |-> Len(log) + 1] \in Packet
    BY <2>1 DEF Packet
  <2>3. rx' = rx \/ rx' = Append(rx, [reg |-> reg, n |-> Len(log) + 1])
    BY DEF BeginCycle
  <2>4. Append(rx, [reg |-> reg, n |-> Len(log) + 1]) \in Seq(Packet)
    BY <2>2
  <2>. QED  BY <2>3, <2>4
<1>2. CASE tx # <<>>
  <2>1. Head(tx) \in Word /\ Tail(tx) \in Seq(Word)
    BY <1>2
  <2>2. <<reg, Head(tx)>> \in Nat \X Word
    BY <2>1
  <2>3. tx' = Tail(tx) /\ log' = Append(log, <<reg, Head(tx)>>) /\ cycle' = cycle
    BY <1>2 DEF BeginCycle
  <2>. QED  BY <1>1, <2>1, <2>2, <2>3
<1>3. CASE tx = <<>>
  BY <1>1, <1>3 DEF BeginCycle
<1>. QED  BY <1>2, <1>3

\* So does a put into the TX FIFO.
LEMMA PutTypes ==
  ASSUME BusTypes, NEW word \in Word, SmPut(word)
  PROVE  /\ tx' \in Seq(Word)
         /\ cycle' \in {NoCycle} \cup {<<r>> : r \in Nat}
         /\ log' \in Seq(Nat \X Word)
<1>1. CASE cycle # NoCycle
  <2>1. PICK r \in Nat : cycle = <<r>>
    BY <1>1 DEF BusTypes
  <2>2. <<cycle[1], word>> \in Nat \X Word
    BY <2>1
  <2>3. log' = Append(log, <<cycle[1], word>>) /\ cycle' = NoCycle /\ tx' = tx
    BY <1>1 DEF SmPut
  <2>. QED  BY <2>2, <2>3 DEF BusTypes
<1>2. CASE cycle = NoCycle
  <2>1. (tx' = tx \/ tx' = Append(tx, word)) /\ cycle' = cycle /\ log' = log
    BY <1>2 DEF SmPut
  <2>2. Append(tx, word) \in Seq(Word)
    BY DEF BusTypes
  <2>. QED  BY <2>1, <2>2 DEF BusTypes
<1>. QED  BY <1>1, <1>2

LEMMA TypesStep == BusTypes /\ [Next]_vars => BusTypes'
<1>. SUFFICES ASSUME BusTypes, [Next]_vars
              PROVE  BusTypes'
  OBVIOUS
<1>1. CASE IntOffLine
  BY <1>1 DEF BusTypes, IntOffLine
<1>2. CASE IntOffFlag
  BY <1>2 DEF BusTypes, IntOffFlag
<1>3. CASE GetPacket
  BY <1>3 DEF BusTypes, GetPacket
<1>4. CASE ClearFifos
  BY <1>4 DEF BusTypes, ClearFifos
<1>5. CASE PutAnswer
  <2>1. pkt.n \in Nat /\ NoPacket \in Packet
    BY DEF BusTypes, Packet, NoPacket
  <2>2. Answer(pkt.n) \in Word
    BY <2>1 DEF Word
  <2>3. CASE NoAnswer(pkt.reg)
    BY <1>5, <2>1, <2>3 DEF BusTypes, PutAnswer
  <2>4. CASE ~NoAnswer(pkt.reg)
    <3>1. SmPut(Answer(pkt.n))
      BY <1>5, <2>4 DEF PutAnswer
    <3>. QED  BY <1>5, <2>1, <2>2, <3>1, PutTypes DEF BusTypes, PutAnswer
  <2>. QED  BY <2>3, <2>4
<1>6. CASE Core1
  BY <1>6 DEF BusTypes, Core1, IntOnTest, IntOnLine, IntOnFlag
<1>7. CASE PutKey
  <2>1. keys + 1 \in Nat /\ Key(keys + 1) \in Word
    BY DEF BusTypes, Word
  <2>. QED  BY <1>7, <2>1, PutTypes DEF BusTypes, PutKey
<1>8. CASE Pulse \/ PulseEnds
  BY <1>8 DEF BusTypes, Pulse, PulseEnds
<1>9. CASE Int3
  <2>1. KbdReg \in Nat
    BY DEF KbdReg
  <2>. QED  BY <1>9, <2>1, BeginTypes DEF BusTypes, Int3
<1>10. CASE Access
  <2>1. PICK reg \in Other : BeginCycle(reg)
    BY <1>10 DEF Access
  <2>2. reg \in Nat
    BY PicoBusAssumption
  <2>. QED  BY <1>10, <2>1, <2>2, BeginTypes DEF BusTypes, Access
<1>11. CASE UNCHANGED vars
  BY <1>11 DEF BusTypes, vars
<1>. QED
  BY <1>1, <1>2, <1>3, <1>4, <1>5, <1>6, <1>7, <1>8, <1>9, <1>10, <1>11 DEF Next, Core0

-----------------------------------------------------------------------------
(* What a cycle and a put do to the FIFO and the log.                      *)

\* The log only grows, by the access that ends, and an access is waiting
\* before it is in the log: once another register was used it stays so.
LEMMA OtherUseStays ==
  ASSUME BusTypes, [Next]_vars, OnlyKbd'
  PROVE  OnlyKbd
<1>1. CASE UNCHANGED <<cycle, log>>
  BY <1>1 DEF OnlyKbd
<1>2. ASSUME NEW word, SmPut(word)
      PROVE  OnlyKbd
  <2>1. CASE cycle = NoCycle
    BY <1>2, <2>1 DEF SmPut, OnlyKbd
  <2>2. CASE cycle # NoCycle
    <3>1. PICK r \in Nat : cycle = <<r>>
      BY <2>2 DEF BusTypes
    <3>2. log' = Append(log, <<r, word>>)
      BY <1>2, <2>2, <3>1 DEF SmPut
    <3>3. log'[Len(log) + 1] = <<r, word>> /\ Len(log) + 1 \in DOMAIN log'
      BY <3>2 DEF BusTypes
    <3>4. r = KbdReg
      BY <3>3 DEF OnlyKbd
    <3>5. \A i \in DOMAIN log : i \in DOMAIN log' /\ log'[i] = log[i]
      BY <3>2 DEF BusTypes
    <3>. QED  BY <3>1, <3>4, <3>5 DEF OnlyKbd
  <2>. QED  BY <2>1, <2>2
<1>3. ASSUME NEW reg, BeginCycle(reg)
      PROVE  OnlyKbd
  <2>1. CASE tx = <<>>
    BY <1>3, <2>1 DEF BeginCycle, OnlyKbd
  <2>2. CASE tx # <<>>
    <3>1. log' = Append(log, <<reg, Head(tx)>>) /\ cycle' = cycle
      BY <1>3, <2>2 DEF BeginCycle
    <3>2. \A i \in DOMAIN log : i \in DOMAIN log' /\ log'[i] = log[i]
      BY <3>1 DEF BusTypes
    <3>. QED  BY <3>1, <3>2 DEF OnlyKbd
  <2>. QED  BY <2>1, <2>2
<1>4. CASE PutAnswer
  BY <1>1, <1>2, <1>4 DEF PutAnswer
<1>5. CASE PutKey
  BY <1>2, <1>5 DEF PutKey
<1>6. CASE Int3
  BY <1>3, <1>6 DEF Int3
<1>7. CASE Access
  BY <1>3, <1>7 DEF Access
<1>8. CASE IntOffLine \/ IntOffFlag \/ GetPacket \/ ClearFifos \/ Core1 \/ Pulse \/ PulseEnds
  <2>1. UNCHANGED <<cycle, log>>
    BY <1>8 DEF IntOffLine, IntOffFlag, GetPacket, ClearFifos, Core1, IntOnTest, IntOnLine,
                IntOnFlag, Pulse, PulseEnds
  <2>. QED  BY <1>1, <2>1
<1>9. CASE UNCHANGED vars
  BY <1>1, <1>9 DEF vars
<1>. QED
  BY <1>4, <1>5, <1>6, <1>7, <1>8, <1>9 DEF Next, Core0

\* An access waits only while the FIFO is empty.
LEMMA WaitStep ==
  ASSUME cycle # NoCycle => tx = <<>>, [Next]_vars
  PROVE  cycle' # NoCycle => tx' = <<>>
<1>1. ASSUME NEW word, SmPut(word)
      PROVE  cycle' # NoCycle => tx' = <<>>
  BY <1>1 DEF SmPut
<1>2. ASSUME NEW reg, BeginCycle(reg)
      PROVE  cycle' # NoCycle => tx' = <<>>
  BY <1>2 DEF BeginCycle
<1>3. CASE PutAnswer
  BY <1>1, <1>3 DEF PutAnswer
<1>4. CASE PutKey
  BY <1>1, <1>4 DEF PutKey
<1>5. CASE Int3
  BY <1>2, <1>5 DEF Int3
<1>6. CASE Access
  BY <1>2, <1>6 DEF Access
<1>7. CASE ClearFifos
  BY <1>7 DEF ClearFifos
<1>8. CASE IntOffLine \/ IntOffFlag \/ GetPacket \/ Core1 \/ Pulse \/ PulseEnds
  BY <1>8 DEF IntOffLine, IntOffFlag, GetPacket, Core1, IntOnTest, IntOnLine, IntOnFlag,
              Pulse, PulseEnds
<1>9. CASE UNCHANGED vars
  BY <1>9 DEF vars
<1>. QED
  BY <1>3, <1>4, <1>5, <1>6, <1>7, <1>8, <1>9 DEF Next, Core0
-----------------------------------------------------------------------------
(* Slow tempo.                                                             *)

\* A cycle begins while core 0 is idle: the word at the head of the FIFO is a
\* key or the answer to the access before.
LEMMA SlowBegin ==
  ASSUME BusTypes, tempo = "slow", SlowInv, Core0Idle,
         NEW reg \in Nat, BeginCycle(reg), UNCHANGED <<core0, pkt, keys, tempo>>
  PROVE  SlowInv'
<1>. DEFINE p == [reg |-> reg, n |-> Len(log) + 1]
<1>1. /\ core0' = "idle" /\ rx = <<>> /\ cycle = NoCycle
  BY DEF Core0Idle, BeginCycle
<1>2. rx' = <<p>>
  <2>1. Len(rx) < FifoDepth
    BY <1>1, PicoBusAssumption
  <2>2. rx' = Append(rx, p)
    BY <2>1 DEF BeginCycle
  <2>. QED  BY <1>1, <2>2
<1>3. Len(rx') = 1 /\ \A i \in DOMAIN rx' : rx'[i].n = Len(log) + 1
  BY <1>2
<1>4. rx' # <<>> /\ ~Core0Idle'
  BY <1>2 DEF Core0Idle
<1>. HIDE DEF p
<1>5. Typed' = Typed
  BY DEF Typed
<1>6. log \in Seq(Nat \X Word) /\ tx \in Seq(Word)
  BY DEF BusTypes
<1>7. CASE tx # <<>>
  <2>1. tx' = Tail(tx) /\ log' = Append(log, <<reg, Head(tx)>>) /\ cycle' = NoCycle
    BY <1>1, <1>7 DEF BeginCycle
  <2>2. Len(log') = Len(log) + 1 /\ Serving' = Len(log) + 1
    BY <1>6, <2>1 DEF Serving
  <2>3. ASSUME NEW i \in DOMAIN tx'
        PROVE  tx'[i] \in Typed'
    <3>1. i + 1 \in DOMAIN tx /\ tx'[i] = tx[i + 1] /\ i + 1 # 1
      BY <1>6, <1>7, <2>1
    <3>. QED  BY <1>5, <3>1 DEF SlowInv
  <2>4. ASSUME NEW i \in DOMAIN log'
        PROVE  \/ log'[i][2] \in Typed
               \/ log'[i][2] \in {Answer(i), Answer(i - 1)}
    <3>1. CASE i = Len(log) + 1
      <4>1. log'[i][2] = tx[1] /\ 1 \in DOMAIN tx /\ i - 1 = Len(log)
        BY <1>6, <1>7, <2>1, <3>1
      <4>. QED  BY <4>1 DEF SlowInv
    <3>2. CASE i # Len(log) + 1
      <4>1. i \in DOMAIN log /\ log'[i] = log[i]
        BY <1>6, <2>1, <3>2
      <4>. QED  BY <4>1 DEF SlowInv, AtMostOneBehind, Typed
    <3>. QED  BY <3>1, <3>2
  <2>5. AtMostOneBehind'
    BY <2>4 DEF AtMostOneBehind, Typed
  <2>. QED  BY <1>1, <1>3, <1>4, <2>2, <2>3, <2>5 DEF SlowInv
<1>8. CASE tx = <<>>
  <2>1. tx' = <<>> /\ log' = log /\ cycle' = <<reg>>
    BY <1>8 DEF BeginCycle
  <2>2. Serving' = Len(log) + 1
    BY <2>1 DEF Serving, NoCycle
  <2>3. AtMostOneBehind'
    BY <2>1 DEF SlowInv, AtMostOneBehind
  <2>. QED  BY <1>1, <1>3, <1>4, <2>1, <2>2, <2>3 DEF SlowInv
<1>. QED  BY <1>7, <1>8

\* Core 0 puts the answer into a FIFO it has just cleared.
LEMMA SlowAnswer ==
  ASSUME BusTypes, tempo = "slow", SlowInv, PutAnswer
  PROVE  SlowInv'
<1>1. /\ core0 = "put" /\ rx = <<>> /\ tx = <<>> /\ pkt.n = Serving
      /\ core0' = "idle" /\ rx' = rx /\ keys' = keys /\ tempo' = tempo
  BY DEF PutAnswer, SlowInv
<1>2. Core0Idle' /\ Typed' = Typed
  BY <1>1 DEF Core0Idle, Typed
<1>3. log \in Seq(Nat \X Word)
  BY DEF BusTypes
<1>4. CASE NoAnswer(pkt.reg)
  <2>1. tx' = tx /\ cycle' = cycle /\ log' = log
    BY <1>4 DEF PutAnswer
  <2>. QED  BY <1>1, <1>2, <2>1 DEF SlowInv, AtMostOneBehind
<1>5. CASE ~NoAnswer(pkt.reg) /\ cycle # NoCycle
  <2>1. log' = Append(log, <<cycle[1], Answer(Len(log) + 1)>>) /\ tx' = <<>>
    BY <1>1, <1>5 DEF PutAnswer, SmPut, Serving
  <2>2. ASSUME NEW i \in DOMAIN log'
        PROVE  \/ log'[i][2] \in Typed
               \/ log'[i][2] \in {Answer(i), Answer(i - 1)}
    <3>1. CASE i = Len(log) + 1
      <4>1. log'[i][2] = Answer(i)
        BY <1>3, <2>1, <3>1
      <4>. QED  BY <4>1
    <3>2. CASE i # Len(log) + 1
      <4>1. i \in DOMAIN log /\ log'[i] = log[i]
        BY <1>3, <2>1, <3>2
      <4>. QED  BY <4>1 DEF SlowInv, AtMostOneBehind, Typed
    <3>. QED  BY <3>1, <3>2
  <2>3. AtMostOneBehind'
    BY <1>1, <2>2 DEF AtMostOneBehind, Typed
  <2>. QED  BY <1>1, <1>2, <2>1, <2>3 DEF SlowInv
<1>6. CASE ~NoAnswer(pkt.reg) /\ cycle = NoCycle
  <2>1. /\ log' = log /\ cycle' = cycle
        /\ tx' = IF Len(tx) < FifoDepth THEN Append(tx, Answer(Len(log))) ELSE tx
    BY <1>1, <1>6 DEF PutAnswer, SmPut, Serving
  <2>2. tx' = <<Answer(Len(log))>>
    BY <1>1, <2>1, PicoBusAssumption
  <2>3. \A i \in DOMAIN tx' : i = 1 /\ tx'[i] = Answer(Len(log'))
    BY <2>1, <2>2
  <2>. QED  BY <1>1, <1>2, <2>1, <2>3 DEF SlowInv, AtMostOneBehind
<1>. QED  BY <1>4, <1>5, <1>6

\* A key is put behind what waits in the FIFO, or lost.
LEMMA SlowKey ==
  ASSUME BusTypes, tempo = "slow", SlowInv, PutKey
  PROVE  SlowInv'
<1>1. /\ Core0Idle /\ cycle = NoCycle /\ keys' = keys + 1 /\ SmPut(Key(keys + 1))
      /\ UNCHANGED <<rx, core0, pkt, tempo>>
  BY DEF PutKey, Quiet
<1>2. /\ cycle' = cycle /\ log' = log
      /\ tx' = tx \/ tx' = Append(tx, Key(keys + 1))
  BY <1>1 DEF SmPut
<1>3. Typed \subseteq Typed' /\ Key(keys + 1) \in Typed'
  <2>1. 1 .. keys \subseteq 1 .. keys' /\ keys + 1 \in 1 .. keys'
    BY <1>1 DEF BusTypes
  <2>. QED  BY <2>1 DEF Typed
<1>4. Core0Idle' /\ Serving' = Serving
  BY <1>1, <1>2 DEF Core0Idle, Serving
<1>5. ASSUME NEW i \in DOMAIN tx'
      PROVE  \/ tx'[i] \in Typed'
             \/ i = 1 /\ tx'[i] = Answer(Len(log')) /\ Core0Idle'
  <2>1. CASE i \in DOMAIN tx /\ tx'[i] = tx[i]
    BY <1>2, <1>3, <1>4, <2>1 DEF SlowInv
  <2>2. CASE tx'[i] = Key(keys + 1)
    BY <1>3, <2>2
  <2>3. tx \in Seq(Word)
    BY DEF BusTypes
  <2>4. CASE tx' = Append(tx, Key(keys + 1))
    <3>1. CASE i = Len(tx) + 1
      <4>1. tx'[i] = Key(keys + 1)
        BY <2>3, <2>4, <3>1
      <4>. QED  BY <2>2, <4>1
    <3>2. CASE i # Len(tx) + 1
      <4>1. i \in DOMAIN tx /\ tx'[i] = tx[i]
        BY <2>3, <2>4, <3>2
      <4>. QED  BY <2>1, <4>1
    <3>. QED  BY <3>1, <3>2
  <2>. QED  BY <1>2, <2>1, <2>4
<1>6. AtMostOneBehind'
  BY <1>1, <1>2, <1>3 DEF SlowInv, AtMostOneBehind, Typed
<1>. QED  BY <1>1, <1>2, <1>4, <1>5, <1>6 DEF SlowInv, Core0Idle

LEMMA SlowStep ==
  ASSUME BusTypes, tempo = "slow", SlowInv, [Next]_vars
  PROVE  SlowInv'
<1>1. CASE IntOffLine
  BY <1>1 DEF IntOffLine, SlowInv, Serving, Typed, Core0Idle, AtMostOneBehind
<1>2. CASE IntOffFlag
  BY <1>2 DEF IntOffFlag, SlowInv, Serving, Typed, Core0Idle, AtMostOneBehind
<1>3. CASE GetPacket
  <2>1. rx # <<>> /\ Len(rx) <= 1 /\ rx \in Seq(Packet)
    BY <1>3 DEF GetPacket, SlowInv, BusTypes
  <2>2. Head(rx) = rx[1] /\ 1 \in DOMAIN rx /\ Tail(rx) = <<>>
    BY <2>1
  <2>. QED  BY <1>3, <2>2 DEF GetPacket, SlowInv, Serving, Typed, Core0Idle, AtMostOneBehind
<1>4. CASE ClearFifos
  BY <1>4 DEF ClearFifos, SlowInv, Serving, AtMostOneBehind
<1>5. CASE PutAnswer
  BY <1>5, SlowAnswer
<1>6. CASE Core1 \/ Pulse \/ PulseEnds
  <2>1. UNCHANGED <<tx, rx, cycle, core0, pkt, tempo, keys, log>>
    BY <1>6 DEF Core1, IntOnTest, IntOnLine, IntOnFlag, Pulse, PulseEnds
  <2>. QED  BY <2>1 DEF SlowInv, Serving, Typed, Core0Idle, AtMostOneBehind
<1>7. CASE PutKey
  BY <1>7, SlowKey
<1>8. CASE Int3
  <2>1. KbdReg \in Nat
    BY DEF KbdReg
  <2>. QED  BY <1>8, <2>1, SlowBegin DEF Int3
<1>9. CASE Access
  <2>1. PICK reg \in Other : BeginCycle(reg)
    BY <1>9 DEF Access
  <2>2. reg \in Nat
    BY PicoBusAssumption
  <2>. QED  BY <1>9, <2>1, <2>2, SlowBegin DEF Access
<1>10. CASE UNCHANGED vars
  BY <1>10 DEF vars, SlowInv, Serving, Typed, Core0Idle, AtMostOneBehind
<1>. QED
  BY <1>1, <1>2, <1>3, <1>4, <1>5, <1>6, <1>7, <1>8, <1>9, <1>10 DEF Next, Core0
-----------------------------------------------------------------------------
(* The keyboard alone.                                                     *)

\* Appending keeps the elements before it.
LEMMA AppendedElements ==
  ASSUME NEW S, NEW s \in Seq(S), NEW e \in S
  PROVE  /\ Append(s, e)[Len(s) + 1] = e
         /\ \A i \in DOMAIN Append(s, e) :
              i = Len(s) + 1 \/ (i \in DOMAIN s /\ i < Len(s) + 1 /\ Append(s, e)[i] = s[i])
OBVIOUS

\* Int3Handler takes the oldest key that waits.
LEMMA KbdBegin ==
  ASSUME BusTypes, KbdInv, BeginCycle(KbdReg), UNCHANGED <<core0, pkt, keys>>
  PROVE  KbdInv'
<1>. DEFINE p == [reg |-> KbdReg, n |-> Len(log) + 1]
<1>1. /\ log \in Seq(Nat \X Word) /\ tx \in Seq(Word) /\ rx \in Seq(Packet)
      /\ Typed' = Typed
  BY DEF BusTypes, Typed
<1>2. ASSUME NEW i \in DOMAIN rx'
      PROVE  rx'[i].reg = KbdReg
  <2>1. p \in Packet /\ p.reg = KbdReg
    BY <1>1 DEF Packet, KbdReg
  <2>2. rx' = rx \/ rx' = Append(rx, p)
    BY DEF BeginCycle
  <2>. HIDE DEF p
  <2>3. CASE rx' = Append(rx, p)
    BY <1>1, <2>1, <2>3, AppendedElements DEF KbdInv
  <2>. QED  BY <2>2, <2>3 DEF KbdInv
<1>. HIDE DEF p
<1>3. CASE tx # <<>>
  <2>1. tx' = Tail(tx) /\ log' = Append(log, <<KbdReg, Head(tx)>>)
    BY <1>3 DEF BeginCycle
  <2>2. Head(tx) = tx[1] /\ 1 \in DOMAIN tx /\ tx[1] \in Word
    BY <1>1, <1>3
  <2>3. <<KbdReg, tx[1]>> \in Nat \X Word
    BY <2>2 DEF KbdReg
  <2>4. \A i \in DOMAIN tx' : i + 1 \in DOMAIN tx /\ tx'[i] = tx[i + 1] /\ 1 < i + 1
    BY <1>1, <1>3, <2>1
  <2>5. /\ log'[Len(log) + 1][2] = tx[1]
        /\ \A i \in DOMAIN log' :
             i = Len(log) + 1 \/ (i \in DOMAIN log /\ i < Len(log) + 1 /\ log'[i] = log[i])
    BY <1>1, <2>1, <2>2, <2>3, AppendedElements
  <2>6. \A i \in DOMAIN tx' : tx'[i] \in Typed'
    BY <1>1, <2>4 DEF KbdInv
  <2>7. \A i \in DOMAIN log' : log'[i][2] \in Typed'
    BY <1>1, <2>2, <2>5 DEF KbdInv
  <2>8. ASSUME NEW i \in DOMAIN tx', NEW j \in DOMAIN tx', i < j
        PROVE  tx'[i][2] < tx'[j][2]
    <3>1. i + 1 < j + 1
      BY <1>1, <1>3, <2>1, <2>8
    <3>. QED  BY <2>4, <3>1 DEF KbdInv
  <2>9. ASSUME NEW i \in DOMAIN log', NEW j \in DOMAIN log', i < j
        PROVE  log'[i][2][2] < log'[j][2][2]
    <3>1. Len(log) \in Nat /\ j \in Nat /\ j <= Len(log) + 1
      BY <1>1, <2>5, <2>1, <2>3
    <3>2. i \in DOMAIN log /\ log'[i] = log[i]
      BY <2>5, <2>9, <3>1
    <3>. QED  BY <2>2, <2>5, <3>2, <2>9 DEF KbdInv
  <2>10. ASSUME NEW i \in DOMAIN log', NEW j \in DOMAIN tx'
         PROVE  log'[i][2][2] < tx'[j][2]
    BY <2>2, <2>4, <2>5 DEF KbdInv
  <2>. QED  BY <1>2, <2>6, <2>7, <2>8, <2>9, <2>10 DEF KbdInv
<1>4. CASE tx = <<>>
  <2>1. tx' = tx /\ log' = log
    BY <1>4 DEF BeginCycle
  <2>. QED  BY <1>1, <1>2, <2>1 DEF KbdInv
<1>. QED  BY <1>3, <1>4

\* A new key comes after all those typed before.
LEMMA KbdKey ==
  ASSUME BusTypes, cycle # NoCycle => tx = <<>>, KbdInv, PutKey
  PROVE  KbdInv'
<1>. DEFINE k == Key(keys + 1)
<1>1. /\ keys \in Nat /\ keys' = keys + 1 /\ SmPut(k)
      /\ UNCHANGED <<rx, core0, pkt>>
  BY DEF BusTypes, PutKey
<1>2. k \in Word /\ k[2] = keys + 1
  BY <1>1 DEF Word, Key
<1>3. Typed \subseteq Typed' /\ k \in Typed'
  <2>1. 1 .. keys \subseteq 1 .. keys' /\ keys + 1 \in 1 .. keys'
    BY <1>1
  <2>. QED  BY <2>1 DEF Typed
<1>. HIDE DEF k
<1>4. \A w \in Typed : w[2] < k[2]
  BY <1>1, <1>2 DEF Typed, Key
<1>5. log \in Seq(Nat \X Word) /\ tx \in Seq(Word)
  BY DEF BusTypes
<1>6. CASE cycle # NoCycle
  <2>1. PICK r \in Nat : cycle = <<r>>
    BY <1>6 DEF BusTypes
  <2>2. log' = Append(log, <<r, k>>) /\ tx' = tx /\ tx = <<>>
    BY <1>1, <1>6, <2>1 DEF SmPut
  <2>3. <<r, k>> \in Nat \X Word
    BY <1>2, <2>1
  <2>4. /\ log'[Len(log) + 1][2] = k
        /\ \A i \in DOMAIN log' :
             i = Len(log) + 1 \/ (i \in DOMAIN log /\ i < Len(log) + 1 /\ log'[i] = log[i])
    BY <1>5, <2>2, <2>3, AppendedElements
  <2>5. \A i \in DOMAIN log' : log'[i][2] \in Typed'
    BY <1>3, <2>4 DEF KbdInv
  <2>6. ASSUME NEW i \in DOMAIN log', NEW j \in DOMAIN log', i < j
        PROVE  log'[i][2][2] < log'[j][2][2]
    <3>1. Len(log) \in Nat /\ j \in Nat /\ j <= Len(log) + 1
      BY <1>5, <2>2, <2>3, <2>4
    <3>2. i \in DOMAIN log /\ log'[i] = log[i]
      BY <2>4, <2>6, <3>1
    <3>. QED  BY <1>4, <2>4, <2>6, <3>2 DEF KbdInv
  <2>. QED  BY <1>1, <2>2, <2>5, <2>6 DEF KbdInv
<1>7. CASE cycle = NoCycle /\ tx' = tx
  BY <1>1, <1>3, <1>7 DEF KbdInv, SmPut
<1>8. CASE cycle = NoCycle /\ tx' = Append(tx, k)
  <2>1. log' = log
    BY <1>1, <1>8 DEF SmPut
  <2>2. /\ tx'[Len(tx) + 1] = k
        /\ \A i \in DOMAIN tx' :
             i = Len(tx) + 1 \/ (i \in DOMAIN tx /\ i < Len(tx) + 1 /\ tx'[i] = tx[i])
    BY <1>2, <1>5, <1>8, AppendedElements
  <2>3. \A i \in DOMAIN tx' : tx'[i] \in Typed'
    BY <1>3, <2>2 DEF KbdInv
  <2>4. \A i \in DOMAIN log' : log'[i][2] \in Typed'
    BY <1>3, <2>1 DEF KbdInv
  <2>5. ASSUME NEW i \in DOMAIN tx', NEW j \in DOMAIN tx', i < j
        PROVE  tx'[i][2] < tx'[j][2]
    <3>1. Len(tx) \in Nat /\ j \in Nat /\ j <= Len(tx) + 1
      BY <1>2, <1>5, <1>8, <2>2
    <3>2. i \in DOMAIN tx /\ tx'[i] = tx[i]
      BY <2>2, <2>5, <3>1
    <3>. QED  BY <1>4, <2>2, <2>5, <3>2 DEF KbdInv
  <2>6. ASSUME NEW i \in DOMAIN log', NEW j \in DOMAIN tx'
        PROVE  log'[i][2][2] < tx'[j][2]
    BY <1>4, <2>1, <2>2 DEF KbdInv
  <2>. QED  BY <1>1, <2>1, <2>3, <2>4, <2>5, <2>6 DEF KbdInv
<1>. QED  BY <1>1, <1>6, <1>7, <1>8 DEF SmPut

\* Another register cannot be used and leave OnlyKbd true.
LEMMA AccessIsOther ==
  ASSUME BusTypes, Access
  PROVE  ~OnlyKbd'
<1>1. PICK reg \in Other : BeginCycle(reg)
  BY DEF Access
<1>2. reg \in Nat /\ reg # KbdReg
  BY PicoBusAssumption DEF KbdReg
<1>3. CASE tx # <<>>
  <2>1. log' = Append(log, <<reg, Head(tx)>>)
    BY <1>1, <1>3 DEF BeginCycle
  <2>2. Len(log) + 1 \in DOMAIN log' /\ log'[Len(log) + 1][1] = reg
    BY <2>1 DEF BusTypes
  <2>. QED  BY <1>2, <2>2 DEF OnlyKbd
<1>4. CASE tx = <<>>
  <2>1. cycle' = <<reg>>
    BY <1>1, <1>4 DEF BeginCycle
  <2>. QED  BY <1>2, <2>1 DEF OnlyKbd, NoCycle
<1>. QED  BY <1>3, <1>4

LEMMA KbdStep ==
  ASSUME BusTypes, cycle # NoCycle => tx = <<>>, OnlyKbd', KbdInv, [Next]_vars
  PROVE  KbdInv'
<1>1. CASE IntOffLine \/ IntOffFlag
  BY <1>1 DEF IntOffLine, IntOffFlag, KbdInv, Typed
<1>2. CASE GetPacket
  <2>1. rx # <<>> /\ rx \in Seq(Packet)
    BY <1>2 DEF GetPacket, BusTypes
  <2>2. Head(rx) = rx[1] /\ 1 \in DOMAIN rx
    BY <2>1
  <2>3. \A i \in DOMAIN Tail(rx) : i + 1 \in DOMAIN rx /\ Tail(rx)[i] = rx[i + 1]
    BY <2>1
  <2>. QED  BY <1>2, <2>2, <2>3 DEF GetPacket, KbdInv, Typed
<1>3. CASE ClearFifos
  BY <1>3 DEF ClearFifos, KbdInv, Typed
<1>4. CASE PutAnswer
  <2>1. NoAnswer(pkt.reg)
    BY <1>4 DEF PutAnswer, KbdInv, NoAnswer, KbdReg
  <2>. QED  BY <1>4, <2>1 DEF PutAnswer, KbdInv, Typed
<1>5. CASE Core1 \/ Pulse \/ PulseEnds
  <2>1. UNCHANGED <<tx, rx, core0, pkt, keys, log>>
    BY <1>5 DEF Core1, IntOnTest, IntOnLine, IntOnFlag, Pulse, PulseEnds
  <2>. QED  BY <2>1 DEF KbdInv, Typed
<1>6. CASE PutKey
  BY <1>6, KbdKey
<1>7. CASE Int3
  BY <1>7, KbdBegin DEF Int3
<1>8. CASE Access
  BY <1>8, AccessIsOther
<1>9. CASE UNCHANGED vars
  BY <1>9 DEF vars, KbdInv, Typed
<1>. QED
  BY <1>1, <1>2, <1>3, <1>4, <1>5, <1>6, <1>7, <1>8, <1>9 DEF Next, Core0

-----------------------------------------------------------------------------
(* The life of a key at slow tempo.                                        *)

LEMMA LifeStep ==
  ASSUME BusTypes, tempo = "slow", SlowInv, OnlyKbd, OnlyKbd', KbdInv, KeyLife, [Next]_vars
  PROVE  KeyLife'
<1>. USE DEF KeyLife, Waiting, Served, Core0Idle
<1>1. CASE IntOffLine
  BY <1>1 DEF IntOffLine
<1>2. CASE IntOffFlag
  BY <1>2 DEF IntOffFlag
<1>3. CASE GetPacket
  BY <1>3 DEF GetPacket
<1>4. CASE ClearFifos
  BY <1>4 DEF ClearFifos
<1>5. CASE PutAnswer
  <2>1. NoAnswer(pkt.reg) /\ rx = <<>>
    BY <1>5 DEF PutAnswer, KbdInv, SlowInv, NoAnswer, KbdReg
  <2>. QED  BY <1>5, <2>1 DEF PutAnswer
<1>6. CASE Core1
  BY <1>6 DEF Core1, IntOnTest, IntOnLine, IntOnFlag
<1>7. CASE Pulse
  BY <1>7 DEF Pulse
<1>8. CASE PulseEnds
  BY <1>8 DEF PulseEnds
<1>9. CASE PutKey
  <2>1. /\ Quiet /\ core1 = "poll" /\ keys' = keys + 1 /\ SmPut(Key(keys + 1)) /\ core1' = "test"
        /\ UNCHANGED <<rx, pirq, bkd_int, ipl, core0>>
    BY <1>9 DEF PutKey
  <2>2. tx = <<>> /\ Len(log) = keys /\ ~bkd_int /\ Core0Idle /\ ~pirq /\ ~ipl
    BY <2>1 DEF Quiet
  <2>3. /\ log' = log /\ cycle' = cycle
        /\ tx' = IF Len(tx) < FifoDepth THEN Append(tx, Key(keys + 1)) ELSE tx
    BY <2>1 DEF SmPut
  <2>4. tx' = <<Key(keys')>>
    BY <2>1, <2>2, <2>3, PicoBusAssumption
  <2>5. Waiting'
    BY <2>1, <2>2, <2>3, <2>4
  <2>. QED  BY <2>3, <2>5
<1>10. CASE Int3
  <2>1. /\ ipl /\ core1 # "flag" /\ Core0Idle /\ ipl' = FALSE
        /\ BeginCycle(KbdReg) /\ UNCHANGED <<pirq, bkd_int, core0, core1, keys>>
    BY <1>10 DEF Int3
  <2>2. tx = <<Key(keys)>> /\ Len(log) + 1 = keys /\ core1 = "poll" /\ pirq /\ bkd_int
    BY <2>1 DEF BusTypes
  <2>3. tx' = <<>> /\ log' = Append(log, <<KbdReg, Key(keys)>>) /\ cycle' = NoCycle
    BY <2>1, <2>2 DEF BeginCycle
  <2>4. log \in Seq(Nat \X Word) /\ <<KbdReg, Key(keys)>> \in Nat \X Word
    BY DEF BusTypes, KbdReg, Word
  <2>5. Len(log') = keys /\ \A i \in DOMAIN log' : log'[i][2] = Key(i)
    <3>1. Len(log') = keys
      BY <2>2, <2>3, <2>4
    <3>. QED  BY <2>2, <2>3, <2>4, <3>1, AppendedElements
  <2>6. rx' # <<>>
    <3>1. rx = <<>> /\ Len(rx) < FifoDepth
      BY <2>1, PicoBusAssumption
    <3>. QED  BY <2>1, <3>1 DEF BeginCycle
  <2>7. Served'
    BY <2>1, <2>2, <2>3, <2>5, <2>6
  <2>. QED  BY <2>3, <2>5, <2>7
<1>11. CASE Access
  BY <1>11, AccessIsOther
<1>12. CASE UNCHANGED vars
  BY <1>12 DEF vars
<1>. QED
  BY <1>1, <1>2, <1>3, <1>4, <1>5, <1>6, <1>7, <1>8, <1>9, <1>10, <1>11, <1>12 DEF Next, Core0

-----------------------------------------------------------------------------
(* The theorems.                                                           *)

LEMMA BusInvInit == Init => BusInv
<1>. SUFFICES ASSUME Init
              PROVE  BusInv
  OBVIOUS
<1>1. NoPacket \in Packet
  BY DEF NoPacket, Packet
<1>2. BusTypes
  <2>1. tempo \in {"slow", "fast"}
    BY PicoBusAssumption DEF Init
  <2>2. tx \in Seq(Word) /\ rx \in Seq(Packet) /\ log \in Seq(Nat \X Word)
    BY DEF Init
  <2>. QED  BY <1>1, <2>1, <2>2 DEF Init, BusTypes
<1>3. SlowInv /\ KbdInv /\ KeyLife
  BY DEF Init, SlowInv, KbdInv, KeyLife, Served, Core0Idle, AtMostOneBehind
<1>4. cycle = NoCycle
  BY DEF Init
<1>. QED  BY <1>2, <1>3, <1>4 DEF BusInv

LEMMA BusInvStep == BusInv /\ [Next]_vars => BusInv'
<1>. SUFFICES ASSUME BusInv, [Next]_vars
              PROVE  BusInv'
  OBVIOUS
<1>1. BusTypes /\ (cycle # NoCycle => tx = <<>>)
  BY DEF BusInv
<1>2. BusTypes' /\ (cycle' # NoCycle => tx' = <<>>)
  BY <1>1, TypesStep, WaitStep
<1>3. tempo' = tempo
  BY DEF Next, vars, Core0, Core1, IntOffLine, IntOffFlag, GetPacket, ClearFifos, PutAnswer,
         IntOnTest, IntOnLine, IntOnFlag, PutKey, Pulse, PulseEnds, Int3, Access
<1>4. ASSUME tempo' = "slow"
      PROVE  SlowInv'
  BY <1>1, <1>3, <1>4, SlowStep DEF BusInv
<1>5. ASSUME OnlyKbd'
      PROVE  KbdInv' /\ OnlyKbd
  <2>1. OnlyKbd
    BY <1>1, <1>5, OtherUseStays
  <2>. QED  BY <1>1, <1>5, <2>1, KbdStep DEF BusInv
<1>6. ASSUME tempo' = "slow", OnlyKbd'
      PROVE  KeyLife'
  BY <1>1, <1>3, <1>5, <1>6, LifeStep DEF BusInv
<1>. QED  BY <1>2, <1>4, <1>5, <1>6 DEF BusInv

\* The invariant of the bus.
THEOREM BusInvariant == Spec => []BusInv
<1>1. Init => BusInv
  BY BusInvInit
<1>2. BusInv /\ [Next]_vars => BusInv'
  BY BusInvStep
<1>. QED  BY <1>1, <1>2, PTL DEF Spec

\* Int3Handler reads the keys typed slowly, each once and in the order typed,
\* for any number of them and any depth of the FIFOs.
THEOREM SlowKeysInOrder == Spec => []KeysInOrder
<1>1. BusInv => KeysInOrder
  <2>. SUFFICES ASSUME BusInv, tempo = "slow", OnlyKbd
                PROVE  /\ Len(KbdReads) <= keys
                       /\ \A i \in DOMAIN KbdReads : KbdReads[i] = Key(i)
    BY DEF KeysInOrder
  <2>1. KeyLife /\ BusTypes
    BY DEF BusInv
  <2>2. DOMAIN KbdReads = 1 .. Len(log) /\ Len(log) \in Nat
    BY <2>1 DEF KbdReads, BusTypes
  <2>3. Len(KbdReads) = Len(log)
    BY <2>1 DEF KbdReads, BusTypes
  <2>4. Len(log) <= keys
    BY <2>1, <2>2 DEF KeyLife, Waiting, Served, BusTypes
  <2>. QED  BY <2>1, <2>3, <2>4 DEF KbdReads, KeyLife
<1>. QED  BY <1>1, BusInvariant, PTL

\* At any tempo Int3Handler reads only keys that were typed, in their order.
THEOREM OnlyTypedKeys == Spec => []NoPhantomKeys
<1>1. BusInv => NoPhantomKeys
  BY DEF BusInv, NoPhantomKeys, KbdInv, KbdReads, Typed
<1>. QED  BY <1>1, BusInvariant, PTL

\* A key displaces the answers of the bus by one access at most.
THEOREM AnswersOneBehind == Spec => []AtMostOneBehind
<1>1. BusInv => AtMostOneBehind
  BY DEF BusInv, SlowInv, AtMostOneBehind
<1>. QED  BY <1>1, BusInvariant, PTL
=============================================================================
