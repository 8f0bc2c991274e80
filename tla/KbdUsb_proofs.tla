---------------------------- MODULE KbdUsb_proofs ----------------------------
(***************************************************************************)
(* Proofs about the keyboard reader for any well-formed frames, any depth  *)
(* of the receive FIFO, any number of frames and of bytes lost.            *)
(*                                                                         *)
(* The place of a byte is the number of its frame and its number in the    *)
(* frame.  The bytes in the FIFO have places one after another, and as     *)
(* long as none was lost the state of kbd_poll is a function of the place  *)
(* of the last byte it took.                                               *)
(***************************************************************************)
EXTENDS KbdUsb, Integers, FiniteSetTheorems, TLAPS

-----------------------------------------------------------------------------
(* The inductive invariant: types.                                         *)

Byte   == 0 .. 255
States == {"hdr1", "hdr2", "cmd", "81_type", "81_len", "81_skip", "82_byte", "85_byte",
           "88_size", "88_payload"}
Tables == {"base", "shift", "ctrl", "alt", "altgr"}
Mods   == {None, "shift", "ctrl", "alt", "altgr"}
Chars  == Tables \X Byte

ParserTypes ==
  /\ state \in States /\ size \in Byte /\ index \in Nat
  /\ buffer \in [0 .. BufSize - 1 -> Byte]
  /\ mods \in Mods /\ caps \in BOOLEAN /\ capsHeld \in BOOLEAN /\ led = caps
  /\ pending \in Chars \cup {NoChar}
  /\ typed \in Seq(Chars)

\* The length of frame f; before the first one the line is at the end of frame 0.
EndOf(f) == IF f = 0 THEN 0 ELSE Len(sent[f])

LineTypes ==
  /\ sent \in Seq(Frames) /\ uart \in Seq(Byte) /\ lost \in Nat
  /\ pos \in 0 .. EndOf(Len(sent)) /\ (sent # <<>> => pos > 0)

-----------------------------------------------------------------------------
(* The inductive invariant: where the bytes come from.                     *)

IsPlace(f, p)       == f \in 0 .. Len(sent) /\ p \in 0 .. EndOf(f) /\ (f > 0 => p > 0)
Before(f, p, g, q)  == f < g \/ (f = g /\ p < q)
Follows(f, p, g, q) == \/ g = f /\ q = p + 1
                       \/ g = f + 1 /\ q = 1 /\ p = EndOf(f)

\* Byte i of the FIFO is byte P[i] of frame F[i]; number 0 is the last byte
\* that kbd_poll took.
Line(F, P) ==
  /\ \A i \in 0 .. Len(uart) : IsPlace(F[i], P[i])
  /\ \A i \in 1 .. Len(uart) : /\ Before(F[i - 1], P[i - 1], F[i], P[i])
                               /\ uart[i] = sent[F[i]][P[i]]
  /\ ~Before(Len(sent), pos, F[Len(uart)], P[Len(uart)])

\* Nothing is missing between them.
Unbroken(F, P) ==
  /\ \A i \in 1 .. Len(uart) : Follows(F[i - 1], P[i - 1], F[i], P[i])
  /\ F[Len(uart)] = Len(sent) /\ P[Len(uart)] = pos

-----------------------------------------------------------------------------
(* The inductive invariant: the parser and the decoder.                    *)

\* The state of kbd_poll after byte p of the frame fr.
StateAt(fr, p) ==
  IF p = Len(fr) THEN state = "hdr1"
  ELSE /\ p = 1 => state = "hdr2"
       /\ p = 2 => state = "cmd"
       /\ p = 3 => state = AfterCommand(fr[3])
       /\ p = 4 /\ fr[3] = 129 => state = "81_len"
       /\ p >= 5 /\ fr[3] = 129 => state = "81_skip" /\ size = fr[5] /\ index = p - 5
       /\ p >= 4 /\ fr[3] = 136 =>
            /\ state = "88_payload" /\ size = fr[4] /\ index = p - 3
            /\ \A i \in 0 .. BufSize - 1 :
                 buffer[i] = IF i \in 1 .. p - 4 THEN fr[4 + i] ELSE 0

InStep(f, p) == IF f = 0 THEN state = "hdr1" ELSE StateAt(sent[f], p)

\* The frames taken whole.
Taken(f, p) == IF p = EndOf(f) THEN f ELSE f - 1

\* What the reports among the first n frames make of the decoder.
KeysOf(n) ==
  /\ Len(Produced) = Cardinality(UpTo(TypingAt, n))
  /\ \A i \in UpTo(TypingAt, n) :
       Produced[Cardinality(UpTo(TypingAt, i))][2] = Rep(i)[4]
CapsOf(n) ==
  /\ caps <=> Cardinality(UpTo(PressedAt, n)) % 2 = 1
  /\ capsHeld <=> \E i \in UpTo(ReportsAt, n) :
                     /\ IsCaps(Rep(i))
                     /\ \A k \in UpTo(ReportsAt, n) : i < k => ~Released(Rep(k))
ModsOf(n) ==
  \A i \in UpTo(ReportsAt, n) :
    Released(Rep(i)) /\ (\A j \in UpTo(ReportsAt, n) : j <= i) => mods = None

Decoded(n) == KeysOf(n) /\ CapsOf(n) /\ ModsOf(n)

\* Byte 136, the kind of a report, is nowhere else in a frame.
KindIsUnique == \A f \in Frames : \A i \in 4 .. Len(f) : f[i] # 136

\* The reports of which the third byte was taken by place (f, p), and the one
\* kbd_poll is in.
Begun(f, p) == {i \in ReportsAt : ~Before(f, p, i, 3)}
InReport    == IF state \in {"88_size", "88_payload"} THEN 1 ELSE 0

\* The invariant at a place, and the invariant.
At(f, p) ==
  /\ lost = 0 => InStep(f, p) /\ Decoded(Taken(f, p))
  /\ KindIsUnique => Len(Produced) + InReport <= Cardinality(Begun(f, p))

KbdInv ==
  /\ ParserTypes /\ LineTypes
  /\ \E F, P \in [0 .. Len(uart) -> Nat] :
       /\ Line(F, P) /\ At(F[0], P[0])
       /\ lost = 0 => Unbroken(F, P)

-----------------------------------------------------------------------------
(* Sets of frames and sequences of characters.                             *)

LEMMA UpToFinite ==
  ASSUME sent \in Seq(Frames), NEW S \in SUBSET DOMAIN sent, NEW n \in Nat
  PROVE  /\ IsFiniteSet(S) /\ Cardinality(S) \in Nat
         /\ IsFiniteSet(UpTo(S, n)) /\ Cardinality(UpTo(S, n)) \in Nat
         /\ Cardinality(UpTo(S, n)) <= Cardinality(S)
  <1>1. DOMAIN sent = 1 .. Len(sent) /\ Len(sent) \in Nat
    OBVIOUS
  <1>2. IsFiniteSet(1 .. Len(sent))
    BY <1>1, FS_Interval
  <1>3. IsFiniteSet(S)
    BY <1>1, <1>2, FS_Subset
  <1>4. UpTo(S, n) \subseteq S
    BY DEF UpTo
  <1>5. IsFiniteSet(UpTo(S, n)) /\ Cardinality(UpTo(S, n)) <= Cardinality(S)
    BY <1>3, <1>4, FS_Subset
  <1>. QED  BY <1>3, <1>5, FS_CardinalityType

\* One frame more.
LEMMA UpToStep ==
  ASSUME sent \in Seq(Frames), NEW S \in SUBSET DOMAIN sent, NEW n \in Nat
  PROVE  /\ n + 1 \in S => /\ UpTo(S, n + 1) = UpTo(S, n) \cup {n + 1}
                           /\ Cardinality(UpTo(S, n + 1)) = Cardinality(UpTo(S, n)) + 1
         /\ n + 1 \notin S => UpTo(S, n + 1) = UpTo(S, n)
  <1>1. S \subseteq Nat
    OBVIOUS
  <1>2. ASSUME n + 1 \in S
        PROVE  UpTo(S, n + 1) = UpTo(S, n) \cup {n + 1} /\ n + 1 \notin UpTo(S, n)
    BY <1>1, <1>2 DEF UpTo
  <1>3. ASSUME n + 1 \notin S
        PROVE  UpTo(S, n + 1) = UpTo(S, n)
    BY <1>1, <1>3 DEF UpTo
  <1>4. IsFiniteSet(UpTo(S, n))
    BY UpToFinite
  <1>. QED  BY <1>2, <1>3, <1>4, FS_AddElement

\* A frame of S after the n-th has more frames of S up to it than the n-th.
LEMMA UpToMore ==
  ASSUME sent \in Seq(Frames), NEW S \in SUBSET DOMAIN sent, NEW n \in Nat, NEW i \in S, n < i
  PROVE  Cardinality(UpTo(S, n)) < Cardinality(UpTo(S, i))
  <1>1. i \in Nat /\ S \subseteq Nat
    OBVIOUS
  <1>2. IsFiniteSet(UpTo(S, n)) /\ IsFiniteSet(UpTo(S, i)) /\ Cardinality(UpTo(S, n)) \in Nat
    BY <1>1, UpToFinite
  <1>3. i \notin UpTo(S, n) /\ UpTo(S, n) \cup {i} \subseteq UpTo(S, i)
    BY <1>1 DEF UpTo
  <1>4. Cardinality(UpTo(S, n) \cup {i}) = Cardinality(UpTo(S, n)) + 1
    BY <1>2, <1>3, FS_AddElement
  <1>5. Cardinality(UpTo(S, n) \cup {i}) <= Cardinality(UpTo(S, i))
    BY <1>2, <1>3, FS_Subset
  <1>6. Cardinality(UpTo(S, i)) \in Nat
    BY <1>2, FS_CardinalityType
  <1>. QED  BY <1>2, <1>4, <1>5, <1>6

LEMMA ProducedIs ==
  ASSUME typed \in Seq(Chars)
  PROVE  /\ pending = NoChar => Produced = typed
         /\ pending # NoChar => Produced = Append(typed, pending)
  BY DEF Produced

\* The reports are frames that were sent.
LEMMA SetsOfFrames == /\ ReportsAt \subseteq DOMAIN sent /\ TypingAt \subseteq DOMAIN sent
                      /\ PressedAt \subseteq DOMAIN sent
  BY DEF ReportsAt, TypingAt, PressedAt

LEMMA FramesSent ==
  ASSUME sent \in Seq(Frames), NEW f \in 1 .. Len(sent)
  PROVE  /\ sent[f] \in Frames /\ sent[f] \in Seq(Byte) /\ WellFormed(sent[f])
         /\ Len(sent[f]) \in Nat /\ EndOf(f) = Len(sent[f])
  BY FramesAssumption, WellFormedFrames DEF Byte, EndOf

LEMMA ByteIsNat == \A b \in Byte : b \in Nat
  BY DEF Byte

LEMMA PayloadType ==
  ASSUME sent \in Seq(Frames), NEW f \in ReportsAt
  PROVE  Rep(f) \in [0 .. BufSize - 1 -> Byte]
  <1>1. f \in 1 .. Len(sent) /\ sent[f][3] = 136
    BY DEF ReportsAt, IsReport
  <1>2. sent[f] \in Seq(Byte) /\ Len(sent[f]) >= 4 /\ Len(sent[f]) = 4 + sent[f][4]
    BY <1>1, FramesSent DEF WellFormed
  <1>3. 4 \in 1 .. Len(sent[f])
    BY <1>2
  <1>4. sent[f][4] \in Byte
    BY <1>2, <1>3
  <1>5. sent[f][4] \in Nat
    BY <1>4, ByteIsNat
  <1>6. \A i \in 1 .. sent[f][4] : 4 + i \in 1 .. Len(sent[f])
    BY <1>2, <1>5
  <1>7. \A i \in 1 .. sent[f][4] : sent[f][4 + i] \in Byte
    BY <1>2, <1>6
  <1>8. 0 \in Byte
    BY DEF Byte
  <1>. QED  BY <1>7, <1>8 DEF Rep, Payload

-----------------------------------------------------------------------------
(* The decoder: one frame more.                                            *)

LEMMA KeysStep ==
  ASSUME sent \in Seq(Frames), sent' = sent, typed \in Seq(Chars), typed' = typed,
         pending = NoChar, NEW n \in Nat, KeysOf(n),
         n + 1 \in TypingAt => pending' \in Chars /\ pending' # NoChar /\ pending'[2] = Rep(n + 1)[4],
         n + 1 \notin TypingAt => pending' = NoChar
  PROVE  KeysOf(n + 1)'
  <1>1. /\ TypingAt' = TypingAt /\ \A i : Rep(i)' = Rep(i)
        /\ \A i : UpTo(TypingAt, i)' = UpTo(TypingAt, i)
    BY DEF TypingAt, ReportsAt, Rep, UpTo
  <1>2. Produced = typed
    BY ProducedIs
  <1>3. /\ pending' = NoChar => Produced' = typed
        /\ pending' # NoChar => Produced' = Append(typed, pending')
    BY DEF Produced
  <1>4. TypingAt \subseteq DOMAIN sent /\ n + 1 \in Nat
    BY SetsOfFrames
  <1>5. CASE n + 1 \notin TypingAt
    <2>1. UpTo(TypingAt, n + 1) = UpTo(TypingAt, n)
      BY <1>4, <1>5, UpToStep
    <2>2. Produced' = Produced
      BY <1>2, <1>3, <1>5
    <2>. QED  BY <1>1, <2>1, <2>2 DEF KeysOf
  <1>6. CASE n + 1 \in TypingAt
    <2>1. /\ UpTo(TypingAt, n + 1) = UpTo(TypingAt, n) \cup {n + 1}
          /\ Cardinality(UpTo(TypingAt, n + 1)) = Cardinality(UpTo(TypingAt, n)) + 1
      BY <1>4, <1>6, UpToStep
    <2>2. Len(typed) = Cardinality(UpTo(TypingAt, n))
      BY <1>2 DEF KeysOf
    <2>3. Produced' = Append(typed, pending') /\ Len(Produced') = Len(typed) + 1
      BY <1>3, <1>6
    <2>4. Produced'[Cardinality(UpTo(TypingAt, n + 1))] = pending'
      BY <2>1, <2>2, <2>3
    <2>5. ASSUME NEW i \in UpTo(TypingAt, n)
          PROVE  Produced'[Cardinality(UpTo(TypingAt, i))][2] = Rep(i)[4]
      <3>1. i \in TypingAt /\ i \in Nat /\ i <= n
        BY <1>4 DEF UpTo
      <3>2. UpTo(TypingAt, i) \subseteq UpTo(TypingAt, n) /\ i \in UpTo(TypingAt, i)
        BY <1>4, <3>1 DEF UpTo
      <3>3. /\ IsFiniteSet(UpTo(TypingAt, n)) /\ IsFiniteSet(UpTo(TypingAt, i))
            /\ Cardinality(UpTo(TypingAt, i)) \in Nat
        BY <1>4, <3>1, UpToFinite
      <3>4. Cardinality(UpTo(TypingAt, i)) <= Len(typed)
        BY <2>2, <3>2, <3>3, FS_Subset
      <3>5. Cardinality(UpTo(TypingAt, i)) # 0
        BY <3>2, <3>3, FS_EmptySet
      <3>6. Produced'[Cardinality(UpTo(TypingAt, i))] = typed[Cardinality(UpTo(TypingAt, i))]
        BY <2>3, <3>3, <3>4, <3>5
      <3>. QED  BY <1>2, <3>6 DEF KeysOf
    <2>6. \A i \in UpTo(TypingAt, n + 1) :
             Produced'[Cardinality(UpTo(TypingAt, i))][2] = Rep(i)[4]
      BY <1>6, <2>1, <2>4, <2>5
    <2>. QED  BY <1>1, <2>1, <2>2, <2>3, <2>6 DEF KeysOf
  <1>. QED  BY <1>5, <1>6

LEMMA CapsStep ==
  ASSUME sent \in Seq(Frames), sent' = sent, NEW n \in Nat, CapsOf(n), caps \in BOOLEAN,
         \/ n + 1 \notin ReportsAt /\ caps' = caps /\ capsHeld' = capsHeld
         \/ /\ n + 1 \in ReportsAt /\ Released(Rep(n + 1)) /\ ~IsCaps(Rep(n + 1))
            /\ caps' = caps /\ capsHeld' = FALSE
         \/ /\ n + 1 \in ReportsAt /\ ~Released(Rep(n + 1)) /\ IsCaps(Rep(n + 1))
            /\ caps' = (IF capsHeld THEN caps ELSE ~caps) /\ capsHeld' = TRUE
         \/ /\ n + 1 \in ReportsAt /\ ~Released(Rep(n + 1)) /\ ~IsCaps(Rep(n + 1))
            /\ caps' = caps /\ capsHeld' = capsHeld
  PROVE  CapsOf(n + 1)'
  <1> DEFINE Held(m) == \E i \in UpTo(ReportsAt, m) :
                          /\ IsCaps(Rep(i))
                          /\ \A k \in UpTo(ReportsAt, m) : i < k => ~Released(Rep(k))
             presses(m) == Cardinality(UpTo(PressedAt, m))
  <1>1. /\ PressedAt \subseteq ReportsAt /\ ReportsAt \subseteq DOMAIN sent
        /\ PressedAt \subseteq DOMAIN sent /\ ReportsAt \subseteq Nat
    BY SetsOfFrames DEF PressedAt
  <1>2. (caps <=> presses(n) % 2 = 1) /\ (capsHeld <=> Held(n))
    BY DEF CapsOf
  <1>3. CapsOf(n + 1)' <=> ((caps' <=> presses(n + 1) % 2 = 1) /\ (capsHeld' <=> Held(n + 1)))
    BY DEF CapsOf, UpTo, PressedAt, ReportsAt, Rep
  <1>4. /\ n + 1 \in ReportsAt => UpTo(ReportsAt, n + 1) = UpTo(ReportsAt, n) \cup {n + 1}
        /\ n + 1 \notin ReportsAt => UpTo(ReportsAt, n + 1) = UpTo(ReportsAt, n)
    BY <1>1, UpToStep
  <1>5. \A i \in UpTo(ReportsAt, n) : i \in ReportsAt /\ i \in Nat /\ i < n + 1
    BY <1>1 DEF UpTo
  <1>6. Held(n + 1) <=> \/ n + 1 \notin ReportsAt /\ Held(n)
                        \/ n + 1 \in ReportsAt /\ IsCaps(Rep(n + 1))
                        \/ n + 1 \in ReportsAt /\ ~Released(Rep(n + 1)) /\ Held(n)
    BY <1>4, <1>5
  <1>7. n + 1 \in PressedAt <=> n + 1 \in ReportsAt /\ IsCaps(Rep(n + 1)) /\ ~Held(n)
    <2>1. \A j : j \in UpTo(ReportsAt, n) <=> j \in ReportsAt /\ j < n + 1
      BY <1>1 DEF UpTo
    <2>2. n + 1 \in PressedAt <=>
            /\ n + 1 \in ReportsAt /\ IsCaps(Rep(n + 1))
            /\ \A j \in UpTo(ReportsAt, n) : IsCaps(Rep(j)) =>
                 \E k \in UpTo(ReportsAt, n) : j < k /\ Released(Rep(k))
      BY <2>1 DEF PressedAt
    <2>. QED  BY <2>2
  <1>8. /\ n + 1 \in PressedAt => presses(n + 1) = presses(n) + 1
        /\ n + 1 \notin PressedAt => presses(n + 1) = presses(n)
        /\ presses(n) \in Nat
    BY <1>1, UpToStep, UpToFinite
  <1>9. \A k \in Nat : (k + 1) % 2 = 1 <=> ~(k % 2 = 1)
    OBVIOUS
  <1>10. n + 1 \in PressedAt => (presses(n + 1) % 2 = 1 <=> ~(presses(n) % 2 = 1))
    BY <1>8, <1>9
  <1> HIDE DEF Held, presses
  <1>11. caps' <=> presses(n + 1) % 2 = 1
    <2>1. CASE n + 1 \in PressedAt
      <3>1. caps' = ~caps
        BY <1>2, <1>7, <2>1
      <3>. QED  BY <1>2, <1>10, <2>1, <3>1
    <2>2. CASE n + 1 \notin PressedAt
      <3>1. caps' = caps
        BY <1>2, <1>7, <2>2
      <3>. QED  BY <1>2, <1>8, <2>2, <3>1
    <2>. QED  BY <2>1, <2>2
  <1>12. capsHeld' <=> Held(n + 1)
    BY <1>2, <1>6
  <1>. QED  BY <1>3, <1>11, <1>12

LEMMA ModsStep ==
  ASSUME sent \in Seq(Frames), sent' = sent, NEW n \in Nat, ModsOf(n),
         n + 1 \in ReportsAt /\ Released(Rep(n + 1)) => mods' = None,
         n + 1 \notin ReportsAt => mods' = mods
  PROVE  ModsOf(n + 1)'
  <1>1. ReportsAt \subseteq DOMAIN sent /\ ReportsAt \subseteq Nat
    BY SetsOfFrames
  <1>2. /\ n + 1 \in ReportsAt => UpTo(ReportsAt, n + 1) = UpTo(ReportsAt, n) \cup {n + 1}
        /\ n + 1 \notin ReportsAt => UpTo(ReportsAt, n + 1) = UpTo(ReportsAt, n)
    BY <1>1, UpToStep
  <1>3. /\ UpTo(ReportsAt, n + 1)' = UpTo(ReportsAt, n + 1)
        /\ \A i : Rep(i)' = Rep(i)
    BY DEF UpTo, ReportsAt, Rep
  <1>4. SUFFICES ASSUME NEW i \in UpTo(ReportsAt, n + 1), Released(Rep(i)),
                        \A j \in UpTo(ReportsAt, n + 1) : j <= i
                 PROVE  mods' = None
    BY <1>3 DEF ModsOf, Released
  <1>5. CASE n + 1 \in ReportsAt
    <2>1. i = n + 1
      BY <1>1, <1>2, <1>4, <1>5 DEF UpTo
    <2>. QED  BY <1>4, <1>5, <2>1
  <1>6. CASE n + 1 \notin ReportsAt
    BY <1>2, <1>4, <1>6 DEF ModsOf
  <1>. QED  BY <1>5, <1>6

LEMMA CharIsChar == \A x \in Chars : x # NoChar
  BY DEF Chars, NoChar

LEMMA ModifierType == \A b \in Byte : ModifierOf(b) \in Mods
  BY DEF ModifierOf, Mods

LEMMA TableType == \A m \in Mods : TableOf(m) \in Tables
  BY DEF TableOf, Mods, Tables, None

\* What kbd_finish_0x88 does with a report.
LEMMA FinishEffect ==
  ASSUME ParserTypes, pending = NoChar, NEW b \in [0 .. BufSize - 1 -> Byte], Finish(b)
  PROVE  /\ mods' \in Mods /\ (Released(b) => mods' = None)
         /\ \/ Released(b) /\ ~IsCaps(b) /\ caps' = caps /\ capsHeld' = FALSE
            \/ /\ ~Released(b) /\ IsCaps(b)
               /\ caps' = (IF capsHeld THEN caps ELSE ~caps) /\ capsHeld' = TRUE
            \/ ~Released(b) /\ ~IsCaps(b) /\ caps' = caps /\ capsHeld' = capsHeld
         /\ led' = caps'
         /\ GivesChar(b) => pending' \in Chars /\ pending' # NoChar /\ pending'[2] = b[4]
         /\ ~GivesChar(b) => pending' = NoChar
  <1>1. b[2] \in Byte /\ b[4] \in Byte
    BY FramesAssumption
  <1>2. CASE FinishRelease(b)
    <2>1. Released(b) /\ ~IsCaps(b)
      BY <1>2 DEF FinishRelease, Released, IsCaps, CapsLock
    <2>. QED  BY <1>2, <2>1 DEF FinishRelease, GivesChar, ParserTypes, Mods
  <1>3. CASE FinishCaps(b)
    BY <1>3 DEF FinishCaps, GivesChar, ParserTypes
  <1>4. CASE FinishKey(b)
    <2> DEFINE m == IF ModifierOf(b[2]) = None THEN mods ELSE ModifierOf(b[2])
    <2>1. m \in Mods
      BY <1>1, ModifierType DEF ParserTypes
    <2>2. /\ ~Released(b) /\ ~IsCaps(b) /\ mods' = m
          /\ caps' = caps /\ capsHeld' = capsHeld /\ led' = led
          /\ pending' = IF b[4] > 0 THEN <<TableOf(m), b[4]>> ELSE pending
      BY <1>4 DEF FinishKey
    <2> HIDE DEF m
    <2>3. TableOf(m) \in Tables
      BY <2>1, TableType
    <2>4. <<TableOf(m), b[4]>> \in Chars /\ <<TableOf(m), b[4]>>[2] = b[4]
      BY <1>1, <2>3 DEF Chars
    <2>5. /\ GivesChar(b) => pending' \in Chars /\ pending'[2] = b[4]
          /\ ~GivesChar(b) => pending' = NoChar
      BY <2>2, <2>4 DEF GivesChar
    <2>. QED  BY <2>1, <2>2, <2>5, CharIsChar DEF ParserTypes
  <1>. QED  BY <1>2, <1>3, <1>4 DEF Finish

LEMMA ReportDecoded ==
  ASSUME ParserTypes, sent \in Seq(Frames), sent' = sent, typed' = typed, pending = NoChar,
         NEW n \in Nat, n + 1 \in ReportsAt, Decoded(n), Finish(Rep(n + 1))
  PROVE  Decoded(n + 1)'
  <1> DEFINE b == Rep(n + 1)
  <1>1. b \in [0 .. BufSize - 1 -> Byte]
    BY PayloadType
  <1> HIDE DEF b
  <1>2. Finish(b)
    BY DEF b
  <1>3. /\ Released(b) => mods' = None
        /\ \/ Released(b) /\ ~IsCaps(b) /\ caps' = caps /\ capsHeld' = FALSE
           \/ /\ ~Released(b) /\ IsCaps(b)
              /\ caps' = (IF capsHeld THEN caps ELSE ~caps) /\ capsHeld' = TRUE
           \/ ~Released(b) /\ ~IsCaps(b) /\ caps' = caps /\ capsHeld' = capsHeld
        /\ GivesChar(b) => pending' \in Chars /\ pending' # NoChar /\ pending'[2] = b[4]
        /\ ~GivesChar(b) => pending' = NoChar
    BY <1>1, <1>2, FinishEffect
  <1>4. n + 1 \in TypingAt <=> GivesChar(b)
    BY DEF TypingAt, b
  <1>5. KeysOf(n + 1)'
    BY <1>3, <1>4, KeysStep DEF Decoded, b, ParserTypes
  <1>6. CapsOf(n + 1)'
    BY <1>3, CapsStep DEF Decoded, b, ParserTypes
  <1>7. ModsOf(n + 1)'
    BY <1>3, ModsStep DEF Decoded, b
  <1>. QED  BY <1>5, <1>6, <1>7 DEF Decoded

LEMMA OtherDecoded ==
  ASSUME ParserTypes, sent \in Seq(Frames), sent' = sent, typed' = typed, pending = NoChar,
         NEW n \in Nat, n + 1 \notin ReportsAt, Decoded(n), NoFinish
  PROVE  Decoded(n + 1)'
  <1>1. n + 1 \notin TypingAt
    BY DEF TypingAt
  <1>2. KeysOf(n + 1)'
    BY <1>1, KeysStep DEF Decoded, NoFinish, ParserTypes
  <1>3. CapsOf(n + 1)'
    BY CapsStep DEF Decoded, NoFinish, ParserTypes
  <1>4. ModsOf(n + 1)'
    BY ModsStep DEF Decoded, NoFinish
  <1>. QED  BY <1>2, <1>3, <1>4 DEF Decoded

-----------------------------------------------------------------------------
(* The parser: one byte.                                                   *)

Parse(c) == Header(c) \/ Skipped(c) \/ ReportSize(c) \/ ReportByte(c)

LEMMA FirstByte ==
  ASSUME state = "hdr1", NEW fr \in Seq(Byte), WellFormed(fr), Parse(fr[1])
  PROVE  StateAt(fr, 1)' /\ NoFinish
  <1>1. state' = "hdr2" /\ NoFinish
    BY DEF Parse, Header, Skipped, ReportSize, ReportByte, Goto, WellFormed
  <1>2. Len(fr) # 1
    BY DEF WellFormed
  <1>. QED  BY <1>1, <1>2 DEF StateAt

LEMMA SecondByte ==
  ASSUME NEW fr \in Seq(Byte), WellFormed(fr), StateAt(fr, 1), Parse(fr[2])
  PROVE  StateAt(fr, 2)' /\ NoFinish
  <1>1. Len(fr) # 1 /\ Len(fr) # 2 /\ fr[2] = 171
    BY DEF WellFormed
  <1>2. state = "hdr2"
    BY <1>1 DEF StateAt
  <1>3. state' = "cmd" /\ NoFinish
    BY <1>1, <1>2 DEF Parse, Header, Skipped, ReportSize, ReportByte, Goto
  <1>. QED  BY <1>1, <1>3 DEF StateAt

LEMMA ThirdByte ==
  ASSUME NEW fr \in Seq(Byte), WellFormed(fr), StateAt(fr, 2), Parse(fr[3])
  PROVE  StateAt(fr, 3)' /\ NoFinish
  <1>1. Len(fr) # 2
    BY DEF WellFormed
  <1>2. state = "cmd"
    BY <1>1 DEF StateAt
  <1>3. state' = AfterCommand(fr[3]) /\ NoFinish
    BY <1>2 DEF Parse, Header, Skipped, ReportSize, ReportByte, Goto
  <1>4. Len(fr) = 3 => AfterCommand(fr[3]) = "hdr1"
    BY DEF WellFormed, AfterCommand
  <1>. QED  BY <1>3, <1>4 DEF StateAt

LEMMA SkippedByte ==
  ASSUME NEW fr \in Seq(Byte), WellFormed(fr), fr[3] # 136, NEW q \in 4 .. Len(fr),
         StateAt(fr, q - 1), Parse(fr[q])
  PROVE  StateAt(fr, q)' /\ NoFinish
  <1> USE DEF Parse, Header, Skipped, ReportSize, ReportByte, Goto
  <1>1. Len(fr) \in Nat /\ q - 1 # Len(fr) /\ Len(fr) > 3 /\ fr[q] \in Nat
    BY ByteIsNat
  <1>2. CASE fr[3] \in {130, 133}
    <2>1. q = 4 /\ Len(fr) = 4
      BY <1>1, <1>2, SMTT(30) DEF WellFormed
    <2>2. state \in {"82_byte", "85_byte"}
      BY <1>1, <1>2, <2>1 DEF StateAt, AfterCommand
    <2>3. state' = "hdr1" /\ NoFinish
      BY <2>2
    <2>. QED  BY <2>1, <2>3 DEF StateAt
  <1>3. CASE fr[3] = 129
    <2>1. Len(fr) >= 5 /\ Len(fr) = 5 + fr[5] /\ fr[5] \in Nat
      BY <1>3, ByteIsNat DEF WellFormed
    <2>2. CASE q = 4
      <3>1. state = "81_type"
        BY <1>1, <1>3, <2>2 DEF StateAt, AfterCommand
      <3>2. state' = "81_len" /\ NoFinish
        BY <3>1
      <3>. QED  BY <1>3, <2>1, <2>2, <3>2 DEF StateAt
    <2>3. CASE q = 5
      <3>1. state = "81_len"
        BY <1>1, <1>3, <2>3 DEF StateAt
      <3>2. /\ size' = fr[5] /\ index' = 0 /\ NoFinish
            /\ state' = IF fr[5] > 0 THEN "81_skip" ELSE "hdr1"
        BY <2>3, <3>1
      <3>. QED  BY <1>3, <2>1, <2>3, <3>2 DEF StateAt
    <2>4. CASE q > 5
      <3>1. state = "81_skip" /\ size = fr[5] /\ index = q - 1 - 5
        BY <1>1, <1>3, <2>4 DEF StateAt
      <3>2. /\ index' = index + 1 /\ size' = size /\ NoFinish
            /\ state' = IF index + 1 >= size THEN "hdr1" ELSE "81_skip"
        BY <3>1
      <3>3. index + 1 = q - 5 /\ (index + 1 >= size <=> q = Len(fr))
        BY <2>1, <3>1
      <3>. QED  BY <1>3, <2>4, <3>1, <3>2, <3>3 DEF StateAt
    <2>. QED  BY <2>2, <2>3, <2>4
  <1>4. CASE fr[3] \notin {129, 130, 133}
    BY <1>1, <1>4 DEF WellFormed
  <1>. QED  BY <1>2, <1>3, <1>4

LEMMA ReportsByte ==
  ASSUME ParserTypes, NEW fr \in Seq(Byte), WellFormed(fr), fr[3] = 136, NEW q \in 4 .. Len(fr),
         StateAt(fr, q - 1), Parse(fr[q])
  PROVE  /\ StateAt(fr, q)'
         /\ IF q = Len(fr) THEN Finish(Payload(fr)) ELSE NoFinish
  <1> USE DEF Parse, Header, Skipped, ReportSize, ReportByte, Goto
  <1>1. /\ Len(fr) \in Nat /\ q - 1 # Len(fr) /\ fr[q] \in Nat /\ fr[4] \in Nat
        /\ Len(fr) = 4 + fr[4]
    <2>1. Len(fr) \in Nat /\ q - 1 # Len(fr) /\ Len(fr) = 4 + fr[4]
      BY DEF WellFormed
    <2>2. q \in 1 .. Len(fr) /\ 4 \in 1 .. Len(fr)
      OBVIOUS
    <2>. QED  BY <2>1, <2>2, ByteIsNat
  <1>2. DOMAIN buffer = 0 .. BufSize - 1 /\ BufSize \in Nat
    BY FramesAssumption DEF ParserTypes
  <1>3. CASE q = 4
    <2>1. state = "88_size"
      BY <1>1, <1>3 DEF StateAt, AfterCommand
    <2>2. /\ size' = fr[4] /\ index' = 1 /\ buffer' = [i \in DOMAIN buffer |-> 0]
          /\ state' = IF fr[4] > 0 THEN "88_payload" ELSE "hdr1"
          /\ IF fr[4] = 0 THEN Finish(buffer') ELSE NoFinish
      BY <1>3, <2>1
    <2>3. fr[4] = 0 => buffer' = Payload(fr)
      BY <1>2, <2>2 DEF Payload
    <2>4. \A i \in 0 .. BufSize - 1 : buffer'[i] = IF i \in 1 .. q - 4 THEN fr[4 + i] ELSE 0
      BY <1>2, <1>3, <2>2
    <2>5. StateAt(fr, q)'
      BY <1>1, <1>3, <2>2, <2>4 DEF StateAt
    <2>. QED  BY <1>1, <1>3, <2>2, <2>3, <2>5
  <1>4. CASE q > 4
    <2>1. /\ state = "88_payload" /\ size = fr[4] /\ index = q - 4
          /\ \A i \in 0 .. BufSize - 1 : buffer[i] = IF i \in 1 .. q - 5 THEN fr[4 + i] ELSE 0
      <3>1. q - 1 >= 4 /\ q - 1 - 3 = q - 4 /\ q - 1 - 4 = q - 5
        BY <1>4
      <3>. QED  BY <1>1, <1>4, <3>1 DEF StateAt
    <2>2. /\ buffer' = IF index < BufSize THEN [buffer EXCEPT ![index] = fr[q]] ELSE buffer
          /\ index' = index + 1 /\ size' = size
          /\ IF index + 1 > size THEN state' = "hdr1" /\ Finish(buffer')
                                 ELSE state' = state /\ NoFinish
      BY <2>1
    <2>3. index + 1 > size <=> q = Len(fr)
      BY <1>1, <2>1
    <2>4. ASSUME NEW i \in 0 .. BufSize - 1
          PROVE  buffer'[i] = IF i \in 1 .. q - 4 THEN fr[4 + i] ELSE 0
      <3>1. CASE i = q - 4
        <4>1. buffer'[i] = fr[q] /\ 4 + i = q
          BY <1>2, <2>1, <2>2, <3>1
        <4>. QED  BY <1>4, <3>1, <4>1
      <3>2. CASE i # q - 4
        <4>1. buffer'[i] = buffer[i]
          BY <1>2, <2>1, <2>2, <3>2
        <4>2. i \in 1 .. q - 4 <=> i \in 1 .. q - 5
          BY <3>2
        <4>. QED  BY <2>1, <4>1, <4>2
      <3>. QED  BY <3>1, <3>2
    <2>5. DOMAIN buffer' = 0 .. BufSize - 1 /\ buffer' = [i \in 0 .. BufSize - 1 |-> buffer'[i]]
      <3>1. buffer = [i \in 0 .. BufSize - 1 |-> buffer[i]]
        BY DEF ParserTypes
      <3>2. CASE buffer' = buffer
        BY <1>2, <3>1, <3>2
      <3>3. CASE buffer' = [buffer EXCEPT ![index] = fr[q]]
        BY <1>2, <3>1, <3>3
      <3>. QED  BY <2>2, <3>2, <3>3
    <2>6. q = Len(fr) => buffer' = Payload(fr)
      BY <1>1, <2>4, <2>5 DEF Payload
    <2>7. StateAt(fr, q)'
      <3>1. CASE q = Len(fr)
        BY <2>2, <2>3, <3>1 DEF StateAt
      <3>2. CASE q # Len(fr)
        <4>1. state' = "88_payload" /\ size' = fr[4] /\ index' = q - 3
          BY <2>1, <2>2, <2>3, <3>2
        <4>. QED  BY <1>4, <2>4, <3>2, <4>1 DEF StateAt
      <3>. QED  BY <3>1, <3>2
    <2>. QED  BY <2>2, <2>3, <2>6, <2>7
  <1>. QED  BY <1>3, <1>4

\* Any byte but the first.
LEMMA NextByte ==
  ASSUME ParserTypes, NEW fr \in Seq(Byte), WellFormed(fr), NEW q \in 2 .. Len(fr),
         StateAt(fr, q - 1), Parse(fr[q])
  PROVE  /\ StateAt(fr, q)'
         /\ IF q = Len(fr) /\ IsReport(fr) THEN Finish(Payload(fr)) ELSE NoFinish
  <1>1. CASE q = 2
    BY <1>1, SecondByte DEF WellFormed
  <1>2. CASE q = 3
    <2>1. StateAt(fr, 2) /\ Parse(fr[3])
      BY <1>2
    <2>2. StateAt(fr, 3)' /\ NoFinish
      BY <2>1, ThirdByte
    <2>3. ~(q = Len(fr) /\ IsReport(fr))
      <3>1. IsReport(fr) => Len(fr) > 3
        BY DEF IsReport
      <3>2. ~(3 > 3)
        OBVIOUS
      <3>. QED  BY <1>2, <3>1, <3>2
    <2>4. StateAt(fr, q)'
      BY <1>2, <2>2
    <2>. QED  BY <2>2, <2>3, <2>4
  <1>3. CASE q > 3 /\ fr[3] = 136
    BY <1>3, ReportsByte DEF IsReport
  <1>4. CASE q > 3 /\ fr[3] # 136
    BY <1>4, SkippedByte DEF IsReport
  <1>. QED  BY <1>1, <1>2, <1>3, <1>4

LEMMA ParseTypes ==
  ASSUME ParserTypes, pending = NoChar, NEW c \in Byte, Parse(c), typed' = typed
  PROVE  ParserTypes'
  <1> USE DEF Parse, Header, Skipped, ReportSize, ReportByte, Goto
  <1>1. /\ state' \in States /\ size' \in Byte /\ index' \in Nat
        /\ buffer' \in [0 .. BufSize - 1 -> Byte]
    <2>1. 0 \in Byte
      BY DEF Byte
    <2>2. AfterCommand(c) \in States
      BY DEF AfterCommand, States
    <2>3. size' \in Byte /\ index' \in Nat
      BY DEF ParserTypes
    <2>4. buffer' \in [0 .. BufSize - 1 -> Byte]
      BY <2>1 DEF ParserTypes
    <2>5. state' \in States
      BY <2>2 DEF ParserTypes, States
    <2>. QED  BY <2>3, <2>4, <2>5
  <1>2. NoFinish \/ Finish(buffer')
    OBVIOUS
  <1>3. CASE NoFinish
    BY <1>1, <1>3 DEF NoFinish, ParserTypes
  <1>4. CASE Finish(buffer')
    BY <1>1, <1>4, FinishEffect DEF ParserTypes
  <1>. QED  BY <1>2, <1>3, <1>4

-----------------------------------------------------------------------------
(* The count of characters, with bytes lost or not.                        *)

\* A byte adds a character or a report begun only if it is taken for the kind
\* of a report.
LEMMA ParseCount ==
  ASSUME ParserTypes, pending = NoChar, NEW c \in Byte, Parse(c), typed' = typed
  PROVE  /\ Len(Produced) \in Nat /\ Len(Produced') \in Nat
         /\ Len(Produced') + InReport' <=
              Len(Produced) + InReport + (IF state = "cmd" /\ c = 136 THEN 1 ELSE 0)
  <1>1. typed \in Seq(Chars) /\ Len(typed) \in Nat
    BY DEF ParserTypes
  <1>2. Len(Produced) = Len(typed)
    BY <1>1, ProducedIs
  <1>3. pending' \in Chars \cup {NoChar}
    BY ParseTypes DEF ParserTypes
  <1>4. Len(Produced') = IF pending' = NoChar THEN Len(typed) ELSE Len(typed) + 1
    <2>1. CASE pending' = NoChar
      BY <1>1, <2>1 DEF Produced
    <2>2. CASE pending' # NoChar
      <3>1. Produced' = typed \o <<pending'>>
        BY <2>2 DEF Produced
      <3>. QED  BY <1>1, <1>3, <2>2, <3>1
    <2>. QED  BY <2>1, <2>2
  <1>5. CASE state \in {"88_size", "88_payload"}
    <2>1. InReport = 1
      BY <1>5 DEF InReport
    <2>2. \/ InReport' = 1 /\ pending' = pending
          \/ InReport' = 0
      BY <1>5 DEF Parse, Header, Skipped, ReportSize, ReportByte, InReport, NoFinish
    <2>. QED  BY <1>1, <1>2, <1>4, <2>1, <2>2
  <1>6. CASE state \notin {"88_size", "88_payload"}
    <2>1. InReport = 0 /\ pending' = pending
      BY <1>6 DEF InReport, Parse, Header, Skipped, ReportSize, ReportByte, Goto, NoFinish
    <2>2. (state = "cmd" /\ c = 136) \/ InReport' = 0
      BY <1>6 DEF InReport, Parse, Header, Skipped, ReportSize, ReportByte, Goto, AfterCommand
    <2>3. InReport' \in {0, 1}
      BY DEF InReport
    <2>. QED  BY <1>1, <1>2, <1>4, <2>1, <2>2, <2>3
  <1>. QED  BY <1>5, <1>6

LEMMA BegunGrows ==
  ASSUME sent \in Seq(Frames), NEW f \in Nat, NEW p \in Nat, NEW g \in Nat, NEW q \in Nat,
         Before(f, p, g, q)
  PROVE  /\ Cardinality(Begun(f, p)) \in Nat /\ Cardinality(Begun(g, q)) \in Nat
         /\ Cardinality(Begun(f, p)) <= Cardinality(Begun(g, q))
         /\ g \in ReportsAt /\ q = 3 => Cardinality(Begun(f, p)) + 1 <= Cardinality(Begun(g, q))
  <1>1. IsFiniteSet(ReportsAt) /\ ReportsAt \subseteq Nat
    <2>1. ReportsAt \in SUBSET DOMAIN sent /\ 0 \in Nat
      BY SetsOfFrames
    <2>2. IsFiniteSet(ReportsAt)
      BY <2>1, UpToFinite
    <2>3. DOMAIN sent \subseteq Nat
      OBVIOUS
    <2>. QED  BY <2>1, <2>2, <2>3
  <1>2. Begun(f, p) \subseteq Begun(g, q) /\ Begun(g, q) \subseteq ReportsAt
    <2>1. \A i \in Nat : Before(g, q, i, 3) => Before(f, p, i, 3)
      BY DEF Before
    <2>. QED  BY <1>1, <2>1 DEF Begun
  <1>3. IsFiniteSet(Begun(f, p)) /\ IsFiniteSet(Begun(g, q))
    BY <1>1, <1>2, FS_Subset
  <1>4. /\ Cardinality(Begun(f, p)) \in Nat /\ Cardinality(Begun(g, q)) \in Nat
        /\ Cardinality(Begun(f, p)) <= Cardinality(Begun(g, q))
    BY <1>2, <1>3, FS_Subset, FS_CardinalityType
  <1>5. ASSUME g \in ReportsAt, q = 3
        PROVE  Cardinality(Begun(f, p)) + 1 <= Cardinality(Begun(g, q))
    <2>1. g \notin Begun(f, p) /\ Begun(f, p) \cup {g} \subseteq Begun(g, q)
      BY <1>2, <1>5 DEF Begun, Before
    <2>2. Cardinality(Begun(f, p) \cup {g}) = Cardinality(Begun(f, p)) + 1
      BY <1>3, <2>1, FS_AddElement
    <2>. QED  BY <1>3, <2>1, <2>2, FS_Subset
  <1>. QED  BY <1>4, <1>5

LEMMA CountStep ==
  ASSUME ParserTypes, sent \in Seq(Frames), sent' = sent, typed' = typed, pending = NoChar,
         KindIsUnique, NEW f \in Nat, NEW p \in Nat, NEW g \in 1 .. Len(sent), NEW q \in 1 .. EndOf(g),
         Before(f, p, g, q), Parse(sent[g][q]),
         Len(Produced) + InReport <= Cardinality(Begun(f, p))
  PROVE  (Len(Produced) + InReport <= Cardinality(Begun(g, q)))'
  <1> DEFINE c == sent[g][q]
  <1>1. /\ sent[g] \in Frames /\ sent[g] \in Seq(Byte) /\ WellFormed(sent[g]) /\ EndOf(g) = Len(sent[g])
        /\ Len(sent[g]) \in Nat
    BY FramesSent
  <1>2. c \in Byte /\ g \in Nat /\ q \in Nat
    BY <1>1
  <1>3. c = 136 => g \in ReportsAt /\ q = 3
    <2>1. SUFFICES ASSUME c = 136
                   PROVE  g \in ReportsAt /\ q = 3
      OBVIOUS
    <2>2. q \notin 4 .. Len(sent[g])
      BY <1>1, <2>1 DEF KindIsUnique
    <2>3. q \in 1 .. 3
      BY <1>1, <2>2
    <2>4. q # 1 /\ q # 2
      BY <1>1, <2>1, SMTT(30) DEF WellFormed
    <2>5. q = 3 /\ sent[g][3] = 136
      BY <2>1, <2>3, <2>4
    <2>6. Len(sent[g]) >= 4
      BY <1>1, <2>5 DEF WellFormed
    <2>7. Len(sent[g]) > 3
      BY <1>1, <2>6
    <2>. QED  BY <2>5, <2>7 DEF ReportsAt, IsReport
  <1>4. Begun(g, q)' = Begun(g, q)
    BY DEF Begun, ReportsAt
  <1> HIDE DEF c
  <1>5. Parse(c)
    BY DEF c
  <1>6. /\ Len(Produced) \in Nat /\ Len(Produced') \in Nat
        /\ Len(Produced') + InReport' <=
             Len(Produced) + InReport + (IF state = "cmd" /\ c = 136 THEN 1 ELSE 0)
    BY <1>2, <1>5, ParseCount
  <1>7. /\ Cardinality(Begun(f, p)) \in Nat /\ Cardinality(Begun(g, q)) \in Nat
        /\ Cardinality(Begun(f, p)) <= Cardinality(Begun(g, q))
        /\ c = 136 => Cardinality(Begun(f, p)) + 1 <= Cardinality(Begun(g, q))
    BY <1>2, <1>3, BegunGrows
  <1>8. InReport \in {0, 1} /\ InReport' \in {0, 1}
    BY DEF InReport
  <1>9. Len(Produced') + InReport' <= Cardinality(Begun(g, q))
    BY <1>6, <1>7, <1>8
  <1>. QED  BY <1>4, <1>9

-----------------------------------------------------------------------------
(* The actions.                                                            *)

\* kbd_poll goes from one place to the next.
LEMMA InStepKept ==
  ASSUME ParserTypes, sent \in Seq(Frames), sent' = sent, typed' = typed, pending = NoChar,
         NEW f \in Nat, NEW p \in Nat, IsPlace(f, p),
         NEW g \in 1 .. Len(sent), NEW q \in 1 .. EndOf(g),
         Follows(f, p, g, q), Parse(sent[g][q]), InStep(f, p), Decoded(Taken(f, p))
  PROVE  InStep(g, q)' /\ Decoded(Taken(g, q))'
  <1>1. PICK fr : fr = sent[g]
    OBVIOUS
  <1>2. /\ fr \in Seq(Byte) /\ WellFormed(fr) /\ EndOf(g) = Len(fr) /\ Len(fr) \in Nat
    BY <1>1, FramesSent
  <1>3. /\ InStep(g, q)' <=> StateAt(fr, q)'
        /\ Taken(g, q)' = Taken(g, q)
    BY <1>1 DEF InStep, Taken, EndOf, StateAt
  <1>4. g \in ReportsAt <=> IsReport(fr)
    BY <1>1 DEF ReportsAt
  <1>5. Rep(g) = Payload(fr)
    BY <1>1 DEF Rep
  <1>6. /\ StateAt(fr, q)'
        /\ IF q = Len(fr) /\ IsReport(fr) THEN Finish(Rep(g)) ELSE NoFinish
        /\ Taken(f, p) = g - 1
    <2>1. CASE q = 1
      <3>1. g = f + 1 /\ p = EndOf(f)
        BY <2>1 DEF Follows, IsPlace
      <3>2. state = "hdr1"
        BY <3>1 DEF InStep, StateAt, EndOf
      <3>3. StateAt(fr, 1)' /\ NoFinish
        BY <1>2, <1>1, <2>1, <3>2, FirstByte
      <3>4. Len(fr) # 1
        BY <1>2 DEF WellFormed
      <3>5. Taken(f, p) = g - 1
        BY <3>1 DEF Taken
      <3>6. StateAt(fr, q)' /\ q # Len(fr)
        BY <2>1, <3>3, <3>4
      <3>. QED  BY <3>3, <3>5, <3>6
    <2>2. CASE q # 1
      <3>1. f = g /\ p = q - 1
        BY <2>2 DEF Follows
      <3>2. StateAt(fr, q - 1) /\ q \in 2 .. Len(fr)
        BY <1>2, <1>1, <2>2, <3>1 DEF InStep
      <3>3. Parse(fr[q])
        BY <1>1
      <3>4. /\ StateAt(fr, q)'
            /\ IF q = Len(fr) /\ IsReport(fr) THEN Finish(Payload(fr)) ELSE NoFinish
        BY <1>2, <3>2, <3>3, NextByte
      <3>5. Taken(f, p) = g - 1
        BY <1>2, <3>1 DEF Taken
      <3>. QED  BY <1>5, <3>4, <3>5
    <2>. QED  BY <2>1, <2>2
  <1>7. g - 1 \in Nat /\ g - 1 + 1 = g /\ Decoded(g - 1)
    BY <1>6
  <1>8. CASE q = Len(fr)
    <2>1. Taken(g, q) = g
      BY <1>2, <1>8 DEF Taken
    <2>2. Decoded(g - 1 + 1)'
      <3>1. CASE g \in ReportsAt
        BY <1>4, <1>6, <1>7, <1>8, <3>1, ReportDecoded
      <3>2. CASE g \notin ReportsAt
        BY <1>4, <1>6, <1>7, <3>2, OtherDecoded
      <3>. QED  BY <3>1, <3>2
    <2>. QED  BY <1>3, <1>6, <1>7, <2>1, <2>2
  <1>9. CASE q # Len(fr)
    <2>1. Taken(g, q) = g - 1
      BY <1>2, <1>9 DEF Taken
    <2>2. NoFinish
      BY <1>6, <1>9
    <2>3. Decoded(g - 1)'
      BY <1>7, <2>2 DEF Decoded, KeysOf, CapsOf, ModsOf, NoFinish, Produced, UpTo, TypingAt, PressedAt,
           ReportsAt, Rep
    <2>. QED  BY <1>3, <1>6, <2>1, <2>3
  <1>. QED  BY <1>8, <1>9

LEMMA AtStep ==
  ASSUME ParserTypes, sent \in Seq(Frames), sent' = sent, typed' = typed, pending = NoChar,
         lost' = lost, NEW f \in Nat, NEW p \in Nat, IsPlace(f, p),
         NEW g \in 1 .. Len(sent), NEW q \in 1 .. EndOf(g),
         Before(f, p, g, q), lost = 0 => Follows(f, p, g, q), Parse(sent[g][q]), At(f, p)
  PROVE  At(g, q)'
  <1>1. lost' = 0 => InStep(g, q)' /\ Decoded(Taken(g, q))'
    BY InStepKept DEF At
  <1>2. KindIsUnique => (Len(Produced) + InReport <= Cardinality(Begun(g, q)))'
    BY CountStep DEF At
  <1>. QED  BY <1>1, <1>2 DEF At, KindIsUnique

LEMMA PollByteKbdInv ==
  ASSUME KbdInv, PollByte
  PROVE  KbdInv'
  <1>1. PICK F, P \in [0 .. Len(uart) -> Nat] :
          /\ Line(F, P) /\ At(F[0], P[0])
          /\ lost = 0 => Unbroken(F, P)
    BY DEF KbdInv
  <1>2. /\ sent \in Seq(Frames) /\ uart \in Seq(Byte) /\ uart # <<>> /\ uart' = Tail(uart)
        /\ sent' = sent /\ pos' = pos /\ lost' = lost /\ typed' = typed /\ pending = NoChar
        /\ ParserTypes /\ LineTypes /\ Parse(Head(uart))
    BY DEF KbdInv, LineTypes, PollByte, PollMore, Parse, lineVars
  <1>3. /\ Len(uart) \in Nat /\ Len(uart) >= 1 /\ Len(uart') = Len(uart) - 1 /\ uart' \in Seq(Byte)
        /\ \A i \in 1 .. Len(uart) - 1 : uart'[i] = uart[i + 1]
        /\ Head(uart) = uart[1] /\ uart[1] \in Byte
    BY <1>2
  <1> DEFINE L == Len(uart)
  <1>4. PICK G, Q : /\ G = [i \in 0 .. L - 1 |-> F[i + 1]]
                    /\ Q = [i \in 0 .. L - 1 |-> P[i + 1]]
    OBVIOUS
  <1>5. G \in [0 .. Len(uart') -> Nat] /\ Q \in [0 .. Len(uart') -> Nat]
    BY <1>4, <1>1, <1>3
  <1>6. /\ \A i \in 0 .. L - 1 : G[i] = F[i + 1] /\ Q[i] = P[i + 1]
        /\ G[L - 1] = F[L] /\ Q[L - 1] = P[L]
    BY <1>4, <1>3
  <1>7. /\ \A i \in 0 .. L : IsPlace(F[i], P[i])
        /\ \A i \in 1 .. L : /\ Before(F[i - 1], P[i - 1], F[i], P[i])
                             /\ uart[i] = sent[F[i]][P[i]]
        /\ ~Before(Len(sent), pos, F[L], P[L])
    BY <1>1 DEF Line
  <1>8. lost = 0 => /\ \A i \in 1 .. L : Follows(F[i - 1], P[i - 1], F[i], P[i])
                    /\ F[L] = Len(sent) /\ P[L] = pos
    BY <1>1 DEF Unbroken
  <1>9. At(G[0], Q[0])'
    <2>1. /\ IsPlace(F[0], P[0]) /\ IsPlace(F[1], P[1]) /\ Before(F[0], P[0], F[1], P[1])
          /\ uart[1] = sent[F[1]][P[1]] /\ (lost = 0 => Follows(F[0], P[0], F[1], P[1]))
          /\ F[0] \in Nat /\ P[0] \in Nat /\ F[1] \in Nat /\ P[1] \in Nat
      <3>1. 0 \in 0 .. L /\ 1 \in 0 .. L /\ 1 \in 1 .. L /\ 1 - 1 = 0
        BY <1>3
      <3>2. F[0] \in Nat /\ P[0] \in Nat /\ F[1] \in Nat /\ P[1] \in Nat
        BY <1>1, <3>1
      <3>3. Before(F[1 - 1], P[1 - 1], F[1], P[1]) /\ uart[1] = sent[F[1]][P[1]]
        BY <1>7, <3>1
      <3>4. lost = 0 => Follows(F[1 - 1], P[1 - 1], F[1], P[1])
        BY <1>8, <3>1
      <3>. QED  BY <1>7, <3>1, <3>2, <3>3, <3>4
    <2>2. F[1] \in 1 .. Len(sent) /\ P[1] \in 1 .. EndOf(F[1])
      BY <2>1 DEF IsPlace, Before, EndOf
    <2>3. At(F[1], P[1])'
      BY <1>1, <1>2, <1>3, <2>1, <2>2, AtStep
    <2>4. G[0] = F[1] /\ Q[0] = P[1]
      BY <1>3, <1>6
    <2>. QED  BY <2>3, <2>4
  <1>10. Line(G, Q)'
    <2>1. \A i \in 0 .. L - 1 : IsPlace(G[i], Q[i])'
      <3>1. \A i \in 0 .. L - 1 : IsPlace(G[i], Q[i])
        BY <1>3, <1>6, <1>7
      <3>. QED  BY <1>2, <3>1 DEF IsPlace, EndOf
    <2>2. \A i \in 1 .. L - 1 : /\ Before(G[i - 1], Q[i - 1], G[i], Q[i])
                                /\ uart'[i] = sent[G[i]][Q[i]]
      <3>1. SUFFICES ASSUME NEW i \in 1 .. L - 1
                     PROVE  /\ Before(G[i - 1], Q[i - 1], G[i], Q[i])
                            /\ uart'[i] = sent[G[i]][Q[i]]
        OBVIOUS
      <3>2. /\ i - 1 \in 0 .. L - 1 /\ i \in 0 .. L - 1 /\ i - 1 + 1 = i /\ i + 1 \in 1 .. L
            /\ i + 1 - 1 = i
        BY <1>3
      <3>3. G[i - 1] = F[i] /\ Q[i - 1] = P[i] /\ G[i] = F[i + 1] /\ Q[i] = P[i + 1]
        BY <1>6, <3>2
      <3>4. Before(F[i], P[i], F[i + 1], P[i + 1]) /\ uart[i + 1] = sent[F[i + 1]][P[i + 1]]
        BY <1>7, <3>2
      <3>. QED  BY <1>3, <3>3, <3>4
    <2>3. ~Before(Len(sent), pos, G[L - 1], Q[L - 1])
      BY <1>6, <1>7
    <2>4. Line(G, Q)' <=> /\ \A i \in 0 .. Len(uart') : IsPlace(G[i], Q[i])'
                          /\ \A i \in 1 .. Len(uart') : /\ Before(G[i - 1], Q[i - 1], G[i], Q[i])
                                                        /\ uart'[i] = sent'[G[i]][Q[i]]
                          /\ ~Before(Len(sent'), pos', G[Len(uart')], Q[Len(uart')])
      BY DEF Line, Before
    <2>. QED  BY <1>2, <1>3, <2>1, <2>2, <2>3, <2>4
  <1>11. lost' = 0 => Unbroken(G, Q)'
    <2>1. SUFFICES ASSUME lost = 0
                   PROVE  Unbroken(G, Q)'
      BY <1>2
    <2>2. \A i \in 1 .. L - 1 : Follows(G[i - 1], Q[i - 1], G[i], Q[i])
      <3>1. SUFFICES ASSUME NEW i \in 1 .. L - 1
                     PROVE  Follows(G[i - 1], Q[i - 1], G[i], Q[i])
        OBVIOUS
      <3>2. /\ i - 1 \in 0 .. L - 1 /\ i \in 0 .. L - 1 /\ i - 1 + 1 = i /\ i + 1 \in 1 .. L
            /\ i + 1 - 1 = i
        BY <1>3
      <3>3. G[i - 1] = F[i] /\ Q[i - 1] = P[i] /\ G[i] = F[i + 1] /\ Q[i] = P[i + 1]
        BY <1>6, <3>2
      <3>4. Follows(F[i], P[i], F[i + 1], P[i + 1])
        BY <1>8, <2>1, <3>2
      <3>. QED  BY <3>3, <3>4
    <2>3. G[L - 1] = Len(sent) /\ Q[L - 1] = pos
      BY <1>6, <1>8, <2>1
    <2>. QED  BY <1>2, <1>3, <2>2, <2>3 DEF Unbroken, Follows, EndOf
  <1>12. ParserTypes'
    BY <1>2, <1>3, ParseTypes
  <1>13. LineTypes'
    BY <1>2, <1>3 DEF LineTypes, EndOf
  <1>. QED  BY <1>5, <1>9, <1>10, <1>11, <1>12, <1>13 DEF KbdInv

\* Nothing the invariant speaks of changes.
LEMMA SameKbdInv ==
  ASSUME KbdInv, UNCHANGED <<state, size, index, buffer, mods, caps, capsHeld, led, uart, lineVars>>,
         pending' \in Chars \cup {NoChar}, typed' \in Seq(Chars), Produced' = Produced
  PROVE  KbdInv'
  <1>1. PICK F, P \in [0 .. Len(uart) -> Nat] :
          /\ Line(F, P) /\ At(F[0], P[0])
          /\ lost = 0 => Unbroken(F, P)
    BY DEF KbdInv
  <1>2. uart' = uart /\ sent' = sent /\ pos' = pos /\ lost' = lost
    BY DEF lineVars
  <1>3. Line(F, P)' /\ (lost' = 0 => Unbroken(F, P)')
    BY <1>1, <1>2 DEF Line, Unbroken, IsPlace, Before, Follows, EndOf
  <1>4. At(F[0], P[0])'
    <2>1. InStep(F[0], P[0])' <=> InStep(F[0], P[0])
      BY <1>2 DEF InStep, StateAt
    <2>2. \A n : Decoded(n)' <=> Decoded(n)
      BY <1>2 DEF Decoded, KeysOf, CapsOf, ModsOf, UpTo, TypingAt, PressedAt, ReportsAt, Rep
    <2>3. Taken(F[0], P[0])' = Taken(F[0], P[0])
      BY <1>2 DEF Taken, EndOf
    <2>4. Begun(F[0], P[0])' = Begun(F[0], P[0]) /\ InReport' = InReport
      BY <1>2 DEF Begun, ReportsAt, InReport
    <2>. QED  BY <1>1, <1>2, <2>1, <2>2, <2>3, <2>4 DEF At, KindIsUnique
  <1>5. ParserTypes' /\ LineTypes'
    BY <1>2 DEF KbdInv, ParserTypes, LineTypes, EndOf
  <1>. QED  BY <1>1, <1>2, <1>3, <1>4, <1>5 DEF KbdInv

LEMMA PollEndKbdInv ==
  ASSUME KbdInv, PollEnd \/ UNCHANGED vars
  PROVE  KbdInv'
  <1>1. UNCHANGED <<parserVars, uart, lineVars, typed>>
    BY DEF PollEnd, vars
  <1>2. Produced' = Produced /\ pending' \in Chars \cup {NoChar} /\ typed' \in Seq(Chars)
    BY <1>1 DEF Produced, parserVars, KbdInv, ParserTypes
  <1>. QED  BY <1>1, <1>2, SameKbdInv DEF parserVars

LEMMA GetCharKbdInv ==
  ASSUME KbdInv, GetChar
  PROVE  KbdInv'
  <1>1. typed \in Seq(Chars) /\ pending \in Chars \cup {NoChar}
    BY DEF KbdInv, ParserTypes
  <1>2. pending' = NoChar /\ typed' = IF pending = NoChar THEN typed ELSE Append(typed, pending)
    BY DEF GetChar
  <1>3. typed' \in Seq(Chars)
    BY <1>1, <1>2
  <1>4. Produced' = typed'
    BY <1>2, <1>3 DEF Produced
  <1>5. Produced' = Produced
    BY <1>1, <1>2, <1>4, ProducedIs
  <1>. QED  BY <1>2, <1>3, <1>5, SameKbdInv DEF GetChar

\* A frame more does not change what the first ones are.
LEMMA SetsKept ==
  ASSUME sent \in Seq(Frames), NEW n \in 0 .. Len(sent), Len(sent') \in Nat, Len(sent) <= Len(sent'),
         DOMAIN sent' = 1 .. Len(sent'), \A i \in 1 .. Len(sent) : sent'[i] = sent[i]
  PROVE  /\ UpTo(ReportsAt, n)' = UpTo(ReportsAt, n)
         /\ UpTo(TypingAt, n)' = UpTo(TypingAt, n)
         /\ UpTo(PressedAt, n)' = UpTo(PressedAt, n)
         /\ \A i \in 1 .. Len(sent) : Rep(i)' = Rep(i)
  <1>1. \A i \in 1 .. Len(sent) : Rep(i)' = Rep(i) /\ (IsReport(sent[i])' <=> IsReport(sent[i]))
    BY DEF Rep
  <1>2. DOMAIN sent = 1 .. Len(sent) /\ Len(sent) \in Nat
    OBVIOUS
  <1>3. \A i \in 1 .. Len(sent) : i \in ReportsAt' <=> i \in ReportsAt
    BY <1>1, <1>2 DEF ReportsAt
  <1>4. ReportsAt \subseteq 1 .. Len(sent) /\ ReportsAt' \subseteq 1 .. Len(sent')
    BY <1>2 DEF ReportsAt
  <1>5. /\ \A i \in 1 .. Len(sent') : i <= n => i \in 1 .. Len(sent)
        /\ \A i \in 1 .. Len(sent) : i \in 1 .. Len(sent')
    BY <1>2
  <1>6. UpTo(ReportsAt, n)' = UpTo(ReportsAt, n)
    BY <1>3, <1>4, <1>5 DEF UpTo
  <1>7. UpTo(TypingAt, n)' = UpTo(TypingAt, n)
    <2>1. \A i \in 1 .. Len(sent) : i \in TypingAt' <=> i \in TypingAt
      BY <1>1, <1>3 DEF TypingAt, GivesChar, Released, IsCaps
    <2>2. TypingAt \subseteq 1 .. Len(sent) /\ TypingAt' \subseteq 1 .. Len(sent')
      BY <1>4 DEF TypingAt
    <2>. QED  BY <1>5, <2>1, <2>2 DEF UpTo
  <1>8. UpTo(PressedAt, n)' = UpTo(PressedAt, n)
    <2>1. ASSUME NEW i \in 1 .. Len(sent)
          PROVE  i \in PressedAt' <=> i \in PressedAt
      <3>1. \A j : (j \in ReportsAt /\ j < i) <=> (j \in ReportsAt' /\ j < i)
        <4>1. \A j \in 1 .. Len(sent') : j < i => j \in 1 .. Len(sent)
          BY <1>2
        <4>. QED  BY <1>3, <1>4, <4>1
      <3>2. \A j : j \in ReportsAt /\ j < i => Rep(j)' = Rep(j)
        BY <1>1, <1>4
      <3>3. Rep(i)' = Rep(i) /\ (i \in ReportsAt' <=> i \in ReportsAt)
        BY <1>1, <1>3
      <3>. QED  BY <3>1, <3>2, <3>3 DEF PressedAt, Released, IsCaps
    <2>2. PressedAt \subseteq 1 .. Len(sent) /\ PressedAt' \subseteq 1 .. Len(sent')
      BY <1>4 DEF PressedAt
    <2>. QED  BY <1>5, <2>1, <2>2 DEF UpTo
  <1>. QED  BY <1>1, <1>6, <1>7, <1>8

LEMMA DecodedKept ==
  ASSUME sent \in Seq(Frames), NEW n \in 0 .. Len(sent), Len(sent') \in Nat, Len(sent) <= Len(sent'),
         DOMAIN sent' = 1 .. Len(sent'), \A i \in 1 .. Len(sent) : sent'[i] = sent[i],
         UNCHANGED <<parserVars, typed>>, Decoded(n)
  PROVE  Decoded(n)'
  <1>1. /\ caps' = caps /\ capsHeld' = capsHeld /\ mods' = mods /\ Produced' = Produced
    BY DEF parserVars, Produced
  <1>2. \A m \in 0 .. Len(sent) :
          /\ UpTo(ReportsAt, m)' = UpTo(ReportsAt, m)
          /\ UpTo(TypingAt, m)' = UpTo(TypingAt, m)
          /\ UpTo(PressedAt, m)' = UpTo(PressedAt, m)
    BY SetsKept
  <1>3. \A i \in 1 .. Len(sent) : Rep(i)' = Rep(i)
    BY SetsKept
  <1>4. \A i \in UpTo(ReportsAt, n) : i \in 1 .. Len(sent) /\ i \in 0 .. Len(sent)
    BY SetsOfFrames DEF UpTo
  <1>5. \A i \in UpTo(TypingAt, n) : i \in 1 .. Len(sent) /\ i \in 0 .. Len(sent)
    BY SetsOfFrames DEF UpTo
  <1>6. KeysOf(n)'
    <2>1. Len(Produced') = Cardinality(UpTo(TypingAt, n)')
      BY <1>1, <1>2 DEF Decoded, KeysOf
    <2>2. \A i \in UpTo(TypingAt, n)' : Produced'[Cardinality(UpTo(TypingAt, i)')][2] = Rep(i)'[4]
      BY <1>1, <1>2, <1>3, <1>5 DEF Decoded, KeysOf
    <2>. QED  BY <2>1, <2>2 DEF KeysOf
  <1>7. CapsOf(n)'
    <2>1. caps' <=> Cardinality(UpTo(PressedAt, n)') % 2 = 1
      BY <1>1, <1>2 DEF Decoded, CapsOf
    <2>2. capsHeld' <=> \E i \in UpTo(ReportsAt, n)' :
                           /\ IsCaps(Rep(i)')
                           /\ \A k \in UpTo(ReportsAt, n)' : i < k => ~Released(Rep(k)')
      BY <1>1, <1>2, <1>3, <1>4 DEF Decoded, CapsOf
    <2>. QED  BY <2>1, <2>2 DEF CapsOf, IsCaps, Released
  <1>8. ModsOf(n)'
    <2>1. \A i \in UpTo(ReportsAt, n)' :
             Released(Rep(i)') /\ (\A j \in UpTo(ReportsAt, n)' : j <= i) => mods' = None
      BY <1>1, <1>2, <1>3, <1>4 DEF Decoded, ModsOf
    <2>. QED  BY <2>1 DEF ModsOf, Released
  <1>. QED  BY <1>6, <1>7, <1>8 DEF Decoded

\* The converter puts the byte that follows on the line.
LEMMA SendEffect ==
  ASSUME LineTypes, SendByte
  PROVE  /\ sent' \in Seq(Frames) /\ Len(sent') \in Nat /\ Len(sent) <= Len(sent')
         /\ DOMAIN sent' = 1 .. Len(sent') /\ \A i \in 1 .. Len(sent) : sent'[i] = sent[i]
         /\ Len(sent') \in 1 .. Len(sent') /\ pos' \in 1 .. EndOf(Len(sent))'
         /\ Before(Len(sent), pos, Len(sent'), pos')
         /\ Follows(Len(sent), pos, Len(sent'), pos')
         /\ Last(sent')[pos'] = sent'[Len(sent')][pos']
  <1>1. sent \in Seq(Frames) /\ Len(sent) \in Nat /\ pos \in 0 .. EndOf(Len(sent))
    BY DEF LineTypes
  <1>2. FrameDone <=> pos = EndOf(Len(sent))
    BY <1>1 DEF FrameDone, EndOf, Last
  <1>3. CASE FrameDone /\ (\E f \in Frames : sent' = Append(sent, f)) /\ pos' = 1
    <2>1. PICK f \in Frames : sent' = Append(sent, f)
      BY <1>3
    <2>2. /\ sent' \in Seq(Frames) /\ Len(sent') = Len(sent) + 1 /\ sent'[Len(sent) + 1] = f
          /\ \A i \in 1 .. Len(sent) : sent'[i] = sent[i]
      BY <1>1, <2>1
    <2>3. f \in Seq(0 .. 255) /\ Len(f) \in Nat /\ Len(f) >= 3
      BY FramesAssumption, WellFormedFrames DEF WellFormed
    <2>4. EndOf(Len(sent))' = Len(f)
      BY <1>1, <2>2 DEF EndOf
    <2>5. /\ Before(Len(sent), pos, Len(sent'), pos') /\ Follows(Len(sent), pos, Len(sent'), pos')
      BY <1>1, <1>2, <1>3, <2>2 DEF Before, Follows
    <2>6. DOMAIN sent' = 1 .. Len(sent') /\ Len(sent') \in 1 .. Len(sent')
      BY <1>1, <2>2
    <2>7. pos' \in 1 .. EndOf(Len(sent))'
      BY <1>3, <2>3, <2>4
    <2>. QED  BY <1>1, <2>2, <2>5, <2>6, <2>7 DEF Last
  <1>4. CASE ~FrameDone /\ sent' = sent /\ pos' = pos + 1
    <2>1. EndOf(Len(sent)) \in Nat /\ Len(sent) > 0
      <3>1. Len(sent) # 0
        BY <1>1, <1>2, <1>4 DEF EndOf
      <3>2. Len(sent) \in 1 .. Len(sent)
        BY <1>1, <3>1
      <3>. QED  BY <1>1, <3>1, <3>2, FramesSent
    <2>2. pos' \in 1 .. EndOf(Len(sent))
      BY <1>1, <1>2, <1>4, <2>1
    <2>3. EndOf(Len(sent))' = EndOf(Len(sent))
      BY <1>4 DEF EndOf
    <2>4. /\ Before(Len(sent), pos, Len(sent'), pos') /\ Follows(Len(sent), pos, Len(sent'), pos')
      BY <1>1, <1>4 DEF Before, Follows
    <2>5. DOMAIN sent' = 1 .. Len(sent') /\ Len(sent') \in 1 .. Len(sent')
      BY <1>1, <1>4, <2>1
    <2>. QED  BY <1>1, <1>4, <2>2, <2>3, <2>4, <2>5 DEF Last
  <1>. QED  BY <1>3, <1>4 DEF SendByte

LEMMA SendByteKbdInv ==
  ASSUME KbdInv, SendByte
  PROVE  KbdInv'
  <1>1. PICK F, P \in [0 .. Len(uart) -> Nat] :
          /\ Line(F, P) /\ At(F[0], P[0])
          /\ lost = 0 => Unbroken(F, P)
    BY DEF KbdInv
  <1>2. /\ sent \in Seq(Frames) /\ uart \in Seq(Byte) /\ lost \in Nat /\ pos \in Nat
        /\ Len(sent) \in Nat /\ Len(uart) \in Nat
        /\ LineTypes /\ ParserTypes /\ UNCHANGED <<parserVars, typed>>
    BY DEF KbdInv, LineTypes, SendByte
  <1>3. /\ sent' \in Seq(Frames) /\ Len(sent') \in Nat /\ Len(sent) <= Len(sent')
        /\ DOMAIN sent' = 1 .. Len(sent') /\ \A i \in 1 .. Len(sent) : sent'[i] = sent[i]
        /\ Len(sent') \in 1 .. Len(sent') /\ pos' \in 1 .. EndOf(Len(sent))'
        /\ Before(Len(sent), pos, Len(sent'), pos')
        /\ Follows(Len(sent), pos, Len(sent'), pos')
        /\ Last(sent')[pos'] = sent'[Len(sent')][pos']
    BY <1>2, SendEffect
  <1>4. ParserTypes'
    BY <1>2 DEF ParserTypes, parserVars
  <1>5. EndOf(Len(sent))' = Len(sent'[Len(sent')])
    BY <1>3 DEF EndOf
  <1>6. /\ sent'[Len(sent')] \in Seq(Byte) /\ pos' \in 1 .. Len(sent'[Len(sent')])
        /\ sent'[Len(sent')][pos'] \in Byte /\ pos' \in Nat
    <2>1. sent'[Len(sent')] \in Frames
      BY <1>3
    <2>2. sent'[Len(sent')] \in Seq(Byte)
      BY <2>1, FramesAssumption DEF Byte
    <2>. QED  BY <1>3, <1>5, <2>2
  <1>7. /\ \A i \in 0 .. Len(uart) : IsPlace(F[i], P[i])
        /\ \A i \in 1 .. Len(uart) : /\ Before(F[i - 1], P[i - 1], F[i], P[i])
                                     /\ uart[i] = sent[F[i]][P[i]]
        /\ ~Before(Len(sent), pos, F[Len(uart)], P[Len(uart)])
    BY <1>1 DEF Line
  <1>8. \A f \in 0 .. Len(sent) : EndOf(f)' = EndOf(f)
    BY <1>3 DEF EndOf
  <1>9. \A i \in 0 .. Len(uart) : IsPlace(F[i], P[i])' /\ F[i] \in 0 .. Len(sent)
    BY <1>2, <1>3, <1>7, <1>8 DEF IsPlace
  <1>10. \A i \in 1 .. Len(uart) : uart[i] = sent'[F[i]][P[i]]
    <2>1. \A i \in 1 .. Len(uart) : i \in 0 .. Len(uart) /\ i - 1 \in 0 .. Len(uart)
      BY <1>2
    <2>2. \A i \in 1 .. Len(uart) : F[i] \in 1 .. Len(sent)
      <3>1. SUFFICES ASSUME NEW i \in 1 .. Len(uart)
                     PROVE  F[i] \in 1 .. Len(sent)
        OBVIOUS
      <3>2. /\ F[i] \in 0 .. Len(sent) /\ F[i - 1] \in 0 .. Len(sent) /\ P[i - 1] \in Nat
            /\ (F[i] = 0 => P[i] = 0) /\ Before(F[i - 1], P[i - 1], F[i], P[i])
        BY <1>1, <1>7, <2>1 DEF IsPlace, EndOf
      <3>. QED  BY <1>2, <3>2 DEF Before
    <2>. QED  BY <1>3, <1>7, <2>2
  <1>11. \A f, p \in Nat : ~Before(Len(sent), pos, f, p) => Before(f, p, Len(sent'), pos')
    <2>1. \A f, p, g, q, h, r \in Nat :
             ~Before(g, q, f, p) /\ Before(g, q, h, r) => Before(f, p, h, r)
      BY DEF Before
    <2>. QED  BY <1>2, <1>3, <1>6, <2>1
  <1>12. lost' = 0 => InStep(F[0], P[0])' /\ Decoded(Taken(F[0], P[0]))'
    <2>1. SUFFICES ASSUME lost = 0
                   PROVE  InStep(F[0], P[0])' /\ Decoded(Taken(F[0], P[0]))'
      BY <1>2 DEF SendByte
    <2>2. F[0] \in 0 .. Len(sent) /\ P[0] \in 0 .. EndOf(F[0]) /\ (F[0] > 0 => P[0] > 0)
      BY <1>2, <1>7 DEF IsPlace
    <2>3. InStep(F[0], P[0]) /\ Decoded(Taken(F[0], P[0]))
      BY <1>1, <2>1 DEF At
    <2>4. InStep(F[0], P[0])'
      <3>1. F[0] # 0 => sent'[F[0]] = sent[F[0]]
        BY <1>2, <1>3, <2>2
      <3>. QED  BY <1>2, <2>3, <3>1 DEF InStep, StateAt, parserVars
    <2>5. Taken(F[0], P[0])' = Taken(F[0], P[0])
      BY <1>8, <2>2 DEF Taken
    <2>6. Taken(F[0], P[0]) \in 0 .. Len(sent)
      BY <1>2, <2>2 DEF Taken, EndOf
    <2>7. \A n \in 0 .. Len(sent) : Decoded(n) => Decoded(n)'
      BY <1>2, <1>3, DecodedKept
    <2>. QED  BY <2>3, <2>4, <2>5, <2>6, <2>7
  <1>13. Cardinality(Begun(F[0], P[0]))' = Cardinality(Begun(F[0], P[0]))
    <2>1. /\ F[0] \in 0 .. Len(sent) /\ P[0] \in Nat
      BY <1>1, <1>2, <1>7 DEF IsPlace
    <2>2. UpTo(ReportsAt, F[0])' = UpTo(ReportsAt, F[0])
      BY <1>2, <1>3, <2>1, SetsKept
    <2>3. ReportsAt \subseteq Nat /\ ReportsAt' \subseteq Nat
      BY <1>2, <1>3 DEF ReportsAt
    <2>4. \A i \in Nat : ~Before(F[0], P[0], i, 3) => i <= F[0]
      BY <2>1 DEF Before
    <2>5. Begun(F[0], P[0]) = {i \in UpTo(ReportsAt, F[0]) : ~Before(F[0], P[0], i, 3)}
      BY <2>3, <2>4 DEF Begun, UpTo
    <2>6. Begun(F[0], P[0])' = {i \in UpTo(ReportsAt, F[0])' : ~Before(F[0], P[0], i, 3)}
      <3>1. Begun(F[0], P[0])' = {i \in ReportsAt' : ~Before(F[0], P[0], i, 3)}
        BY DEF Begun, Before
      <3>2. UpTo(ReportsAt, F[0])' = {i \in ReportsAt' : i <= F[0]}
        BY DEF UpTo
      <3>. QED  BY <2>3, <2>4, <3>1, <3>2
    <2>. QED  BY <2>2, <2>5, <2>6
  <1>14. At(F[0], P[0])'
    <2>1. Produced' = Produced /\ InReport' = InReport
      BY <1>2 DEF Produced, InReport, parserVars
    <2>. QED  BY <1>1, <1>12, <1>13, <2>1 DEF At, KindIsUnique
  <1>15. CASE uart' = uart /\ lost' # 0
    <2>1. Line(F, P)'
      <3>1. ~Before(Len(sent'), pos', F[Len(uart)], P[Len(uart)])
        BY <1>1, <1>2, <1>3, <1>7 DEF Before
      <3>2. Line(F, P)' <=> /\ \A i \in 0 .. Len(uart') : IsPlace(F[i], P[i])'
                            /\ \A i \in 1 .. Len(uart') : /\ Before(F[i - 1], P[i - 1], F[i], P[i])
                                                          /\ uart'[i] = sent'[F[i]][P[i]]
                            /\ ~Before(Len(sent'), pos', F[Len(uart')], P[Len(uart')])
        BY DEF Line, Before
      <3>. QED  BY <1>7, <1>9, <1>10, <1>15, <3>1, <3>2
    <2>2. LineTypes'
      <3>1. lost' \in Nat
        BY <1>2 DEF SendByte
      <3>2. pos' \in 0 .. EndOf(Len(sent))' /\ pos' > 0
        BY <1>3, <1>5, <1>6
      <3>. QED  BY <1>2, <1>3, <1>15, <3>1, <3>2 DEF LineTypes
    <2>. QED  BY <1>1, <1>4, <1>14, <1>15, <2>1, <2>2 DEF KbdInv
  <1>16. CASE uart' = Append(uart, sent'[Len(sent')][pos']) /\ lost' = lost
    <2>1. PICK L : L = Len(uart)
      OBVIOUS
    <2>2. /\ L \in Nat /\ Len(uart') = L + 1 /\ uart' \in Seq(Byte) /\ uart'[L + 1] = sent'[Len(sent')][pos']
          /\ \A i \in 1 .. L : uart'[i] = uart[i]
      BY <1>2, <1>6, <1>16, <2>1
    <2>3. PICK G, Q : /\ G = [i \in 0 .. L + 1 |-> IF i <= L THEN F[i] ELSE Len(sent')]
                      /\ Q = [i \in 0 .. L + 1 |-> IF i <= L THEN P[i] ELSE pos']
      OBVIOUS
    <2>4. /\ \A i \in 0 .. L : G[i] = F[i] /\ Q[i] = P[i]
          /\ G[L + 1] = Len(sent') /\ Q[L + 1] = pos'
      BY <2>2, <2>3
    <2>5. G \in [0 .. Len(uart') -> Nat] /\ Q \in [0 .. Len(uart') -> Nat]
      BY <1>1, <1>3, <1>6, <2>1, <2>2, <2>3
    <2>6. \A i \in 0 .. L + 1 : IsPlace(G[i], Q[i])'
      <3>1. IsPlace(Len(sent), pos)'
        BY <1>3, <1>5, <1>6 DEF IsPlace
      <3>2. IsPlace(G[L + 1], Q[L + 1])'
        BY <2>4, <3>1 DEF IsPlace, EndOf
      <3>3. \A i \in 0 .. L : IsPlace(G[i], Q[i])'
        BY <1>9, <2>1, <2>4
      <3>. QED  BY <2>2, <3>2, <3>3
    <2>7. \A i \in 1 .. L + 1 : /\ Before(G[i - 1], Q[i - 1], G[i], Q[i])
                                /\ uart'[i] = sent'[G[i]][Q[i]]
      <3>1. ASSUME NEW i \in 1 .. L
            PROVE  /\ Before(G[i - 1], Q[i - 1], G[i], Q[i])
                   /\ uart'[i] = sent'[G[i]][Q[i]]
        <4>1. i \in 0 .. L /\ i - 1 \in 0 .. L
          BY <2>2
        <4>2. G[i] = F[i] /\ Q[i] = P[i] /\ G[i - 1] = F[i - 1] /\ Q[i - 1] = P[i - 1]
          BY <2>4, <4>1
        <4>. QED  BY <1>7, <1>10, <2>1, <2>2, <4>2
      <3>2. Before(G[L], Q[L], G[L + 1], Q[L + 1])
        <4>1. L \in 0 .. L /\ F[L] \in Nat /\ P[L] \in Nat
          BY <1>1, <2>1, <2>2
        <4>. QED  BY <1>7, <1>11, <2>1, <2>4, <4>1
      <3>3. L + 1 - 1 = L
        BY <2>2
      <3>. QED  BY <2>2, <2>4, <3>1, <3>2, <3>3
    <2>8. ~Before(Len(sent'), pos', G[L + 1], Q[L + 1])
      BY <1>3, <1>6, <2>4 DEF Before
    <2>9. Line(G, Q)'
      <3>1. Line(G, Q)' <=> /\ \A i \in 0 .. Len(uart') : IsPlace(G[i], Q[i])'
                            /\ \A i \in 1 .. Len(uart') : /\ Before(G[i - 1], Q[i - 1], G[i], Q[i])
                                                          /\ uart'[i] = sent'[G[i]][Q[i]]
                            /\ ~Before(Len(sent'), pos', G[Len(uart')], Q[Len(uart')])
        BY DEF Line, Before
      <3>. QED  BY <2>2, <2>6, <2>7, <2>8, <3>1
    <2>10. lost' = 0 => Unbroken(G, Q)'
      <3>1. SUFFICES ASSUME lost = 0
                     PROVE  Unbroken(G, Q)'
        BY <1>16
      <3>2. /\ \A i \in 1 .. L : Follows(F[i - 1], P[i - 1], F[i], P[i])
            /\ F[L] = Len(sent) /\ P[L] = pos
        BY <1>1, <2>1, <3>1 DEF Unbroken
      <3>3. ASSUME NEW i \in 1 .. L
            PROVE  Follows(G[i - 1], Q[i - 1], G[i], Q[i])'
        <4>1. i \in 0 .. L /\ i - 1 \in 0 .. L
          BY <2>2
        <4>2. G[i] = F[i] /\ Q[i] = P[i] /\ G[i - 1] = F[i - 1] /\ Q[i - 1] = P[i - 1]
          BY <2>4, <4>1
        <4>3. EndOf(F[i - 1])' = EndOf(F[i - 1])
          BY <1>8, <1>9, <2>1, <4>1
        <4>. QED  BY <3>2, <4>2, <4>3 DEF Follows
      <3>4. Follows(G[L], Q[L], G[L + 1], Q[L + 1])'
        <4>1. G[L] = Len(sent) /\ Q[L] = pos /\ Len(sent) \in 0 .. Len(sent)
          BY <1>2, <2>2, <2>4, <3>2
        <4>2. EndOf(G[L])' = EndOf(Len(sent))
          BY <1>8, <4>1
        <4>3. Follows(Len(sent), pos, Len(sent'), pos')
          BY <1>3
        <4>. QED  BY <2>4, <4>1, <4>2, <4>3 DEF Follows
      <3>5. \A i \in 1 .. L + 1 : Follows(G[i - 1], Q[i - 1], G[i], Q[i])'
        <4>1. L + 1 - 1 = L
          BY <2>2
        <4>. QED  BY <2>2, <3>3, <3>4, <4>1
      <3>. QED  BY <2>2, <2>4, <3>5 DEF Unbroken
    <2>11. At(G[0], Q[0])'
      <3>1. G[0] = F[0] /\ Q[0] = P[0]
        BY <2>2, <2>4
      <3>. QED  BY <1>14, <3>1
    <2>12. LineTypes'
      <3>1. pos' \in 0 .. EndOf(Len(sent))' /\ pos' > 0
        BY <1>3, <1>5, <1>6
      <3>. QED  BY <1>2, <1>3, <1>16, <2>2, <3>1 DEF LineTypes
    <2>. QED  BY <1>4, <2>5, <2>9, <2>10, <2>11, <2>12 DEF KbdInv
  <1>17. \/ uart' = Append(uart, sent'[Len(sent')][pos']) /\ lost' = lost
         \/ uart' = uart /\ lost' = lost + 1
    BY <1>3 DEF SendByte
  <1>. QED  BY <1>2, <1>15, <1>16, <1>17

-----------------------------------------------------------------------------
(* The theorems.                                                           *)

LEMMA InitKbdInv == Init => KbdInv
  <1> SUFFICES ASSUME Init PROVE KbdInv
    OBVIOUS
  <1>1. /\ sent = <<>> /\ uart = <<>> /\ pos = 0 /\ lost = 0 /\ typed = <<>> /\ pending = NoChar
        /\ state = "hdr1" /\ caps = FALSE /\ capsHeld = FALSE
        /\ Len(sent) = 0 /\ Len(uart) = 0
    BY DEF Init
  <1>2. ParserTypes
    <2>1. 0 \in Byte /\ <<>> \in Seq(Chars)
      BY DEF Byte
    <2>. QED  BY <2>1 DEF Init, ParserTypes, States, Mods
  <1>3. LineTypes
    BY <1>1 DEF LineTypes, EndOf
  <1>4. PICK F, P : F = [i \in 0 .. 0 |-> 0] /\ P = [i \in 0 .. 0 |-> 0]
    OBVIOUS
  <1>5. F \in [0 .. Len(uart) -> Nat] /\ P \in [0 .. Len(uart) -> Nat] /\ F[0] = 0 /\ P[0] = 0
    BY <1>1, <1>4
  <1>6. Line(F, P) /\ Unbroken(F, P)
    BY <1>1, <1>5 DEF Line, Unbroken, IsPlace, EndOf, Before
  <1>7. ReportsAt = {} /\ TypingAt = {} /\ PressedAt = {}
    BY <1>1 DEF ReportsAt, TypingAt, PressedAt
  <1>8. \A n : UpTo(ReportsAt, n) = {} /\ UpTo(TypingAt, n) = {} /\ UpTo(PressedAt, n) = {}
    BY <1>7 DEF UpTo
  <1>9. Cardinality({}) = 0
    BY FS_EmptySet
  <1>10. Produced = <<>> /\ Len(Produced) = 0
    BY <1>1 DEF Produced
  <1>11. At(0, 0)
    <2>1. InStep(0, 0)
      BY <1>1 DEF InStep
    <2>2. Decoded(Taken(0, 0))
      <3> DEFINE n == Taken(0, 0)
      <3> HIDE DEF n
      <3>1. KeysOf(n) /\ ModsOf(n)
        BY <1>8, <1>9, <1>10 DEF KeysOf, ModsOf
      <3>2. 0 % 2 # 1
        OBVIOUS
      <3>3. CapsOf(n)
        BY <1>1, <1>8, <1>9, <3>2 DEF CapsOf
      <3>. QED  BY <3>1, <3>3 DEF Decoded, n
    <2>3. InReport = 0 /\ Begun(0, 0) = {}
      BY <1>1, <1>7 DEF InReport, Begun
    <2>. QED  BY <1>9, <1>10, <2>1, <2>2, <2>3 DEF At
  <1>. QED  BY <1>2, <1>3, <1>5, <1>6, <1>11 DEF KbdInv

\* The places of the bytes and the state of kbd_poll and of the decoder they
\* determine: the invariant the other theorems follow from.
THEOREM ReaderInvariant == Spec => []KbdInv
  <1>1. KbdInv /\ [Next]_vars => KbdInv'
    BY PollByteKbdInv, PollEndKbdInv, GetCharKbdInv, SendByteKbdInv DEF Next, Core1
  <1>. QED  BY <1>1, InitKbdInv, PTL DEF Spec

\* With nothing lost the decoder has seen the first frames; when the line is
\* drained it has seen all.
LEMMA WhatIsDecoded ==
  ASSUME KbdInv, lost = 0
  PROVE  \E n \in 0 .. Len(sent) : /\ Decoded(n)
                                   /\ Drained => n = Len(sent) /\ state = "hdr1"
  <1>1. PICK F, P \in [0 .. Len(uart) -> Nat] : Line(F, P) /\ At(F[0], P[0]) /\ Unbroken(F, P)
    BY DEF KbdInv
  <1>2. Len(uart) \in Nat /\ Len(sent) \in Nat /\ sent \in Seq(Frames)
    BY DEF KbdInv, LineTypes
  <1>3. /\ InStep(F[0], P[0]) /\ Decoded(Taken(F[0], P[0])) /\ IsPlace(F[0], P[0])
    BY <1>1, <1>2 DEF At, Line
  <1>4. Taken(F[0], P[0]) \in 0 .. Len(sent)
    BY <1>2, <1>3 DEF Taken, IsPlace, EndOf
  <1>5. ASSUME Drained
        PROVE  Taken(F[0], P[0]) = Len(sent) /\ state = "hdr1"
    <2>1. Len(uart) = 0 /\ F[0] = Len(sent) /\ P[0] = pos
      BY <1>1, <1>5 DEF Drained, Unbroken
    <2>2. pos = EndOf(Len(sent))
      BY <1>2, <1>5 DEF Drained, FrameDone, EndOf, Last
    <2>. QED  BY <1>3, <2>1, <2>2 DEF Taken, InStep, StateAt, EndOf
  <1>. QED  BY <1>3, <1>4, <1>5

\* As long as the UART loses nothing, kbd_poll and kbd_finish_0x88 make of the
\* frames the characters of their reports, each once and in order.
THEOREM KeysAreInOrder == Spec => []KeysInOrder
  <1>1. KbdInv => KeysInOrder
    <2> SUFFICES ASSUME KbdInv, lost = 0
                 PROVE  /\ Len(Produced) <= Cardinality(TypingAt)
                        /\ \A i \in TypingAt :
                             Cardinality(UpTo(TypingAt, i)) <= Len(Produced) =>
                               Produced[Cardinality(UpTo(TypingAt, i))][2] = Rep(i)[4]
      BY DEF KeysInOrder
    <2>1. PICK n \in 0 .. Len(sent) : Decoded(n)
      BY WhatIsDecoded
    <2>2. sent \in Seq(Frames) /\ TypingAt \in SUBSET DOMAIN sent /\ n \in Nat
      BY SetsOfFrames DEF KbdInv, LineTypes
    <2>3. Len(Produced) = Cardinality(UpTo(TypingAt, n))
      BY <2>1 DEF Decoded, KeysOf
    <2>4. /\ Cardinality(UpTo(TypingAt, n)) <= Cardinality(TypingAt)
          /\ Cardinality(UpTo(TypingAt, n)) \in Nat
      BY <2>2, UpToFinite
    <2>5. ASSUME NEW i \in TypingAt, Cardinality(UpTo(TypingAt, i)) <= Len(Produced)
          PROVE  Produced[Cardinality(UpTo(TypingAt, i))][2] = Rep(i)[4]
      <3>1. i \in Nat
        BY <2>2
      <3>2. Cardinality(UpTo(TypingAt, i)) \in Nat
        BY <2>2, <3>1, UpToFinite
      <3>3. ~(n < i)
        BY <2>2, <2>3, <2>4, <2>5, <3>2, UpToMore
      <3>4. i \in UpTo(TypingAt, n)
        BY <2>2, <3>1, <3>3 DEF UpTo
      <3>. QED  BY <2>1, <3>4 DEF Decoded, KeysOf
    <2>. QED  BY <2>3, <2>4, <2>5
  <1>. QED  BY <1>1, ReaderInvariant, PTL

\* After whole frames kbd_poll waits for a header, whatever their kinds and
\* lengths.
THEOREM ParserIsBackInStep == Spec => []BackInStep
  <1>1. KbdInv => BackInStep
    BY WhatIsDecoded DEF BackInStep
  <1>. QED  BY <1>1, ReaderInvariant, PTL

\* The LED and the tables follow the presses of Caps Lock, each counted once
\* however often its report is repeated.
THEOREM CapsFollows == Spec => []CapsFollowsPresses
  <1>1. KbdInv => CapsFollowsPresses
    <2> SUFFICES ASSUME KbdInv PROVE CapsFollowsPresses
      OBVIOUS
    <2>1. led = caps
      BY DEF KbdInv, ParserTypes
    <2>2. ASSUME lost = 0, Drained
          PROVE  caps <=> Cardinality(PressedAt) % 2 = 1
      <3>1. Decoded(Len(sent))
        BY <2>2, WhatIsDecoded
      <3>2. UpTo(PressedAt, Len(sent)) = PressedAt
        BY SetsOfFrames DEF UpTo, KbdInv, LineTypes
      <3>. QED  BY <3>1, <3>2 DEF Decoded, CapsOf
    <2>. QED  BY <2>1, <2>2 DEF CapsFollowsPresses
  <1>. QED  BY <1>1, ReaderInvariant, PTL

\* A release report ends every modifier, whatever came before it.
THEOREM ReleaseEndsModifiers == Spec => []ReleasedMeansNoModifier
  <1>1. KbdInv => ReleasedMeansNoModifier
    <2> SUFFICES ASSUME KbdInv, lost = 0, Drained, LastReleased PROVE mods = None
      BY DEF ReleasedMeansNoModifier
    <2>1. Decoded(Len(sent))
      BY WhatIsDecoded
    <2>2. UpTo(ReportsAt, Len(sent)) = ReportsAt
      BY SetsOfFrames DEF UpTo, KbdInv, LineTypes
    <2>. QED  BY <2>1, <2>2 DEF Decoded, ModsOf, LastReleased
  <1>. QED  BY <1>1, ReaderInvariant, PTL

\* Whatever bytes the UART loses, and however the frames then run into one
\* another, a report gives one character at most, if the byte that names a
\* report stands nowhere else in the frames.
THEOREM NoKeysMadeUp ==
  ASSUME KindIsUnique
  PROVE  Spec => []NoExtraKeys
  <1>1. KbdInv => NoExtraKeys
    <2> SUFFICES ASSUME KbdInv PROVE NoExtraKeys
      OBVIOUS
    <2>1. PICK F, P \in [0 .. Len(uart) -> Nat] : At(F[0], P[0])
      BY DEF KbdInv
    <2>2. Len(Produced) + InReport <= Cardinality(Begun(F[0], P[0]))
      BY <2>1 DEF At
    <2>3. /\ sent \in Seq(Frames) /\ ReportsAt \in SUBSET DOMAIN sent /\ 0 \in Nat
          /\ typed \in Seq(Chars) /\ pending \in Chars \cup {NoChar}
      BY SetsOfFrames DEF KbdInv, LineTypes, ParserTypes
    <2>4. IsFiniteSet(ReportsAt) /\ Cardinality(ReportsAt) \in Nat
      BY <2>3, UpToFinite
    <2>5. Begun(F[0], P[0]) \subseteq ReportsAt
      BY DEF Begun
    <2>6. /\ IsFiniteSet(Begun(F[0], P[0]))
          /\ Cardinality(Begun(F[0], P[0])) <= Cardinality(ReportsAt)
      BY <2>4, <2>5, FS_Subset
    <2>7. Cardinality(Begun(F[0], P[0])) \in Nat
      BY <2>6, FS_CardinalityType
    <2>8. Len(Produced) \in Nat
      <3>1. CASE pending = NoChar
        BY <2>3, <3>1, ProducedIs
      <3>2. CASE pending # NoChar
        BY <2>3, <3>2, ProducedIs
      <3>. QED  BY <3>1, <3>2
    <2>9. InReport \in {0, 1}
      BY DEF InReport
    <2>. QED  BY <2>2, <2>4, <2>6, <2>7, <2>8, <2>9 DEF NoExtraKeys
  <1>. QED  BY <1>1, ReaderInvariant, PTL
=============================================================================
