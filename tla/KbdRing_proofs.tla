--------------------------- MODULE KbdRing_proofs ---------------------------
(***************************************************************************)
(* Proofs about KbdRing for every ring size, every set of bytes and every  *)
(* number of interrupts.                                                   *)
(***************************************************************************)
EXTENDS KbdRing, Integers, SequenceTheorems, TLAPS

\* An increment of an index stays inside the ring.
LEMMA IncInIndex == \A i \in Index : Inc(i) \in Index
  BY SizeAssumption DEF Index, Inc

\* The counts and the slots, typed: what the arithmetic below rests on.
LEMMA Types ==
  ASSUME TypeOK
  PROVE  /\ Len(stored) \in Nat /\ Len(got) \in Nat /\ Pending \in Int
         /\ head \in 0 .. Size - 1 /\ tail \in 0 .. Size - 1
         /\ Size \in Nat /\ Size >= 2
         /\ Slot(0) = tail
  BY SizeAssumption DEF TypeOK, Index, Pending, Slot

\* Two waiting bytes never share a slot, nor one of them the slot at head.
LEMMA SlotsApart ==
  ASSUME NEW n \in 0 .. Size - 1, NEW k \in 0 .. n, tail \in 0 .. Size - 1
  PROVE  /\ Slot(k) \in Index
         /\ Slot(k) = Slot(n) <=> k = n
  BY SizeAssumption DEF Slot, Index

\* One past the n-th slot is the next slot, or tail again when n is the last.
LEMMA SlotAfter ==
  ASSUME NEW n \in 0 .. Size - 1, tail \in 0 .. Size - 1
  PROVE  /\ Inc(Slot(n)) = tail <=> n = Size - 1
         /\ n # Size - 1 => Inc(Slot(n)) = Slot(n + 1)
  BY SizeAssumption DEF Slot, Inc

\* Moving tail by one makes the slot after it the first.
LEMMA SlotShift ==
  ASSUME NEW k \in 0 .. Size - 2, tail \in 0 .. Size - 1, tail' = Inc(tail)
  PROVE  Slot(k)' = Slot(k + 1)
  BY SizeAssumption DEF Slot, Inc

\* The invariant holds at reset, with anything in the uninitialised array.
LEMMA InitRingInv == Init => RingInv
  BY SizeAssumption, MaxTypedAssumption
     DEF Init, RingInv, TypeOK, BaseInv, ResetInv, HeadInv, SlotsInv, GetInv,
         Index, Places, InitPlaces, DeliveredInOrder, Started, Pending, Slot

\* ring_buf_init keeps the invariant, whatever bytes arrived before it.
LEMMA InitStepsRingInv ==
  ASSUME RingInv, InitBuffer \/ InitHead \/ InitTail
  PROVE  RingInv'
  <1> USE SizeAssumption
      DEF RingInv, TypeOK, BaseInv, ResetInv, HeadInv, SlotsInv, GetInv, Index,
          Places, InitPlaces, DeliveredInOrder, Started, Pending, Slot
  <1>1. CASE InitBuffer
    BY <1>1 DEF InitBuffer
  <1>2. CASE InitHead
    BY <1>2 DEF InitHead
  <1>3. CASE InitTail
    BY <1>3 DEF InitTail
  <1>4. QED
    BY <1>1, <1>2, <1>3

\* The first waiting byte is the one at tail.
LEMMA FirstWaiting ==
  ASSUME RingInv, pc \in {"get_load", "get_inc"}
  PROVE  /\ Pending \in 1 .. Size - 1
         /\ head # tail
         /\ buffer[tail] = stored[Len(got) + 1]
  <1>1. Pending \in 1 .. Size - 1 /\ head = Slot(Pending) /\ Slot(0) = tail
    BY Types DEF RingInv, HeadInv, GetInv, Started
  <1>2. head # tail
    BY <1>1, Types, SlotsApart DEF RingInv
  <1>3. 0 \in 0 .. Pending - 1
    BY <1>1
  <1>4. buffer[Slot(0)] = stored[Len(got) + 0 + 1]
    BY <1>3 DEF RingInv, SlotsInv, Started
  <1>5. QED
    BY <1>1, <1>2, <1>4, Types DEF RingInv

\* The test and the two halves of a get keep the invariant.
LEMMA GetStepsRingInv ==
  ASSUME RingInv, GetCharTest \/ GetLoad \/ GetInc
  PROVE  RingInv'
  <1>1. CASE GetCharTest
    <2>1. Pending > 0
      BY <1>1, Types DEF GetCharTest, IsEmpty, RingInv, HeadInv, Started
    <2>2. QED
      BY <1>1, <2>1
         DEF GetCharTest, RingInv, TypeOK, BaseInv, ResetInv, HeadInv, SlotsInv,
             GetInv, DeliveredInOrder, Places, InitPlaces, Started, Pending, Slot
  <1>2. CASE GetLoad
    BY <1>2 DEF GetLoad, RingInv, TypeOK, BaseInv, ResetInv, HeadInv, SlotsInv,
         GetInv, DeliveredInOrder, Places, InitPlaces, Started, Pending, Slot, Index
  <1>3. CASE GetInc
    <2>1. /\ pc = "get_inc" /\ Started /\ ret = stored[Len(got) + 1]
          /\ Pending \in 1 .. Size - 1 /\ head = Slot(Pending)
      BY <1>3, FirstWaiting DEF GetInc, RingInv, GetInv, HeadInv, Started
    <2>2. /\ Len(got') = Len(got) + 1 /\ Pending' = Pending - 1
          /\ \A i \in 1 .. Len(got) : got'[i] = got[i]
          /\ got'[Len(got) + 1] = ret
      BY <1>3 DEF GetInc, RingInv, TypeOK, Pending
    <2>3. TypeOK'
      BY <1>3, IncInIndex DEF GetInc, RingInv, TypeOK, Places
    <2>4. DeliveredInOrder'
      <3>1. Len(got') <= Len(stored')
        BY <1>3, <2>1, <2>2, Types DEF GetInc, Pending, RingInv
      <3>2. ASSUME NEW i \in 1 .. Len(got')
            PROVE  got'[i] = stored'[i]
        <4>1. CASE i = Len(got) + 1
          BY <1>3, <2>1, <2>2, <4>1 DEF GetInc
        <4>2. CASE i \in 1 .. Len(got)
          BY <1>3, <2>2, <4>2 DEF GetInc, RingInv, DeliveredInOrder
        <4>3. QED
          BY <2>2, <4>1, <4>2, Types DEF RingInv
      <3>3. QED
        BY <3>1, <3>2 DEF DeliveredInOrder
    <2>5. \A k \in 0 .. Pending' : Slot(k)' = Slot(k + 1)
      BY <1>3, <2>1, <2>2, Types, SlotShift DEF GetInc, RingInv
    <2>6. HeadInv'
      <3>1. Pending' \in 0 .. Pending'
        BY <2>1, <2>2
      <3>2. Slot(Pending)' = Slot(Pending' + 1)
        BY <2>5, <3>1 DEF Slot
      <3>3. QED
        BY <1>3, <2>1, <2>2, <3>2, Types DEF GetInc, HeadInv, RingInv
    <2>7. SlotsInv'
      <3> SUFFICES ASSUME NEW k \in 0 .. Pending' - 1
                   PROVE  buffer'[Slot(k)'] = stored'[Len(got') + k + 1]
        BY DEF SlotsInv
      <3>1. k + 1 \in 0 .. Pending - 1 /\ k \in 0 .. Pending'
        BY <2>1, <2>2
      <3>2. buffer[Slot(k + 1)] = stored[Len(got) + (k + 1) + 1]
        BY <2>1, <3>1 DEF RingInv, SlotsInv
      <3>3. Len(got') + k + 1 = Len(got) + (k + 1) + 1
        BY <2>2, <3>1, Types DEF RingInv
      <3>4. QED
        BY <1>3, <2>5, <3>1, <3>2, <3>3 DEF GetInc
    <2>8. QED
      BY <1>3, <2>3, <2>4, <2>6, <2>7
         DEF GetInc, RingInv, BaseInv, ResetInv, GetInv, InitPlaces
  <1>4. QED
    BY <1>1, <1>2, <1>3

\* The interrupt handler keeps the invariant at every place of the main
\* program, a full buffer included.
LEMMA Int3RingInv ==
  ASSUME RingInv, NEW c \in Byte, Int3(c)
  PROVE  RingInv'
  <1>1. CASE IsFull /\ UNCHANGED <<buffer, head, stored>>
    BY <1>1, MaxTypedAssumption
       DEF Int3, RingInv, TypeOK, BaseInv, ResetInv, HeadInv, SlotsInv, GetInv,
           DeliveredInOrder, Started, Pending, Slot
  <1>2. CASE /\ ~IsFull
             /\ buffer' = IF base = "array" THEN [buffer EXCEPT ![head] = c] ELSE buffer
             /\ stored' = Append(stored, c)
             /\ head' = Inc(head)
    <2>1. /\ Len(stored') = Len(stored) + 1 /\ Pending' = Pending + 1
          /\ \A i \in 1 .. Len(stored) : stored'[i] = stored[i]
          /\ stored'[Len(stored) + 1] = c
      BY <1>2 DEF Int3, RingInv, TypeOK, Pending
    <2>2. TypeOK'
      BY <1>2, IncInIndex, MaxTypedAssumption DEF Int3, RingInv, TypeOK
    <2>3. DeliveredInOrder'
      BY <2>1, Types DEF Int3, RingInv, DeliveredInOrder
    <2>4. \A k \in 0 .. Size - 1 : Slot(k)' = Slot(k)
      BY DEF Int3, Slot
    <2>5. HeadInv'
      <3> SUFFICES ASSUME Started
                   PROVE  Pending' \in 0 .. Size - 1 /\ head' = Slot(Pending)'
        BY DEF HeadInv, Int3, Started
      <3>1. Pending \in 0 .. Size - 1 /\ head = Slot(Pending)
        BY DEF RingInv, HeadInv
      <3>2. Pending # Size - 1
        BY <1>2, <3>1, Types, SlotAfter DEF IsFull, RingInv
      <3>3. QED
        <4>1. head' = Slot(Pending + 1) /\ Pending + 1 \in 0 .. Size - 1
          BY <1>2, <3>1, <3>2, Types, SlotAfter DEF RingInv
        <4>2. Slot(Pending)' = Slot(Pending + 1)
          BY <2>1 DEF Slot, Int3
        <4>3. QED
          BY <2>1, <4>1, <4>2
    <2>6. SlotsInv'
      <3> SUFFICES ASSUME Started, NEW k \in 0 .. Pending' - 1
                   PROVE  buffer'[Slot(k)'] = stored'[Len(got') + k + 1]
        BY DEF SlotsInv, Int3, Started
      <3>1. Pending \in 0 .. Size - 1 /\ head = Slot(Pending) /\ k \in 0 .. Pending
        BY <2>1 DEF RingInv, HeadInv
      <3>2. /\ Slot(k)' = Slot(k) /\ Slot(k) \in Index
            /\ Slot(k) = head <=> k = Pending
        BY <2>4, <3>1, SlotsApart, Types DEF RingInv
      <3>3. buffer' = [buffer EXCEPT ![head] = c] /\ buffer \in [Index -> Byte]
        BY <1>2 DEF RingInv, BaseInv, TypeOK, Started
      <3>4. CASE k = Pending
        <4>1. Len(got') + k + 1 = Len(stored) + 1
          BY <3>4, Types DEF Int3, Pending, RingInv
        <4>2. QED
          BY <2>1, <3>2, <3>3, <3>4, <4>1
      <3>5. CASE k # Pending
        <4>1. k \in 0 .. Pending - 1
          BY <3>1, <3>5
        <4>2. Len(got) + k + 1 \in 1 .. Len(stored) /\ got' = got
          BY <4>1, Types DEF Int3, Pending, RingInv
        <4>3. buffer[Slot(k)] = stored[Len(got) + k + 1]
          BY <4>1 DEF RingInv, SlotsInv
        <4>4. QED
          BY <2>1, <3>2, <3>3, <3>5, <4>2, <4>3
      <3>6. QED
        BY <3>4, <3>5
    <2>7. GetInv'
      <3> SUFFICES ASSUME pc \in {"get_load", "get_inc"}
                   PROVE  /\ Pending' > 0
                          /\ pc = "get_inc" => ret' = buffer'[tail']
        BY DEF GetInv, Int3
      <3>1. Pending > 0 /\ head # tail
        BY FirstWaiting
      <3>2. QED
        BY <1>2, <2>1, <3>1, Types DEF Int3, RingInv, GetInv, TypeOK, Index
    <2>8. QED
      BY <2>2, <2>3, <2>5, <2>6, <2>7 DEF Int3, RingInv, BaseInv, ResetInv
  <1>3. QED
    BY <1>1, <1>2 DEF Int3, Put

\* The ring invariant holds in every behaviour, for every size of the ring,
\* every set of bytes and every number of interrupts.
THEOREM RingInvariant == Spec => []RingInv
  <1>1. RingInv /\ [Next]_vars => RingInv'
    <2> SUFFICES ASSUME RingInv, [Next]_vars
                 PROVE  RingInv'
      OBVIOUS
    <2>1. CASE UNCHANGED vars
      BY <2>1 DEF vars, RingInv, TypeOK, BaseInv, ResetInv, HeadInv, SlotsInv,
         GetInv, DeliveredInOrder, Started, Pending, Slot
    <2>2. QED
      BY <2>1, InitStepsRingInv, GetStepsRingInv, Int3RingInv DEF Next, Main
  <1>2. QED
    BY InitRingInv, <1>1, PTL DEF Spec

\* Every variable of the ring keeps its type: no index leaves the array.
THEOREM TypeCorrect == Spec => []TypeOK
  <1>1. RingInv => TypeOK
    BY DEF RingInv
  <1>2. QED
    BY <1>1, RingInvariant, PTL

\* ring_buf_get_char returns the bytes put, in order, none lost or invented.
THEOREM InOrder == Spec => []DeliveredInOrder
  <1>1. RingInv => DeliveredInOrder
    BY DEF RingInv
  <1>2. QED
    BY <1>1, RingInvariant, PTL

\* The slot ring_buf_get is reading is neither emptied nor overwritten by an
\* interrupt that arrives in the middle of it.
THEOREM SlotHeld == Spec => []SlotHeldWhileRead
  <1>1. RingInv => SlotHeldWhileRead
    BY FirstWaiting DEF SlotHeldWhileRead, IsEmpty, RingInv, GetInv
  <1>2. QED
    BY <1>1, RingInvariant, PTL

\* The interrupt handler refuses a byte only when Size - 1 bytes wait.
THEOREM NoEarlyDrop == Spec => DropOnlyWhenFull
  <1>1. RingInv /\ [Next]_vars =>
          [(Started /\ typed' # typed /\ stored' = stored)
              => Len(stored) - Len(got) = Size - 1]_vars
    <2> SUFFICES ASSUME RingInv, Next, Started, typed' # typed, stored' = stored
                 PROVE  Pending = Size - 1
      BY DEF Pending
    <2>1. PICK c \in Byte : Int3(c)
      BY DEF Next, Main, InitBuffer, InitHead, InitTail, GetCharTest, GetLoad, GetInc
    <2>2. Len(Append(stored, c)) = Len(stored) + 1
      BY DEF RingInv, TypeOK
    <2>3. IsFull
      BY <2>1, <2>2, Types DEF RingInv, Int3, Put
    <2>4. Pending \in 0 .. Size - 1 /\ head = Slot(Pending)
      BY DEF RingInv, HeadInv
    <2>5. QED
      BY <2>3, <2>4, Types, SlotAfter DEF RingInv, IsFull
  <1>2. QED
    BY <1>1, RingInvariant, PTL DEF Spec, DropOnlyWhenFull

\* The queue of the abstract FIFO: what waits, once ring_buf_init has reset
\* head.
Queue == IF Started THEN Waiting ELSE <<>>

\* What is left of a sequence of stored bytes after some were returned.
Remaining(s, g) == [i \in 1 .. Len(s) - Len(g) |-> s[Len(g) + i]]

\* What is left is a sequence, as long as the difference of the two.
LEMMA RemainingIsSeq ==
  ASSUME NEW s \in Seq(Byte), NEW g \in Seq(Byte), Len(g) <= Len(s)
  PROVE  /\ Remaining(s, g) \in Seq(Byte)
         /\ Len(Remaining(s, g)) = Len(s) - Len(g)
         /\ \A i \in 1 .. Len(s) - Len(g) : Remaining(s, g)[i] = s[Len(g) + i]
  <1> DEFINE n == Len(s) - Len(g)
  <1>1. n \in Nat /\ Len(s) \in Nat /\ Len(g) \in Nat
    OBVIOUS
  <1>2. \A i \in 1 .. n : s[Len(g) + i] \in Byte
    <2> SUFFICES ASSUME NEW i \in 1 .. n
                 PROVE  s[Len(g) + i] \in Byte
      OBVIOUS
    <2>1. Len(g) + i \in 1 .. Len(s)
      BY <1>1
    <2>2. QED
      BY <2>1
  <1>3. Remaining(s, g) = [i \in 1 .. n |-> s[Len(g) + i]]
    BY DEF Remaining
  <1> HIDE DEF n
  <1>4. Remaining(s, g) \in [1 .. n -> Byte]
    BY <1>2, <1>3
  <1>5. Remaining(s, g) \in Seq(Byte)
    BY <1>1, <1>4, SeqDef
  <1>6. DOMAIN Remaining(s, g) = 1 .. n
    BY <1>3
  <1>7. Len(Remaining(s, g)) = n
    <2>1. Len(Remaining(s, g)) \in Nat /\ 1 .. Len(Remaining(s, g)) = 1 .. n
      BY <1>5, <1>6, LenProperties
    <2>2. QED
      BY <1>1, <2>1
  <1>8. \A i \in 1 .. n : Remaining(s, g)[i] = s[Len(g) + i]
    BY <1>3
  <1>9. QED
    BY <1>5, <1>7, <1>8 DEF n

\* The waiting bytes, before and after a step, are such a remainder.
LEMMA WaitingIsSeq ==
  ASSUME RingInv, RingInv'
  PROVE  /\ Waiting \in Seq(Byte) /\ Len(Waiting) = Pending
         /\ \A i \in 1 .. Pending : Waiting[i] = stored[Len(got) + i]
         /\ Waiting' \in Seq(Byte) /\ Len(Waiting') = Pending'
         /\ \A i \in 1 .. Pending' : Waiting'[i] = stored'[Len(got') + i]
  <1>1. Waiting = Remaining(stored, got) /\ Waiting' = Remaining(stored', got')
    BY DEF Waiting, Remaining
  <1>2. /\ stored \in Seq(Byte) /\ got \in Seq(Byte) /\ Len(got) <= Len(stored)
        /\ stored' \in Seq(Byte) /\ got' \in Seq(Byte) /\ Len(got') <= Len(stored')
    BY DEF RingInv, TypeOK, DeliveredInOrder
  <1>3. Pending = Len(stored) - Len(got) /\ Pending' = Len(stored') - Len(got')
    BY DEF Pending
  <1>4. /\ Waiting \in Seq(Byte) /\ Len(Waiting) = Pending
        /\ \A i \in 1 .. Pending : Waiting[i] = stored[Len(got) + i]
    BY <1>1, <1>2, <1>3, RemainingIsSeq
  <1>5. /\ Waiting' \in Seq(Byte) /\ Len(Waiting') = Pending'
        /\ \A i \in 1 .. Pending' : Waiting'[i] = stored'[Len(got') + i]
    BY <1>1, <1>2, <1>3, RemainingIsSeq
  <1>6. QED
    BY <1>4, <1>5

\* An accepted interrupt after ring_buf_init appends its byte to the queue.
LEMMA PutAccepts ==
  ASSUME RingInv, RingInv', NEW c \in Byte, Int3(c), Started, ~IsFull
  PROVE  /\ Len(Waiting) < Size - 1
         /\ Waiting' = Append(Waiting, c)
  <1>1. Pending \in 0 .. Size - 1 /\ head = Slot(Pending)
    BY DEF RingInv, HeadInv
  <1>2. Pending < Size - 1
    BY <1>1, Types, SlotAfter DEF RingInv, IsFull
  <1>3. /\ got' = got /\ stored' = Append(stored, c) /\ Len(stored') = Len(stored) + 1
        /\ \A i \in 1 .. Len(stored) : stored'[i] = stored[i]
        /\ stored'[Len(stored) + 1] = c
    BY DEF Int3, Put, RingInv, TypeOK
  <1>4. /\ Len(stored) \in Nat /\ Len(got) \in Nat /\ Pending' = Pending + 1
        /\ Len(got) + Pending = Len(stored)
    BY <1>3, Types DEF RingInv, Pending
  <1>5. /\ Waiting \in Seq(Byte) /\ Len(Waiting) = Pending
        /\ \A i \in 1 .. Pending : Waiting[i] = stored[Len(got) + i]
        /\ Waiting' \in Seq(Byte) /\ Len(Waiting') = Pending + 1
        /\ \A i \in 1 .. Pending + 1 : Waiting'[i] = stored'[Len(got) + i]
    BY <1>3, <1>4, WaitingIsSeq
  <1>6. /\ Append(Waiting, c) \in Seq(Byte) /\ Len(Append(Waiting, c)) = Pending + 1
        /\ \A i \in 1 .. Pending : Append(Waiting, c)[i] = Waiting[i]
        /\ Append(Waiting, c)[Pending + 1] = c
    BY <1>5, AppendProperties
  <1>7. ASSUME NEW i \in 1 .. Pending + 1
        PROVE  Waiting'[i] = Append(Waiting, c)[i]
    <2>1. CASE i = Pending + 1
      <3>1. Len(got) + i = Len(stored) + 1
        BY <1>1, <1>4, <2>1
      <3>2. QED
        BY <1>3, <1>5, <1>6, <2>1, <3>1
    <2>2. CASE i # Pending + 1
      <3>1. i \in 1 .. Pending /\ Len(got) + i \in 1 .. Len(stored)
        BY <1>1, <1>4, <2>2
      <3>2. QED
        BY <1>3, <1>5, <1>6, <3>1
    <2>3. QED
      BY <2>1, <2>2
  <1>8. Waiting' = Append(Waiting, c)
    BY <1>5, <1>6, <1>7, SeqEqual
  <1>9. QED
    BY <1>2, <1>5, <1>8

\* The end of a get takes the first byte of the queue and returns it.
LEMMA GetDelivers ==
  ASSUME RingInv, RingInv', GetInc
  PROVE  /\ Waiting # <<>>
         /\ got' = Append(got, Head(Waiting))
         /\ Waiting' = Tail(Waiting)
  <1>1. Pending \in 1 .. Size - 1 /\ ret = stored[Len(got) + 1]
    BY FirstWaiting DEF GetInc, RingInv, GetInv
  <1>2. got' = Append(got, ret) /\ stored' = stored /\ Len(got') = Len(got) + 1
    BY DEF GetInc, RingInv, TypeOK
  <1>3. Len(stored) \in Nat /\ Len(got) \in Nat /\ Pending' = Pending - 1
    BY <1>2, Types DEF RingInv, Pending
  <1>4. /\ Waiting \in Seq(Byte) /\ Len(Waiting) = Pending
        /\ \A i \in 1 .. Pending : Waiting[i] = stored[Len(got) + i]
        /\ Waiting' \in Seq(Byte) /\ Len(Waiting') = Pending - 1
        /\ \A i \in 1 .. Pending - 1 : Waiting'[i] = stored[(Len(got) + 1) + i]
    BY <1>2, <1>3, WaitingIsSeq
  <1>5. Waiting # <<>> /\ Head(Waiting) = ret
    BY <1>1, <1>4
  <1>6. /\ Tail(Waiting) \in Seq(Byte) /\ Len(Tail(Waiting)) = Pending - 1
        /\ \A i \in 1 .. Pending - 1 : Tail(Waiting)[i] = Waiting[i + 1]
    BY <1>1, <1>4, <1>5, HeadTailProperties
  <1>7. ASSUME NEW i \in 1 .. Pending - 1
        PROVE  Waiting'[i] = Tail(Waiting)[i]
    <2>1. i + 1 \in 1 .. Pending /\ (Len(got) + 1) + i = Len(got) + (i + 1)
      BY <1>1, <1>3
    <2>2. QED
      BY <1>4, <1>6, <2>1
  <1>8. Waiting' = Tail(Waiting)
    BY <1>4, <1>6, <1>7, SeqEqual
  <1>9. QED
    BY <1>2, <1>5, <1>8

\* ring_buf_init, ring_buf_get_char and the level 3 handler together behave
\* as a FIFO of Size - 1 bytes: a byte offered to a full ring is discarded,
\* an accepted one is delivered once, in its turn.
THEOREM RingIsFifo == Spec => ImplementsFifo
  <1>1. Init => Fifo!FifoInit
    BY DEF Init, Fifo!FifoInit, Started
  <1>2. RingInv /\ RingInv' /\ [Next]_vars => [Fifo!FifoNext]_Fifo!fifoVars
    <2> SUFFICES ASSUME RingInv, RingInv', [Next]_vars
                 PROVE  Fifo!FifoNext \/ (Queue' = Queue /\ got' = got)
      BY DEF Fifo!fifoVars, Queue
    <2>1. CASE UNCHANGED vars
      BY <2>1 DEF vars, Queue, Started, Waiting
    <2>2. CASE InitBuffer \/ InitTail \/ GetCharTest \/ GetLoad
      BY <2>2 DEF InitBuffer, InitTail, GetCharTest, GetLoad, Queue, Started, Waiting
    <2>3. CASE InitHead
      <3>1. Queue = <<>> /\ got' = got /\ got = <<>> /\ stored' = <<>> /\ Started'
        BY <2>3 DEF InitHead, Queue, Started, RingInv, ResetInv, InitPlaces
      <3>2. Len(stored') = 0 /\ Len(got') = 0
        BY <3>1
      <3>3. Pending' = 0
        BY <3>2 DEF Pending
      <3>4. Waiting' \in Seq(Byte) /\ Len(Waiting') = 0
        BY <3>3, WaitingIsSeq
      <3>5. Waiting' = <<>>
        BY <3>4, EmptySeq
      <3>6. QED
        BY <3>1, <3>5 DEF Queue
    <2>4. CASE GetInc
      <3>1. Started /\ Started'
        BY <2>4 DEF GetInc, Started
      <3>2. Fifo!Deliver
        BY <2>4, <3>1, GetDelivers DEF Fifo!Deliver
      <3>3. QED
        BY <3>2 DEF Fifo!FifoNext
    <2>5. ASSUME NEW c \in Byte, Int3(c)
          PROVE  Fifo!FifoNext \/ (Queue' = Queue /\ got' = got)
      <3>1. Started' = Started /\ got' = got
        BY <2>5 DEF Int3, Started
      <3>2. CASE ~Started
        BY <3>1, <3>2 DEF Queue
      <3>3. CASE Started /\ IsFull
        <4>1. stored' = stored
          BY <2>5, <3>3 DEF Int3, Put
        <4>2. QED
          BY <3>1, <4>1 DEF Queue, Waiting
      <3>4. CASE Started /\ ~IsFull
        <4>1. Fifo!Accept(c)
          BY <2>5, <3>1, <3>4, PutAccepts DEF Fifo!Accept
        <4>2. QED
          BY <4>1 DEF Fifo!FifoNext
      <3>5. QED
        BY <3>2, <3>3, <3>4
    <2>6. QED
      BY <2>1, <2>2, <2>3, <2>4, <2>5 DEF Next, Main
  <1>3. QED
    BY <1>1, <1>2, RingInvariant, PTL DEF Spec, ImplementsFifo, Fifo!FifoSpec
=============================================================================
