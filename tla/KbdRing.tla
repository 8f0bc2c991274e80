------------------------------ MODULE KbdRing ------------------------------
(***************************************************************************)
(* The keyboard ring buffer of the BIOS (drivers/kbd/ringbuffer.c), its    *)
(* producer, the level 3 interrupt handler, and its consumer, the main     *)
(* program spinning in ring_buf_get_char.                                  *)
(*                                                                         *)
(* Int3Handler raises the mask to 7 around ring_buf_put, so a put is one   *)
(* step.  ring_buf_init and ring_buf_get run with interrupts open: each of *)
(* their loads and stores is a step of its own.  head and tail are uint8_t *)
(* and RING_BUFFER_SIZE is 256, so an index wraps by itself; here they     *)
(* wrap at Size.                                                           *)
(*                                                                         *)
(* The interrupts are open before main calls ring_buf_init: until then     *)
(* rb->buffer is NULL and a byte put goes nowhere.                         *)
(***************************************************************************)
EXTENDS Naturals, Sequences

CONSTANTS Size,      \* RING_BUFFER_SIZE
          Byte,      \* the bytes the keyboard can send
          MaxTyped   \* bound: number of level 3 interrupts

ASSUME SizeAssumption == Size \in Nat /\ Size >= 2
ASSUME MaxTypedAssumption == MaxTyped \in Nat

VARIABLES
  base,     \* rb->buffer: "null" until ring_buf_init, then the static array
  buffer,   \* the static array
  head,     \* rb->head, written by the interrupt handler
  tail,     \* rb->tail, written by the main program
  pc,       \* where the main program is
  ret,      \* local variable ret of ring_buf_get
  typed,    \* interrupts taken so far (bounds the model)
  stored,   \* history: the bytes accepted since ring_buf_init reset head
  got       \* history: the bytes ring_buf_get_char has returned

vars == <<base, buffer, head, tail, pc, ret, typed, stored, got>>

Index == 0 .. Size - 1

\* Faulty variant of Inc: the index never wraps.
IncNoWrap(i) == i + 1

\* rb->head + 1 and rb->tail++ in uint8_t arithmetic.
Inc(i) == IF i = Size - 1 THEN 0 ELSE i + 1

\* The places of the main program: the three assignments of ring_buf_init,
\* the test of ring_buf_get_char, the load and the increment of ring_buf_get.
InitPlaces == {"init_buffer", "init_head", "init_tail"}
Places     == InitPlaces \cup {"is_empty", "get_load", "get_inc"}

Init ==
  /\ base = "null"
  /\ buffer \in [Index -> Byte]
  /\ head = 0 /\ tail = 0
  /\ pc = "init_buffer"
  /\ ret \in Byte
  /\ typed = 0
  /\ stored = <<>> /\ got = <<>>

-----------------------------------------------------------------------------
(* ring_buf_init, called once by main.                                     *)

InitBuffer ==
  /\ pc = "init_buffer"
  /\ base' = "array"
  /\ pc' = "init_head"
  /\ UNCHANGED <<buffer, head, tail, ret, typed, stored, got>>

\* Faulty variant of InitHead: head keeps what arrived before.
InitHeadKept ==
  /\ pc = "init_head"
  /\ stored' = <<>>
  /\ pc' = "init_tail"
  /\ UNCHANGED <<base, buffer, head, tail, ret, typed, got>>

InitHead ==
  /\ pc = "init_head"
  /\ head' = 0
  /\ stored' = <<>>
  /\ pc' = "init_tail"
  /\ UNCHANGED <<base, buffer, tail, ret, typed, got>>

InitTail ==
  /\ pc = "init_tail"
  /\ tail' = 0
  /\ pc' = "is_empty"
  /\ UNCHANGED <<base, buffer, head, ret, typed, stored, got>>

-----------------------------------------------------------------------------
(* ring_buf_get_char: spin while head = tail, then ring_buf_get, which     *)
(* does not test for an empty buffer itself.                               *)

\* Faulty variant of IsEmpty: compares as if the indices never wrapped.
IsEmptyNoWrap == head <= tail

IsEmpty == head = tail

GetCharTest ==
  /\ pc = "is_empty"
  /\ ~IsEmpty
  /\ pc' = "get_load"
  /\ UNCHANGED <<base, buffer, head, tail, ret, typed, stored, got>>

GetLoad ==
  /\ pc = "get_load"
  /\ ret' = buffer[tail]
  /\ pc' = "get_inc"
  /\ UNCHANGED <<base, buffer, head, tail, typed, stored, got>>

\* Faulty variant of GetInc: increments first and returns the slot after.
GetIncFirst ==
  /\ pc = "get_inc"
  /\ tail' = Inc(tail)
  /\ got' = Append(got, buffer[Inc(tail)])
  /\ pc' = "is_empty"
  /\ UNCHANGED <<base, buffer, head, ret, typed, stored>>

GetInc ==
  /\ pc = "get_inc"
  /\ tail' = Inc(tail)
  /\ got' = Append(got, ret)
  /\ pc' = "is_empty"
  /\ UNCHANGED <<base, buffer, head, ret, typed, stored>>

-----------------------------------------------------------------------------
(* Int3Handler: read the byte, mask, ring_buf_put, unmask.  A byte that    *)
(* arrives when one free slot is left is discarded.                        *)

\* Faulty variants of IsFull: one slot too early, and never.
IsFullEarly == Inc(Inc(head)) = tail
IsFullNever == FALSE

IsFull == Inc(head) = tail

Put(c) ==
  \/ /\ IsFull
     /\ UNCHANGED <<buffer, head, stored>>
  \/ /\ ~IsFull
     /\ buffer' = IF base = "array" THEN [buffer EXCEPT ![head] = c] ELSE buffer
     /\ stored' = Append(stored, c)
     /\ head' = Inc(head)

Int3(c) ==
  /\ typed < MaxTyped
  /\ typed' = typed + 1
  /\ Put(c)
  /\ UNCHANGED <<base, tail, pc, ret, got>>

Main == InitBuffer \/ InitHead \/ InitTail \/ GetCharTest \/ GetLoad \/ GetInc
Next == Main \/ \E c \in Byte : Int3(c)

\* The 68000 always executes the next instruction of the main program; keys
\* are pressed when the user likes.
Spec == Init /\ [][Next]_vars /\ WF_vars(Main)

-----------------------------------------------------------------------------
(* Properties.                                                             *)

Started == pc \notin {"init_buffer", "init_head"}

TypeOK ==
  /\ base \in {"null", "array"}
  /\ buffer \in [Index -> Byte]
  /\ head \in Index /\ tail \in Index
  /\ pc \in Places
  /\ ret \in Byte
  /\ typed \in 0 .. MaxTyped
  /\ stored \in Seq(Byte) /\ got \in Seq(Byte)

\* What ring_buf_get_char returned is what the keyboard sent after
\* ring_buf_init, in order, with nothing lost, doubled or invented.
DeliveredInOrder ==
  /\ Len(got) <= Len(stored)
  /\ \A i \in 1 .. Len(got) : got[i] = stored[i]

\* ring_buf_get has no test of its own: between the test in
\* ring_buf_get_char and the increment the buffer never becomes empty, and
\* the handler never overwrites the slot being read.
SlotHeldWhileRead ==
  pc \in {"get_load", "get_inc"} =>
    /\ ~IsEmpty
    /\ buffer[tail] = stored[Len(got) + 1]
    /\ pc = "get_inc" => ret = stored[Len(got) + 1]

\* A step of the handler that discards a byte finds Size - 1 bytes waiting:
\* no byte is refused while there is room.
DropOnlyWhenFull ==
  [][(Started /\ typed' # typed /\ stored' = stored)
       => Len(stored) - Len(got) = Size - 1]_vars

\* Every byte accepted after ring_buf_init is returned by ring_buf_get_char
\* some time later.
EveryByteDelivered ==
  \A n \in 1 .. MaxTyped : [](Started /\ Len(stored) >= n => <>(Len(got) >= n))

\* The ring buffer, from the end of ring_buf_init on, is a bounded FIFO.
Waiting == [i \in 1 .. Len(stored) - Len(got) |-> stored[Len(got) + i]]

Fifo == INSTANCE BoundedFifo
          WITH Capacity  <- Size - 1,
               queue     <- IF Started THEN Waiting ELSE <<>>,
               delivered <- got

ImplementsFifo == Fifo!FifoSpec

-----------------------------------------------------------------------------
(* The inductive invariant behind the safety properties: the bytes that    *)
(* wait sit in the slots from tail on, in order, and head is just past     *)
(* them.                                                                   *)

Pending == Len(stored) - Len(got)

\* The k-th slot after tail.
Slot(k) == IF tail + k < Size THEN tail + k ELSE tail + k - Size

BaseInv  == base = "array" <=> pc # "init_buffer"
ResetInv == pc \in InitPlaces => got = <<>> /\ tail = 0
HeadInv  == Started => Pending \in 0 .. Size - 1 /\ head = Slot(Pending)
SlotsInv == Started => \A k \in 0 .. Pending - 1 :
                         buffer[Slot(k)] = stored[Len(got) + k + 1]
GetInv   == /\ pc \in {"get_load", "get_inc"} => Pending > 0
            /\ pc = "get_inc" => ret = buffer[tail]

RingInv == /\ TypeOK /\ BaseInv /\ ResetInv /\ DeliveredInOrder
           /\ HeadInv /\ SlotsInv /\ GetInv
=============================================================================
