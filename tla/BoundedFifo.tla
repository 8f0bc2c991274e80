---------------------------- MODULE BoundedFifo ----------------------------
(***************************************************************************)
(* What the keyboard ring buffer promises: a first-in first-out queue of   *)
(* at most Capacity bytes. A byte offered to a full queue is discarded (it *)
(* never overwrites one that waits); a byte that was accepted is delivered *)
(* exactly once, in the order of acceptance.                               *)
(***************************************************************************)
EXTENDS Naturals, Sequences

CONSTANTS Byte,      \* the values a keyboard byte can take
          Capacity   \* how many bytes can wait

VARIABLES queue,     \* the bytes accepted and not yet delivered
          delivered  \* the bytes delivered so far, in order

fifoVars == <<queue, delivered>>

FifoInit == queue = <<>> /\ delivered = <<>>

Accept(c) == /\ Len(queue) < Capacity
             /\ queue' = Append(queue, c)
             /\ UNCHANGED delivered

Deliver == /\ queue # <<>>
           /\ delivered' = Append(delivered, Head(queue))
           /\ queue' = Tail(queue)

FifoNext == Deliver \/ \E c \in Byte : Accept(c)

FifoSpec == FifoInit /\ [][FifoNext]_fifoVars
=============================================================================
