--------------------------- MODULE MCPicoIdeDisk ---------------------------
(* TLC instances of PicoIdeDisk: two words a sector, a FIFO of one word.   *)
EXTENDS PicoIdeDisk

\* Every call and resets of the 68000 at any moment.
Usual == [sizeKnown |-> TRUE, dmaIrqFirst |-> TRUE, timeOuts |-> FALSE,
          resets |-> TRUE, calls |-> {"read", "write", "identify", "raw"}]

\* Polling loops that give up at any moment.
Impatient == [Usual EXCEPT !.timeOuts = TRUE, !.resets = FALSE, !.calls = {"read", "write"}]

\* The status register is read before the DMA_C interrupt is handled, and the
\* size of the card is unknown.
LateIrq == [Usual EXCEPT !.sizeKnown = FALSE, !.dmaIrqFirst = FALSE,
                         !.calls = {"write", "identify", "raw"}]

AllSettings  == {Usual, Impatient, LateIrq}
LiveSettings == {Usual, LateIrq}
=============================================================================
