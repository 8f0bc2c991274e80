---------------------------- MODULE MCPicoFile ----------------------------
(* TLC instances of PicoFile.                                              *)
EXTENDS PicoFile, TLC

\* With two registers of one bit the first file fits and the second does not,
\* and a size made of bytes of both is that of neither.
Sizes == "e" :> 1 @@ "h" :> 4

\* A bound: while the 68000 reads, at most one connection is open, and it has
\* lost nothing so far.
IdleWhileTwo ==
  \/ reader.at = "status" /\ core0.at = "idle"
  \/ \E c \in Conns : conn[c].intact /\ \A d \in Conns \ {c} : conn[d] = Closed

Symmetry == Permutations(Conns) \cup Permutations(Blocks)
=============================================================================
