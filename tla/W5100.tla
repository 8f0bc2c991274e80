------------------------------- MODULE W5100 -------------------------------
(***************************************************************************)
(* Socket 0 of the W5100 network chip, as bios/sys/ethernet/dhcp_client.c  *)
(* and bios/shell/receiver.c use it.  Both use the same socket: one as UDP *)
(* at boot, the other as TCP from the shell.  A command is complete when   *)
(* w5100_cmd returns: that of receiver.c has no timeout, and the 500 ms of *)
(* that of dhcp_client.c are measured with a clock that stands still.      *)
(***************************************************************************)
EXTENDS Naturals, Sequences

CONSTANTS
  RxCap,  \* what the receive buffer holds, in datagrams or units of a stream
  None

VARIABLES
  sock,  \* S0_SR
  rx     \* what was received and not read

\* CR_OPEN.  When the socket was open in this mode, whether it keeps what it
\* received is not known.
Open(mode) ==
  /\ sock' = mode
  /\ rx' \in (IF sock = mode THEN {rx, <<>>} ELSE {<<>>})

\* Faulty variant of Close: the socket stays as it is.
CloseNot == rx' = <<>> /\ UNCHANGED sock

\* CR_CLOSE
Close == sock' = "CLOSED" /\ rx' = <<>>

\* CR_DISCON; the socket is closed some time later.
Discon == sock' = "CLOSING" /\ UNCHANGED rx
=============================================================================
