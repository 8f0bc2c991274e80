------------------------------ MODULE Ethernet ------------------------------
(***************************************************************************)
(* The users of the network chip's only socket, one after the other: the   *)
(* BIOS runs dhcp_client at boot and then the shell, whose command recv    *)
(* uses the socket as the DHCP client left it (bios/bios68.c).  The 68000  *)
(* may be reset; the chip keeps what it holds, the startup code clears the *)
(* RAM.                                                                    *)
(***************************************************************************)
EXTENDS Dhcp, Receiver

CONSTANT MaxReboots

ASSUME EthernetAssumption == MaxReboots \in Nat

VARIABLE reboots

vars == <<sock, rx, dhcpVars, recvVars, reboots>>

Init == DhcpInit /\ ReceiverInit /\ reboots = 0

InBoot(A)  == A /\ UNCHANGED <<recvVars, reboots>>
InShell(A) == dpc = "done" /\ A /\ UNCHANGED <<dhcpVars, reboots>>

\* The startup code clears the RAM and initialises the static variables again,
\* and main calls dhcp_client once more.  Nothing tells a client that still
\* waits for "Arq lido": it waits on.
Reboot ==
  /\ reboots < MaxReboots
  /\ reboots' = reboots + 1
  /\ dpc' = "discover" /\ offered' = None /\ server' = None /\ result' = NoResult
  /\ rpc' = "shell" /\ estado' = "HEADER" /\ recebidos' = 0 /\ total' = 0
  /\ mem' = ClearedMem
  /\ client' = IF client.file = None \/ client.acked THEN NoClient
               ELSE [client EXCEPT !.cut = TRUE]
  /\ UNCHANGED <<sock, rx, sipr, air, lease, disk>>

Next == InBoot(DhcpNext) \/ InShell(ReceiverNext) \/ Reboot

\* The BIOS runs, a client sends what it announced, and the chip completes a
\* disconnection.  Nothing makes the operator use recv or a client connect.
Fairness ==
  /\ WF_vars(InBoot(Client))
  /\ WF_vars(InShell(Loop))
  /\ WF_vars(InShell(Send))
  /\ WF_vars(InShell(Closed))

Spec == Init /\ [][Next]_vars /\ Fairness

-----------------------------------------------------------------------------
\* Once the command recv runs, the socket comes to listen, whatever the DHCP
\* client and the transfers before left behind: do_receiver knows only the
\* states of a TCP socket and waits in any other.
RecvListens == rpc = "loop" ~> sock \in {"LISTEN", "ESTABLISHED"} \/ rpc # "loop"
=============================================================================
