-------------------------------- MODULE Dhcp --------------------------------
(***************************************************************************)
(* The DHCP client the BIOS runs once at boot: w5100_dhcp_request in       *)
(* bios/sys/ethernet/dhcp_client.c.  It takes the first datagram for an    *)
(* OFFER and, after its REQUEST, the next one for the answer; it looks at  *)
(* the message type only, not at xid or chaddr, and never repeats.         *)
(*                                                                         *)
(* Its clock stands still: get_tick_ms reads the longword at 0x80064, which *)
(* lies in the jump table the startup builds at 0x80000 (50 entries of six  *)
(* bytes), not systemTick, which the linker puts behind 0x80600.  No time   *)
(* ever passes between two reads, so neither the 30 s and 50 s of           *)
(* wait_rx_at_least nor the 500 ms of w5100_cmd come to an end.             *)
(*                                                                         *)
(* Servers, other clients and the network are external: each server has    *)
(* one address for this client, named like the server; requests and        *)
(* answers get lost and overtake each other; answers to other clients are  *)
(* broadcast too.                                                          *)
(***************************************************************************)
EXTENDS W5100

CONSTANTS
  Servers,    \* the DHCP servers, and the addresses they have for us
  StaticIp,   \* the address w5100_dhcp_request starts with
  ForeignIp   \* an address given to another client

ASSUME DhcpAssumption ==
  /\ RxCap \in Nat \ {0}
  /\ StaticIp # ForeignIp /\ {StaticIp, ForeignIp} \cap Servers = {}

VARIABLES
  dpc,      \* place of w5100_dhcp_request
  sipr,     \* SIPR, the address of this machine
  offered,  \* offered_ip
  server,   \* server_ip
  result,   \* what it returned, and whether the last datagram was for us
  air,      \* datagrams under way to this machine
  lease     \* the servers that gave their address to this machine

dhcpVars == <<dpc, sipr, offered, server, result, air, lease>>

Answers == {"OFFER", "ACK", "NAK"}
Answer(t, s) == [type |-> t, yiaddr |-> s, from |-> s, us |-> TRUE]

\* What is not DHCP: "short" is just enough to be read but has no options,
\* "tiny" is half of that.
Others  == {"short", "tiny"}
Foreign == [type : Answers \cup Others, yiaddr : {ForeignIp}, from : {ForeignIp}, us : {FALSE}]

NoResult == [ret |-> "none", us |-> TRUE]

DhcpInit ==
  /\ sock = "CLOSED" /\ rx = <<>>
  /\ dpc = "discover" /\ sipr = None /\ offered = None /\ server = None
  /\ result = NoResult
  /\ air = {} /\ lease = {}

-----------------------------------------------------------------------------
\* Phase 1: the address and the socket are set up and DISCOVER is sent, which
\* some of the servers get.
Discover ==
  /\ dpc = "discover"
  /\ sipr' = StaticIp
  /\ Open("UDP")
  /\ \E S \in SUBSET Servers : air' = air \cup {Answer("OFFER", s) : s \in S}
  /\ dpc' = "wait_offer"
  /\ UNCHANGED <<offered, server, result, lease>>

\* wait_rx_at_least polls the number of bytes in the buffer, which two tiny
\* datagrams, or one behind which a larger one waits, bring to OFF_OPTIONS.
RxAtLeast == rx # <<>> /\ (Head(rx).type = "tiny" => Len(rx) >= 2)

\* It would return 0 after the timeout, but its clock stands still.
WaitRx ==
  /\ dpc \in {"wait_offer", "wait_ack"} /\ ~RxAtLeast
  /\ UNCHANGED <<sock, rx, dhcpVars>>

\* w5100_recv_udp_packet: exactly one datagram leaves the buffer.
Datagram == Head(rx)

\* parse_dhcp_options walks the whole of rx_buf: when the datagram is too
\* short to have options, it finds those of what rx_buf held before.
TypeOf(before) == IF Datagram.type \in Others THEN before ELSE {Datagram.type}

\* The call is over: answers still under way will find the socket closed.
Return(ret, us) ==
  /\ Close
  /\ result' = [ret |-> ret, us |-> us]
  /\ dpc' = "done"
  /\ offered' = None /\ server' = None /\ air' = {}

Fail(us) == Return("failed", us) /\ UNCHANGED sipr

\* Faulty variant of TakeOffer: a datagram that is no OFFER stays in the buffer.
TakeOfferOnly ==
  /\ dpc = "wait_offer" /\ RxAtLeast
  /\ "OFFER" \in TypeOf(Answers)
  /\ rx' = Tail(rx) /\ UNCHANGED sock
  /\ offered' = Datagram.yiaddr /\ server' = Datagram.from
  /\ dpc' = "request"
  /\ UNCHANGED <<sipr, result, air, lease>>

TakeOffer ==
  /\ dpc = "wait_offer" /\ RxAtLeast
  /\ \E t \in TypeOf(Answers) :
       \/ /\ t = "OFFER"
          /\ rx' = Tail(rx) /\ UNCHANGED sock
          /\ offered' = Datagram.yiaddr /\ server' = Datagram.from
          /\ dpc' = "request"
          /\ UNCHANGED <<sipr, result, air>>
       \/ t # "OFFER" /\ Fail(Datagram.us)
  /\ UNCHANGED lease

\* Phase 2: the socket is opened again without being closed, and REQUEST is
\* sent.  It may be lost; the server it names grants or refuses.
Request ==
  /\ dpc = "request"
  /\ sipr' = StaticIp
  /\ Open("UDP")
  /\ \/ UNCHANGED <<air, lease>>
     \/ air' = air \cup {Answer("NAK", server)} /\ UNCHANGED lease
     \/ /\ offered = server /\ server \in Servers
        /\ lease' = lease \cup {server}
        /\ air' = air \cup {Answer("ACK", server)}
  /\ dpc' = "wait_ack"
  /\ UNCHANGED <<offered, server, result>>

\* Faulty variant of Taken: the address offered is set, not the one granted.
TakenOffered == sipr' = offered

Taken == sipr' = Datagram.yiaddr

TakeAck ==
  /\ dpc = "wait_ack" /\ RxAtLeast
  /\ \E t \in TypeOf({"OFFER"}) :
       \/ t = "ACK" /\ Taken /\ Return("ok", Datagram.us)
       \/ t # "ACK" /\ Fail(Datagram.us)
  /\ UNCHANGED lease

-----------------------------------------------------------------------------
(* The network.                                                            *)

\* A datagram arrives; it is dropped when the socket is closed or full.
Arrive(d) ==
  /\ dpc # "done"
  /\ rx' = IF sock = "UDP" /\ Len(rx) < RxCap THEN Append(rx, d) ELSE rx
  /\ UNCHANGED <<sock, dpc, sipr, offered, server, result, lease>>

ArriveOurs == \E d \in air : Arrive(d) /\ air' = air \ {d}

ArriveForeign == \E d \in Foreign : Arrive(d) /\ UNCHANGED air

Lose ==
  /\ dpc # "done"
  /\ \E d \in air : air' = air \ {d}
  /\ UNCHANGED <<sock, rx, dpc, sipr, offered, server, result, lease>>

Client == Discover \/ TakeOffer \/ Request \/ TakeAck \/ WaitRx

DhcpNext == Client \/ ArriveOurs \/ ArriveForeign \/ Lose

-----------------------------------------------------------------------------
(* Properties.                                                             *)

\* After a failure, whichever datagram caused it, the machine has
\* its static address; after a success whose last datagram was for this
\* machine it has the address a server really gave it, although an OFFER of a
\* second server, a late answer or somebody else's datagram may have come in
\* between.  When the last datagram was for another client the address is that
\* client's: nothing in it is compared with what was asked.
AddressKnown ==
  dpc = "done" =>
    /\ result.ret = "failed" => sipr = StaticIp
    /\ result.ret = "ok" => sipr \in (IF result.us THEN lease ELSE {ForeignIp})

\* The boot goes on unless too few bytes come: whatever datagrams arrive, of
\* whatever length and kind, in whatever order, w5100_dhcp_request takes them
\* and returns.  It hangs only while wait_rx_at_least sees less than it asks
\* for, and then for ever: the code means its timeouts to end that wait.
BootGoesOn ==
  \/ []<>(dpc = "done")
  \/ <>[](dpc \in {"wait_offer", "wait_ack"} /\ ~RxAtLeast)
=============================================================================
