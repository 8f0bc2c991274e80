-------------------------- MODULE Ethernet_proofs --------------------------
(***************************************************************************)
(* Proofs about Ethernet for any set of DHCP servers, any set of files     *)
(* with a largest one, any receive buffer and any number of reboots.       *)
(***************************************************************************)
EXTENDS Ethernet, Integers, TLAPS

(* The DHCP client.                                                        *)

Ips       == Servers \cup {ForeignIp, None}
Datagrams == [type : Answers \cup Others, yiaddr : Ips, from : Ips, us : BOOLEAN]

\* An ACK for this machine carries an address a server gave it; what is for
\* another client carries that client's.
Fine(d) == /\ d.us = TRUE /\ d.type = "ACK" => d.yiaddr \in lease
           /\ d.us = FALSE => d.yiaddr = ForeignIp

\* The client is between its two phases or inside one of them.
Asking == dpc \in {"wait_offer", "request", "wait_ack"}

AirInv  == air \subseteq Datagrams /\ \A d \in air : Fine(d)
RxInv   == sock = "UDP" => rx \in Seq(Datagrams) /\ \A i \in 1 .. Len(rx) : Fine(rx[i])
SockInv == /\ Asking => sock = "UDP" /\ sipr = StaticIp
           /\ dpc = "done" => sock # "UDP"
DhcpInv == /\ dpc \in {"discover", "wait_offer", "request", "wait_ack", "done"}
           /\ offered \in Ips /\ server \in Ips
           /\ AirInv /\ RxInv /\ SockInv /\ AddressKnown

LEMMA InitDhcpInv == Init => DhcpInv
  BY DEF Init, DhcpInit, DhcpInv, AirInv, RxInv, SockInv, AddressKnown, Asking, Ips

\* An OFFER, an ACK and a NAK of a server are datagrams.
LEMMA AnswerTypes ==
  ASSUME NEW t \in Answers, NEW s \in Ips
  PROVE  /\ Answer(t, s) \in Datagrams /\ Answer(t, s).us = TRUE
         /\ Answer(t, s).type = t /\ Answer(t, s).yiaddr = s
  BY DEF Answer, Datagrams, Ips

\* Opening the UDP socket keeps what an open one received, or empties it.
LEMMA OpenRxInv ==
  ASSUME RxInv, Open("UDP"), \A d : Fine(d) => Fine(d)'
  PROVE  RxInv'
  <1>1. CASE rx' = <<>>
    BY <1>1 DEF RxInv
  <1>2. CASE rx' = rx /\ sock = "UDP"
    BY <1>2 DEF RxInv
  <1>3. QED
    BY <1>1, <1>2 DEF Open

\* What is under way stays fine when servers only give more addresses away.
LEMMA FineKept ==
  ASSUME lease \subseteq lease'
  PROVE  \A d : Fine(d) => Fine(d)'
  BY DEF Fine

LEMMA DiscoverDhcpInv == ASSUME DhcpInv, Discover PROVE DhcpInv'
  <1> USE DEF DhcpInv, Discover
  <1>1. \A d : Fine(d) => Fine(d)'
    BY FineKept
  <1>2. AirInv'
    <2>1. PICK S \in SUBSET Servers : air' = air \cup {Answer("OFFER", s) : s \in S}
      OBVIOUS
    <2>2. \A s \in S : Answer("OFFER", s) \in Datagrams /\ Fine(Answer("OFFER", s))'
      BY AnswerTypes DEF Fine, Answers, Ips
    <2>3. QED
      BY <1>1, <2>1, <2>2 DEF AirInv
  <1>3. RxInv'
    BY <1>1, OpenRxInv
  <1>4. QED
    BY <1>2, <1>3 DEF SockInv, Open, Asking, AddressKnown

LEMMA RequestDhcpInv == ASSUME DhcpInv, Request PROVE DhcpInv'
  <1> USE DEF DhcpInv, Request
  <1>1. \A d : Fine(d) => Fine(d)'
    BY FineKept
  <1>2. AirInv'
    <2>1. CASE air' = air
      BY <1>1, <2>1 DEF AirInv
    <2>2. CASE air' = air \cup {Answer("NAK", server)}
      <3>1. Answer("NAK", server) \in Datagrams /\ Fine(Answer("NAK", server))'
        BY AnswerTypes DEF Fine, Answers
      <3>2. QED
        BY <1>1, <2>2, <3>1 DEF AirInv
    <2>3. CASE lease' = lease \cup {server} /\ air' = air \cup {Answer("ACK", server)}
      <3>1. Answer("ACK", server) \in Datagrams /\ Fine(Answer("ACK", server))'
        BY <2>3, AnswerTypes DEF Fine, Answers
      <3>2. QED
        BY <1>1, <2>3, <3>1 DEF AirInv
    <2>4. QED
      BY <2>1, <2>2, <2>3
  <1>3. RxInv'
    BY <1>1, OpenRxInv
  <1>4. QED
    BY <1>2, <1>3 DEF SockInv, Open, Asking, AddressKnown

\* The datagram at the head of the buffer, and the rest of it.
LEMMA HeadFine ==
  ASSUME DhcpInv, Asking, rx # <<>>
  PROVE  /\ Datagram \in Datagrams /\ Fine(Datagram)
         /\ Tail(rx) \in Seq(Datagrams)
         /\ \A i \in 1 .. Len(Tail(rx)) : Fine(Tail(rx)[i])
  <1>1. rx \in Seq(Datagrams) /\ Len(rx) \in Nat /\ Len(rx) > 0 /\ Datagram = rx[1]
    BY DEF DhcpInv, SockInv, RxInv, Datagram
  <1>2. /\ Tail(rx) \in Seq(Datagrams) /\ Len(Tail(rx)) = Len(rx) - 1
        /\ \A i \in 1 .. Len(rx) - 1 : Tail(rx)[i] = rx[i + 1]
    BY <1>1
  <1>3. \A i \in 1 .. Len(rx) : Fine(rx[i])
    BY DEF DhcpInv, SockInv, RxInv
  <1>4. QED
    BY <1>1, <1>2, <1>3

\* The call returns with the socket closed and the address unchanged.
LEMMA FailDhcpInv ==
  ASSUME DhcpInv, Asking, NEW us, Fail(us), UNCHANGED lease
  PROVE  DhcpInv'
  BY DEF DhcpInv, Fail, Return, Close, SockInv, AirInv, RxInv, Asking, AddressKnown, Ips

LEMMA TakeOfferDhcpInv == ASSUME DhcpInv, TakeOffer PROVE DhcpInv'
  <1>1. PICK t \in TypeOf(Answers) :
          \/ /\ t = "OFFER"
             /\ rx' = Tail(rx) /\ UNCHANGED sock
             /\ offered' = Datagram.yiaddr /\ server' = Datagram.from
             /\ dpc' = "request"
             /\ UNCHANGED <<sipr, result, air>>
          \/ t # "OFFER" /\ Fail(Datagram.us)
    BY DEF TakeOffer
  <1>2. Asking /\ rx # <<>> /\ UNCHANGED lease
    BY DEF TakeOffer, Asking, RxAtLeast
  <1>3. CASE Fail(Datagram.us)
    BY <1>2, <1>3, FailDhcpInv
  <1>4. CASE /\ rx' = Tail(rx) /\ UNCHANGED sock
             /\ offered' = Datagram.yiaddr /\ server' = Datagram.from
             /\ dpc' = "request"
             /\ UNCHANGED <<sipr, result, air>>
    <2>1. offered' \in Ips /\ server' \in Ips
      BY <1>2, <1>4, HeadFine DEF Datagrams
    <2>2. RxInv'
      BY <1>2, <1>4, HeadFine DEF RxInv, Fine
    <2>3. QED
      BY <1>2, <1>4, <2>1, <2>2 DEF DhcpInv, AirInv, Fine, SockInv, Asking, AddressKnown
  <1>5. QED
    BY <1>1, <1>3, <1>4

LEMMA TakeAckDhcpInv == ASSUME DhcpInv, TakeAck PROVE DhcpInv'
  <1>1. PICK t \in TypeOf({"OFFER"}) :
          \/ t = "ACK" /\ Taken /\ Return("ok", Datagram.us)
          \/ t # "ACK" /\ Fail(Datagram.us)
    BY DEF TakeAck
  <1>2. Asking /\ rx # <<>> /\ UNCHANGED lease
    BY DEF TakeAck, Asking, RxAtLeast
  <1>3. CASE Fail(Datagram.us)
    BY <1>2, <1>3, FailDhcpInv
  <1>4. CASE t = "ACK" /\ Taken /\ Return("ok", Datagram.us)
    <2>1. Datagram.type = "ACK"
      BY <1>4, <1>1 DEF TypeOf
    <2>2. Datagram.us \in BOOLEAN
      BY <1>2, HeadFine DEF Datagrams
    <2>3. sipr' \in (IF Datagram.us THEN lease ELSE {ForeignIp})
      BY <1>2, <1>4, <2>1, <2>2, HeadFine DEF Taken, Fine
    <2>4. AddressKnown'
      BY <1>2, <1>4, <2>3 DEF AddressKnown, Return
    <2>5. QED
      BY <1>2, <1>4, <2>4 DEF DhcpInv, Return, Close, SockInv, AirInv, RxInv, Asking, Ips
  <1>5. QED
    BY <1>1, <1>3, <1>4

LEMMA WaitRxDhcpInv == ASSUME DhcpInv, WaitRx PROVE DhcpInv'
  <1>1. UNCHANGED <<sock, rx, dpc, sipr, offered, server, result, air, lease>>
    BY DEF WaitRx, dhcpVars
  <1>2. AirInv' /\ RxInv'
    BY <1>1 DEF DhcpInv, AirInv, RxInv, Fine
  <1>3. QED
    BY <1>1, <1>2 DEF DhcpInv, SockInv, Asking, AddressKnown

\* A datagram that is fine is appended or dropped.
LEMMA ArriveDhcpInv ==
  ASSUME DhcpInv, NEW d \in Datagrams, Fine(d), Arrive(d), air' \subseteq air
  PROVE  DhcpInv'
  <1>1. \A e : Fine(e) => Fine(e)'
    BY FineKept DEF Arrive
  <1>2. RxInv'
    <2>1. CASE rx' = rx
      BY <1>1, <2>1 DEF DhcpInv, RxInv, Arrive
    <2>2. CASE sock = "UDP" /\ rx' = Append(rx, d)
      <3>1. /\ rx \in Seq(Datagrams) /\ Len(rx) \in Nat
            /\ \A i \in 1 .. Len(rx) : Fine(rx[i])
        BY <2>2 DEF DhcpInv, RxInv
      <3>2. /\ rx' \in Seq(Datagrams) /\ Len(rx') = Len(rx) + 1
            /\ \A i \in 1 .. Len(rx) : rx'[i] = rx[i]
            /\ rx'[Len(rx) + 1] = d
        BY <2>2, <3>1
      <3>3. (\A i \in 1 .. Len(rx) : Fine(rx[i]))'
        BY <1>1, <3>1, <3>2
      <3>4. QED
        BY <3>2, <3>3 DEF RxInv
    <2>3. QED
      BY <2>1, <2>2 DEF Arrive
  <1>3. AirInv'
    BY <1>1 DEF DhcpInv, AirInv
  <1>4. QED
    BY <1>2, <1>3 DEF DhcpInv, Arrive, SockInv, Asking, AddressKnown

LEMMA ArriveOursDhcpInv == ASSUME DhcpInv, ArriveOurs PROVE DhcpInv'
  BY ArriveDhcpInv DEF ArriveOurs, DhcpInv, AirInv

LEMMA ArriveForeignDhcpInv == ASSUME DhcpInv, ArriveForeign PROVE DhcpInv'
  <1>1. PICK d \in Foreign : Arrive(d) /\ UNCHANGED air
    BY DEF ArriveForeign
  <1>2. d \in Datagrams /\ Fine(d)
    BY DEF Foreign, Datagrams, Fine, Ips
  <1>3. QED
    BY <1>1, <1>2, ArriveDhcpInv

LEMMA LoseDhcpInv == ASSUME DhcpInv, Lose PROVE DhcpInv'
  <1>1. \A e : Fine(e) => Fine(e)'
    BY FineKept DEF Lose
  <1>2. AirInv' /\ RxInv'
    BY <1>1 DEF DhcpInv, AirInv, RxInv, Lose
  <1>3. QED
    BY <1>2 DEF DhcpInv, Lose, SockInv, Asking, AddressKnown

\* recv runs after the DHCP client and never makes the socket UDP again.
LEMMA ShellDhcpInv == ASSUME DhcpInv, InShell(ReceiverNext) PROVE DhcpInv'
  <1>1. dpc = "done" /\ UNCHANGED dhcpVars /\ ReceiverNext
    BY DEF InShell
  <1>2. sock' = "UDP" => sock = "UDP"
    BY <1>1 DEF ReceiverNext, Loop, DoReceiver, LoopClosed, LoopInit, LoopHeader, LoopPayload,
         LoopCloseWait, Save, LoopOther, Connect, Send, GiveUp, Closed, Open, Discon
  <1>3. sock' # "UDP"
    BY <1>1, <1>2 DEF DhcpInv, SockInv
  <1>4. AirInv'
    BY <1>1 DEF dhcpVars, DhcpInv, AirInv, Fine
  <1>5. QED
    BY <1>1, <1>3, <1>4 DEF dhcpVars, DhcpInv, RxInv, SockInv, Asking, AddressKnown

LEMMA RebootDhcpInv == ASSUME DhcpInv, Reboot PROVE DhcpInv'
  <1>1. AirInv' /\ RxInv'
    BY DEF Reboot, DhcpInv, AirInv, RxInv, Fine
  <1>2. QED
    BY <1>1 DEF Reboot, DhcpInv, SockInv, Asking, AddressKnown, Ips

LEMMA NextDhcpInv == DhcpInv /\ [Next]_vars => DhcpInv'
  <1> SUFFICES ASSUME DhcpInv, [Next]_vars PROVE DhcpInv'
    OBVIOUS
  <1>1. CASE InBoot(DhcpNext)
    BY <1>1, DiscoverDhcpInv, TakeOfferDhcpInv, RequestDhcpInv, TakeAckDhcpInv, WaitRxDhcpInv,
       ArriveOursDhcpInv, ArriveForeignDhcpInv, LoseDhcpInv DEF InBoot, DhcpNext, Client
  <1>2. CASE InShell(ReceiverNext)
    BY <1>2, ShellDhcpInv
  <1>3. CASE Reboot
    BY <1>3, RebootDhcpInv
  <1>4. CASE UNCHANGED vars
    <2>1. AirInv' /\ RxInv'
      BY <1>4 DEF vars, dhcpVars, DhcpInv, AirInv, RxInv, Fine
    <2>2. QED
      BY <1>4, <2>1 DEF vars, dhcpVars, DhcpInv, SockInv, Asking, AddressKnown
  <1>5. QED
    BY <1>1, <1>2, <1>3, <1>4 DEF Next

\* However requests and answers are lost, overtake each other or belong to
\* another client, with any number of servers and reboots: dhcp_client ends
\* with the static address after a failure, and after a success with an
\* address a server gave to this machine, or the other client's when the last
\* datagram was for that one.
THEOREM AddressIsKnown == Spec => []AddressKnown
  <1>1. DhcpInv => AddressKnown
    BY DEF DhcpInv
  <1>2. QED
    BY <1>1, InitDhcpInv, NextDhcpInv, PTL DEF Spec

-----------------------------------------------------------------------------
(* The receiver.                                                           *)

Units    == {Unit(f, i) : f \in Files, i \in Nat}
Consumed == client.sent - Len(rx)
Holds(n) == \A j \in 1 .. n : mem[j] = Unit(client.file, j)

\* While a client is connected, the buffer continues what the client sent
\* where do_receiver stopped reading it, and memory holds what it has read.
StreamInv ==
  /\ rpc = "loop" /\ client.file \in Files /\ client.acked = FALSE
  /\ client.sent \in Nat /\ client.sent <= client.file.size
  /\ rx \in Seq(Units) /\ Len(rx) <= client.sent
  /\ \A i \in 1 .. Len(rx) : rx[i] = Unit(client.file, Consumed + i)
  /\ estado = "HEADER" => Consumed = 0
  /\ estado = "PAYLOAD" => /\ recebidos = Consumed /\ recebidos >= HeaderLen
                           /\ total = client.file.size /\ Holds(recebidos)

\* After the acknowledgement the whole of the file's first size units is there.
AckedInv ==
  client.acked = TRUE =>
    /\ rpc = "save" /\ client.file \in Files
    /\ total = client.file.size /\ Holds(client.file.size)

RecvTypes ==
  /\ rpc \in {"shell", "loop", "save"} /\ estado \in {"HEADER", "PAYLOAD"}
  /\ client \in [file : Files \cup {None}, sent : Nat, acked : BOOLEAN, cut : BOOLEAN]
  /\ disk.acked \in BOOLEAN
  /\ mem = [i \in 1 .. MaxSize + HeaderLen |-> mem[i]]

RecvInv ==
  /\ RecvTypes /\ SavedBegins
  /\ dpc # "done" => rpc = "shell" /\ client.acked = FALSE /\ estado = "HEADER"
  /\ dpc = "done" =>
       /\ sock \in {"INIT", "LISTEN"} => estado = "HEADER"
       /\ sock = "ESTABLISHED" => StreamInv
       /\ rpc # "loop" => sock \in {"CLOSING", "CLOSED"}
       /\ AckedInv

LEMMA MaxSizeBounds == MaxSize \in Nat /\ \A f \in Files : f.size <= MaxSize
  BY ReceiverAssumption DEF MaxSize

LEMMA InitRecvInv == Init => RecvInv
  <1> SUFFICES ASSUME Init PROVE RecvInv
    OBVIOUS
  <1>1. RecvTypes
    BY DEF Init, ReceiverInit, RecvTypes, NoClient, ClearedMem
  <1>2. QED
    BY <1>1 DEF Init, DhcpInit, ReceiverInit, RecvInv, SavedBegins, NoClient

\* The DHCP client leaves the receiver's variables alone and the socket closed.
LEMMA BootRecvInv == ASSUME RecvInv, InBoot(DhcpNext) PROVE RecvInv'
  <1>1. UNCHANGED recvVars /\ DhcpNext
    BY DEF InBoot
  <1>2. dpc # "done" /\ (dpc' = "done" => sock' = "CLOSED")
    BY <1>1 DEF DhcpNext, Client, Discover, TakeOffer, Request, TakeAck, WaitRx, dhcpVars, Fail,
         Return, Close, ArriveOurs, ArriveForeign, Arrive, Lose
  <1>3. RecvTypes' /\ SavedBegins'
    BY <1>1 DEF RecvInv, RecvTypes, SavedBegins, recvVars
  <1>4. rpc' = "shell" /\ client'.acked = FALSE /\ estado' = "HEADER"
    BY <1>1, <1>2 DEF RecvInv, recvVars
  <1>5. QED
    BY <1>2, <1>3, <1>4 DEF RecvInv, AckedInv

LEMMA RebootRecvInv == ASSUME RecvInv, Reboot PROVE RecvInv'
  <1>1. /\ client' \in [file : Files \cup {None}, sent : Nat, acked : BOOLEAN, cut : BOOLEAN]
        /\ client'.acked = FALSE
    <2>1. /\ client \in [file : Files \cup {None}, sent : Nat, acked : BOOLEAN, cut : BOOLEAN]
          /\ client.acked \in BOOLEAN
      BY DEF RecvInv, RecvTypes
    <2>2. CASE client.file = None \/ client.acked
      <3>1. client' = NoClient
        BY <2>2 DEF Reboot
      <3>2. QED
        BY <3>1 DEF NoClient
    <2>3. CASE ~(client.file = None \/ client.acked)
      <3>1. client' = [client EXCEPT !.cut = TRUE] /\ client.acked = FALSE
        BY <2>1, <2>3 DEF Reboot
      <3>2. QED
        BY <2>1, <3>1
    <2>4. QED
      BY <2>2, <2>3
  <1>2. RecvTypes' /\ SavedBegins'
    BY <1>1 DEF Reboot, RecvInv, RecvTypes, SavedBegins, ClearedMem
  <1>3. QED
    BY <1>1, <1>2 DEF Reboot, RecvInv

\* The calls that touch neither the stream nor memory.
LEMMA QuietRecvInv ==
  ASSUME RecvInv, dpc = "done", dpc' = dpc,
         DoReceiver \/ LoopClosed \/ LoopInit \/ LoopCloseWait \/ LoopOther \/ Closed
  PROVE  RecvInv'
  <1> USE DEF DoReceiver, LoopClosed, LoopInit, LoopCloseWait, LoopOther, Closed, Open, Discon,
              recvVars
  <1>1. RecvTypes' /\ SavedBegins'
    BY DEF RecvInv, RecvTypes, SavedBegins
  <1>2. AckedInv'
    BY DEF RecvInv, AckedInv, Holds
  <1>3. sock' = "ESTABLISHED" => StreamInv'
    BY DEF RecvInv, StreamInv, Consumed, Holds
  <1>4. QED
    BY <1>1, <1>2, <1>3 DEF RecvInv

LEMMA ConnectRecvInv == ASSUME RecvInv, dpc = "done", dpc' = dpc, Connect PROVE RecvInv'
  <1>1. PICK f \in Files : client' = [NoClient EXCEPT !.file = f]
    BY DEF Connect
  <1>2. /\ client'.file = f /\ client'.sent = 0 /\ client'.acked = FALSE
        /\ estado' = "HEADER" /\ rpc' = "loop" /\ sock' = "ESTABLISHED" /\ rx' = <<>>
    BY <1>1 DEF Connect, NoClient, RecvInv, RecvTypes
  <1>3. f.size \in Nat
    BY ReceiverAssumption
  <1>4. RecvTypes' /\ SavedBegins'
    BY <1>1, <1>2 DEF Connect, RecvInv, RecvTypes, SavedBegins, NoClient
  <1>5. rx' \in Seq(Units) /\ Len(rx') = 0 /\ Consumed' = 0
    <2>1. rx' \in Seq(Units)
      BY <1>2
    <2>2. Len(rx') = 0
      BY <1>2
    <2>3. client'.sent = 0
      BY <1>2
    <2>4. QED
      BY <2>1, <2>2, <2>3 DEF Consumed
  <1>6. StreamInv'
    BY <1>2, <1>3, <1>5 DEF StreamInv
  <1>7. QED
    BY <1>2, <1>4, <1>6 DEF RecvInv, AckedInv

LEMMA GiveUpRecvInv == ASSUME RecvInv, dpc = "done", dpc' = dpc, GiveUp PROVE RecvInv'
  <1>1. RecvTypes' /\ SavedBegins'
    BY DEF GiveUp, RecvInv, RecvTypes, SavedBegins, NoClient
  <1>2. client'.acked = FALSE /\ rpc' = "loop" /\ sock' \in {"CLOSE_WAIT", "CLOSED"}
    BY DEF GiveUp, NoClient, RecvInv, StreamInv
  <1>3. QED
    BY <1>1, <1>2 DEF RecvInv, AckedInv

\* What is left of a sequence after its first n elements.
LEMMA DropProperties ==
  ASSUME NEW S, NEW s \in Seq(S), NEW n \in 0 .. Len(s), NEW t, t = SubSeq(s, n + 1, Len(s))
  PROVE  /\ t \in Seq(S) /\ Len(t) = Len(s) - n
         /\ \A i \in 1 .. Len(t) : t[i] = s[n + i]
  OBVIOUS

\* n units read behind the first "at" ones, which memory holds: the stream
\* goes on behind them and memory holds at + n.
LEMMA RecvBytesProperties ==
  ASSUME RecvInv, StreamInv, NEW at \in Nat, NEW n \in 0 .. Len(rx), RecvBytes(at, n),
         at = Consumed, Holds(at), client'.file = client.file, client'.sent = client.sent
  PROVE  /\ rx' \in Seq(Units) /\ Len(rx') = Len(rx) - n
         /\ at + n <= client.file.size
         /\ \A i \in 1 .. Len(rx') : rx'[i] = Unit(client.file, at + n + i)
         /\ \A j \in 1 .. at + n : mem'[j] = Unit(client.file, j)
         /\ mem' = [i \in 1 .. MaxSize + HeaderLen |-> mem'[i]]
  <1>1. /\ rx \in Seq(Units) /\ Len(rx) \in Nat /\ client.file \in Files
        /\ client.sent \in Nat /\ client.sent <= client.file.size /\ at + Len(rx) = client.sent
        /\ \A i \in 1 .. Len(rx) : rx[i] = Unit(client.file, at + i)
    BY DEF StreamInv, Consumed
  <1>2. /\ rx' \in Seq(Units) /\ Len(rx') = Len(rx) - n
        /\ \A i \in 1 .. Len(rx') : rx'[i] = rx[n + i]
    BY <1>1, DropProperties DEF RecvBytes
  <1>3. DOMAIN mem = 1 .. MaxSize + HeaderLen
    BY DEF RecvInv, RecvTypes
  <1>4. /\ client.file.size \in Nat /\ MaxSize \in Nat /\ HeaderLen \in Nat
        /\ client.file.size <= MaxSize
    BY <1>1, MaxSizeBounds, ReceiverAssumption, DhcpAssumption
  <1>5. at + n <= client.file.size
    BY <1>1, <1>4
  <1>6. ASSUME NEW j \in 1 .. at + n PROVE mem'[j] = Unit(client.file, j)
    <2>1. j \in DOMAIN mem
      BY <1>3, <1>4, <1>5
    <2>2. CASE j \in 1 .. at
      BY <2>1, <2>2 DEF RecvBytes, Holds
    <2>3. CASE j \in at + 1 .. at + n
      <3>1. mem'[j] = rx[j - at]
        BY <2>1, <2>3 DEF RecvBytes
      <3>2. j - at \in 1 .. Len(rx) /\ at + (j - at) = j
        BY <1>1, <2>3
      <3>3. QED
        BY <1>1, <3>1, <3>2
    <2>4. QED
      BY <2>2, <2>3
  <1>7. \A i \in 1 .. Len(rx') : rx'[i] = Unit(client.file, at + n + i)
    <2>1. SUFFICES ASSUME NEW i \in 1 .. Len(rx')
                   PROVE rx'[i] = Unit(client.file, at + n + i)
      OBVIOUS
    <2>2. n + i \in 1 .. Len(rx) /\ at + (n + i) = at + n + i
      BY <1>1, <1>2
    <2>3. QED
      BY <1>1, <1>2, <2>2
  <1>8. mem' = [i \in 1 .. MaxSize + HeaderLen |-> mem'[i]]
    BY <1>3 DEF RecvBytes
  <1>9. QED
    BY <1>2, <1>5, <1>6, <1>7, <1>8

LEMMA HeaderRecvInv == ASSUME RecvInv, dpc = "done", dpc' = dpc, LoopHeader PROVE RecvInv'
  <1>1. /\ StreamInv /\ sock' = "ESTABLISHED" /\ client' = client /\ rpc' = "loop"
        /\ estado' = "PAYLOAD" /\ recebidos' = HeaderLen /\ RecvBytes(0, HeaderLen)
    BY DEF RecvInv, LoopHeader
  <1>2. /\ Consumed = 0 /\ rx \in Seq(Units) /\ Len(rx) \in Nat /\ HeaderLen \in 0 .. Len(rx)
        /\ HeaderLen >= 1 /\ client.sent = Len(rx)
    BY <1>1, ReceiverAssumption, DhcpAssumption DEF StreamInv, LoopHeader, Consumed
  <1>3. Holds(0)
    BY DEF Holds
  <1>4. /\ rx' \in Seq(Units) /\ Len(rx') = Len(rx) - HeaderLen
        /\ 0 + HeaderLen <= client.file.size
        /\ \A i \in 1 .. Len(rx') : rx'[i] = Unit(client.file, 0 + HeaderLen + i)
        /\ \A j \in 1 .. 0 + HeaderLen : mem'[j] = Unit(client.file, j)
        /\ mem' = [i \in 1 .. MaxSize + HeaderLen |-> mem'[i]]
    BY <1>1, <1>2, <1>3, RecvBytesProperties
  <1>5. total' = client.file.size
    <2>1. rx[1] = Unit(client.file, 1)
      BY <1>1, <1>2 DEF StreamInv
    <2>2. rx[1][3] = client.file.size
      BY <1>2, <2>1 DEF Unit
    <2>3. QED
      BY <2>2 DEF LoopHeader
  <1>6. Consumed' = HeaderLen /\ Holds(HeaderLen)'
    BY <1>1, <1>2, <1>4 DEF Consumed, Holds
  <1>7. StreamInv'
    BY <1>1, <1>2, <1>4, <1>5, <1>6 DEF StreamInv
  <1>8. RecvTypes' /\ SavedBegins'
    BY <1>1, <1>4 DEF RecvInv, RecvTypes, SavedBegins, LoopHeader
  <1>9. QED
    BY <1>1, <1>7, <1>8 DEF RecvInv, AckedInv, StreamInv

LEMMA PayloadRecvInv == ASSUME RecvInv, dpc = "done", dpc' = dpc, LoopPayload PROVE RecvInv'
  <1> DEFINE restante == total - recebidos
             bloco    == IF Len(rx) < restante THEN Len(rx) ELSE restante
             read     == recebidos + bloco
  <1>1. /\ StreamInv /\ recebidos = Consumed /\ total = client.file.size /\ Holds(recebidos)
        /\ rx # <<>> /\ recebidos >= HeaderLen
        /\ RecvBytes(recebidos, bloco) /\ recebidos' = read
        /\ total' = total /\ disk' = disk
        /\ \/ /\ read >= total
              /\ estado' = "HEADER" /\ sock' = "CLOSING" /\ rpc' = "save"
              /\ client' = [client EXCEPT !.acked = TRUE]
           \/ /\ ~(read >= total)
              /\ estado' = estado /\ sock' = sock /\ rpc' = rpc /\ client' = client
    BY DEF RecvInv, LoopPayload, StreamInv, Enough
  <1>2. /\ rx \in Seq(Units) /\ Len(rx) \in Nat /\ client.file.size \in Nat
        /\ client.sent \in Nat /\ client.sent <= client.file.size /\ client.file \in Files
        /\ recebidos = client.sent - Len(rx) /\ Len(rx) <= client.sent /\ HeaderLen \in Nat
    BY <1>1, ReceiverAssumption, DhcpAssumption DEF StreamInv, Consumed
  <1>3. recebidos \in Nat /\ bloco \in 0 .. Len(rx)
    <2>1. recebidos \in Nat
      BY <1>2
    <2>2. restante \in Nat
      <3>1. total = client.file.size
        BY <1>1
      <3>2. QED
        BY <1>2, <3>1
    <2>3. QED
      BY <1>2, <2>1, <2>2
  <1>4. client'.file = client.file /\ client'.sent = client.sent
    <2>1. CASE client' = client
      BY <2>1
    <2>2. CASE client' = [client EXCEPT !.acked = TRUE]
      BY <2>2
    <2>3. QED
      BY <1>1, <2>1, <2>2
  <1> HIDE DEF bloco
  <1>5. /\ rx' \in Seq(Units) /\ Len(rx') = Len(rx) - bloco
        /\ read <= client.file.size
        /\ \A i \in 1 .. Len(rx') : rx'[i] = Unit(client.file, read + i)
        /\ \A j \in 1 .. read : mem'[j] = Unit(client.file, j)
        /\ mem' = [i \in 1 .. MaxSize + HeaderLen |-> mem'[i]]
    BY <1>1, <1>3, <1>4, RecvBytesProperties
  <1>6. Consumed' = read /\ read \in Nat /\ read >= HeaderLen /\ Len(rx') <= client.sent
    BY <1>1, <1>2, <1>3, <1>4, <1>5 DEF Consumed
  <1>7. Holds(recebidos)'
    BY <1>1, <1>4, <1>5 DEF Holds
  <1>8. SavedBegins'
    BY <1>1 DEF RecvInv, SavedBegins
  <1>9. CASE /\ read >= total
             /\ estado' = "HEADER" /\ sock' = "CLOSING" /\ rpc' = "save"
             /\ client' = [client EXCEPT !.acked = TRUE]
    <2>1. read = client.file.size
      BY <1>1, <1>2, <1>5, <1>6, <1>9
    <2>2. AckedInv'
      BY <1>1, <1>2, <1>4, <1>7, <1>9, <2>1 DEF AckedInv, Holds
    <2>3. client'.acked \in BOOLEAN
      BY <1>9 DEF RecvInv, RecvTypes
    <2>4. RecvTypes'
      BY <1>1, <1>5, <1>9, <2>3 DEF RecvInv, RecvTypes
    <2>5. QED
      BY <1>8, <1>9, <2>2, <2>4 DEF RecvInv
  <1>10. CASE /\ ~(read >= total)
              /\ estado' = estado /\ sock' = sock /\ rpc' = rpc /\ client' = client
    <2>1. StreamInv'
      BY <1>1, <1>2, <1>5, <1>6, <1>7, <1>10 DEF StreamInv, LoopPayload
    <2>2. RecvTypes'
      BY <1>1, <1>5, <1>10 DEF RecvInv, RecvTypes
    <2>3. QED
      BY <1>1, <1>8, <1>10, <2>1, <2>2 DEF RecvInv, AckedInv, StreamInv, LoopPayload
  <1>11. QED
    BY <1>1, <1>9, <1>10

\* One sequence behind another.
LEMMA AppendedProperties ==
  ASSUME NEW S, NEW s \in Seq(S), NEW t \in Seq(S), NEW u, u = s \o t
  PROVE  /\ u \in Seq(S) /\ Len(u) = Len(s) + Len(t)
         /\ \A i \in 1 .. Len(s) : u[i] = s[i]
         /\ \A i \in Len(s) + 1 .. Len(s) + Len(t) : u[i] = t[i - Len(s)]
  OBVIOUS

LEMMA SendRecvInv == ASSUME RecvInv, dpc = "done", dpc' = dpc, Send PROVE RecvInv'
  <1>1. PICK n \in 1 .. client.file.size - client.sent :
          /\ rx' = rx \o [i \in 1 .. n |-> Unit(client.file, client.sent + i)]
          /\ client' = [client EXCEPT !.sent = @ + n]
    BY DEF Send
  <1> DEFINE more == [i \in 1 .. n |-> Unit(client.file, client.sent + i)]
  <1>2. /\ StreamInv /\ sock' = "ESTABLISHED" /\ rpc' = rpc /\ estado' = estado
        /\ recebidos' = recebidos /\ total' = total /\ mem' = mem /\ disk' = disk
    BY DEF RecvInv, Send
  <1>3. /\ client.file \in Files /\ client.file.size \in Nat /\ client.sent \in Nat
        /\ rx \in Seq(Units) /\ Len(rx) \in Nat /\ Len(rx) <= client.sent
        /\ n \in Nat /\ client.sent + n <= client.file.size
    BY <1>2, ReceiverAssumption DEF StreamInv
  <1>4. more \in Seq(Units) /\ Len(more) = n
    <2>1. \A i \in 1 .. n : Unit(client.file, client.sent + i) \in Units
      BY <1>3 DEF Units
    <2>2. QED
      BY <1>3, <2>1
  <1>5. \A i \in 1 .. n : more[i] = Unit(client.file, client.sent + i)
    OBVIOUS
  <1> HIDE DEF more
  <1>6. rx' = rx \o more
    BY <1>1 DEF more
  <1>7. /\ rx' \in Seq(Units) /\ Len(rx') = Len(rx) + n
        /\ \A i \in 1 .. Len(rx) : rx'[i] = rx[i]
        /\ \A i \in Len(rx) + 1 .. Len(rx) + n : rx'[i] = more[i - Len(rx)]
    <2>1. PICK S, s, u : S = Units /\ s = rx /\ u = rx'
      OBVIOUS
    <2>2. /\ u \in Seq(S) /\ Len(u) = Len(s) + Len(more)
          /\ \A i \in 1 .. Len(s) : u[i] = s[i]
          /\ \A i \in Len(s) + 1 .. Len(s) + Len(more) : u[i] = more[i - Len(s)]
      <3>1. s \in Seq(S) /\ more \in Seq(S) /\ u = s \o more
        BY <1>3, <1>4, <1>6, <2>1
      <3>2. QED
        BY <3>1, AppendedProperties
    <2>3. QED
      BY <1>4, <2>1, <2>2
  <1>8. /\ client'.file = client.file /\ client'.acked = client.acked
        /\ client'.sent = client.sent + n
    <2>1. client \in [file : Files \cup {None}, sent : Nat, acked : BOOLEAN, cut : BOOLEAN]
      BY DEF RecvInv, RecvTypes
    <2>2. QED
      BY <1>1, <2>1
  <1>9. Consumed' = Consumed /\ Consumed = client.sent - Len(rx)
    BY <1>3, <1>7, <1>8 DEF Consumed
  <1>10. ASSUME NEW i \in 1 .. Len(rx') PROVE rx'[i] = Unit(client.file, Consumed + i)
    <2>1. CASE i \in 1 .. Len(rx)
      BY <1>2, <1>7, <2>1 DEF StreamInv
    <2>2. CASE i \in Len(rx) + 1 .. Len(rx) + n
      <3>1. i - Len(rx) \in 1 .. n /\ client.sent + (i - Len(rx)) = Consumed + i
        BY <1>3, <1>9, <2>2
      <3>2. QED
        BY <1>5, <1>7, <2>2, <3>1
    <2>3. QED
      BY <1>3, <1>7, <2>1, <2>2
  <1>11. StreamInv'
    BY <1>2, <1>3, <1>7, <1>8, <1>9, <1>10 DEF StreamInv, Holds
  <1>12. RecvTypes' /\ SavedBegins'
    <2>1. client' = [client EXCEPT !.sent = @ + n]
      BY <1>1
    <2>2. client' \in [file : Files \cup {None}, sent : Nat, acked : BOOLEAN, cut : BOOLEAN]
      BY <1>3, <2>1 DEF RecvInv, RecvTypes
    <2>3. QED
      BY <1>2, <2>2 DEF RecvInv, RecvTypes, SavedBegins
  <1>13. QED
    BY <1>2, <1>8, <1>11, <1>12 DEF RecvInv, AckedInv, StreamInv

LEMMA SaveRecvInv == ASSUME RecvInv, dpc = "done", dpc' = dpc, Save PROVE RecvInv'
  <1>1. /\ rpc = "save" /\ rpc' = "shell" /\ sock' = sock /\ estado' = estado /\ mem' = mem
        /\ total' = total /\ sock \in {"CLOSING", "CLOSED"}
    BY DEF Save, RecvInv
  <1>2. client'.acked = FALSE
    BY DEF Save, NoClient, RecvInv, RecvTypes
  <1>3. SavedBegins' /\ disk'.acked \in BOOLEAN
    <2>1. CASE disk' = disk
      BY <2>1 DEF RecvInv, RecvTypes, SavedBegins
    <2>2. ASSUME NEW n \in 0 .. total, disk' = Written(n)
          PROVE  SavedBegins' /\ disk'.acked \in BOOLEAN
      <3>1. /\ disk'.acked \in BOOLEAN
            /\ disk'.acked = TRUE => client.acked = TRUE /\ n = total
            /\ disk'.file = client.file
            /\ disk'.data = [i \in 1 .. n |-> mem[HeaderLen + i]]
        <4>1. client.acked \in BOOLEAN
          BY DEF RecvInv, RecvTypes
        <4>2. disk'.acked = (client.acked /\ n = total)
          BY <2>2 DEF Written
        <4>3. /\ disk'.file = client.file
              /\ disk'.data = [i \in 1 .. n |-> mem[HeaderLen + i]]
          BY <2>2 DEF Written
        <4>4. QED
          BY <4>1, <4>2, <4>3
      <3>2. CASE disk'.acked = TRUE
        <4>1. /\ client.file \in Files /\ total = client.file.size
              /\ Holds(client.file.size)
          BY <3>1, <3>2 DEF RecvInv, AckedInv
        <4>2. client.file.size \in Nat /\ HeaderLen \in Nat
          BY <4>1, ReceiverAssumption, DhcpAssumption
        <4>3. /\ disk'.file = client.file
              /\ disk'.data = [i \in 1 .. client.file.size |-> mem[HeaderLen + i]]
          BY <3>1, <3>2, <4>1
        <4>4. Len(disk'.data) = client.file.size
          BY <4>2, <4>3
        <4>5. ASSUME NEW i \in 1 .. client.file.size - HeaderLen
              PROVE  disk'.data[i] = Unit(client.file, HeaderLen + i)
          <5>1. i \in 1 .. client.file.size /\ HeaderLen + i \in 1 .. client.file.size
            BY <4>2
          <5>2. QED
            BY <4>1, <4>3, <5>1 DEF Holds
        <4>6. QED
          BY <3>1, <4>3, <4>4, <4>5 DEF SavedBegins
      <3>3. CASE disk'.acked = FALSE
        BY <3>3 DEF SavedBegins
      <3>4. QED
        BY <3>1, <3>2, <3>3
    <2>3. QED
      BY <2>1, <2>2 DEF Save
  <1>4. RecvTypes'
    BY <1>1, <1>2, <1>3 DEF RecvInv, RecvTypes, Save, NoClient
  <1>5. QED
    BY <1>1, <1>2, <1>3, <1>4 DEF RecvInv, AckedInv

LEMMA NextRecvInv == RecvInv /\ [Next]_vars => RecvInv'
  <1> SUFFICES ASSUME RecvInv, [Next]_vars PROVE RecvInv'
    OBVIOUS
  <1>1. CASE InBoot(DhcpNext)
    BY <1>1, BootRecvInv
  <1>2. CASE InShell(ReceiverNext)
    BY <1>2, QuietRecvInv, HeaderRecvInv, PayloadRecvInv, SaveRecvInv, ConnectRecvInv, SendRecvInv,
       GiveUpRecvInv DEF InShell, ReceiverNext, Loop, dhcpVars
  <1>3. CASE Reboot
    BY <1>3, RebootRecvInv
  <1>4. CASE UNCHANGED vars
    <2>1. RecvTypes' /\ SavedBegins' /\ AckedInv = AckedInv' /\ StreamInv = StreamInv'
      BY <1>4 DEF vars, recvVars, RecvInv, RecvTypes, SavedBegins, AckedInv, StreamInv, Holds,
           Consumed
    <2>2. QED
      BY <1>4, <2>1 DEF vars, dhcpVars, recvVars, RecvInv
  <1>5. QED
    BY <1>1, <1>2, <1>3, <1>4 DEF Next

\* Whatever was broken off before and however the stream was cut, with any
\* files, buffer and header: what is saved after "Arq lido" has the length of
\* the client's file and begins with all the content the client sent.
THEOREM SavedFileBegins == Spec => []SavedBegins
  <1>1. RecvInv => SavedBegins
    BY DEF RecvInv
  <1>2. QED
    BY <1>1, InitRecvInv, NextRecvInv, PTL DEF Spec
=============================================================================
