------------------------------ MODULE Receiver ------------------------------
(***************************************************************************)
(* The shell command recv: do_receiver, w5100_getter_loop and saving_file  *)
(* in bios/shell/receiver.c, with the client tools/sender2/sender.c.  The  *)
(* loop polls the socket's state, collects a header and a payload in       *)
(* memory across its calls, and saves the memory to a file.                *)
(*                                                                         *)
(* The client puts the header in front of the file's content and sends as  *)
(* many bytes as the file has, header included.                            *)
(***************************************************************************)
EXTENDS W5100

CONSTANTS
  Files,     \* the files the clients send: [id, size]
  HeaderLen  \* the 21 bytes of the header, in units

ASSUME ReceiverAssumption ==
  /\ HeaderLen \in 1 .. RxCap
  /\ \A f \in Files : f.size \in Nat \ {0}
  /\ \E n \in {f.size : f \in Files} : \A f \in Files : f.size <= n

VARIABLES
  rpc,       \* "shell", or the place of do_receiver
  estado,    \* the static variables of w5100_getter_loop
  recebidos, \* bytes_recebidos
  total,     \* tamanho_total
  mem,       \* BUFFER_ARQUIVO
  client,    \* the client: its file, what it sent, whether the ack was sent,
             \* whether the 68000 was reset behind its back
  disk       \* the file last saved, whose transfer it came from, and whether
             \* all of an acknowledged transfer was saved

recvVars == <<rpc, estado, recebidos, total, mem, client, disk>>

\* Unit i of what a client has in its memory: the header, then the content.
Unit(f, i) == IF i <= HeaderLen THEN <<f.id, "header", f.size>> ELSE <<f.id, i - HeaderLen>>
MaxSize == CHOOSE n \in {f.size : f \in Files} : \A f \in Files : f.size <= n

NoClient == [file |-> None, sent |-> 0, acked |-> FALSE, cut |-> FALSE]

\* The startup code clears the whole RAM.
ClearedMem == [i \in 1 .. MaxSize + HeaderLen |-> None]

ReceiverInit ==
  /\ rpc = "shell"
  /\ estado = "HEADER" /\ recebidos = 0 /\ total = 0
  /\ mem = ClearedMem
  /\ client = NoClient
  /\ disk = [file |-> None, data |-> <<>>, acked |-> FALSE]

-----------------------------------------------------------------------------
(* do_receiver                                                             *)

DoReceiver ==
  /\ rpc = "shell"
  /\ rpc' = "loop"
  /\ UNCHANGED <<sock, rx, estado, recebidos, total, mem, client, disk>>

\* Faulty variant of LoopClosed: estado is not reset.
LoopClosedKeeps ==
  /\ rpc = "loop" /\ sock = "CLOSED"
  /\ Open("INIT")
  /\ UNCHANGED <<rpc, estado, recebidos, total, mem, client, disk>>

LoopClosed ==
  /\ rpc = "loop" /\ sock = "CLOSED"
  /\ Open("INIT")
  /\ estado' = "HEADER" /\ recebidos' = 0
  /\ UNCHANGED <<rpc, total, mem, client, disk>>

LoopInit ==
  /\ rpc = "loop" /\ sock = "INIT"
  /\ sock' = "LISTEN"
  /\ UNCHANGED <<rx, rpc, estado, recebidos, total, mem, client, disk>>

\* n units go from the buffer to memory, after the first "at" ones.
RecvBytes(at, n) ==
  /\ mem' = [i \in DOMAIN mem |-> IF i \in at + 1 .. at + n THEN rx[i - at] ELSE mem[i]]
  /\ rx' = SubSeq(rx, n + 1, Len(rx))

LoopHeader ==
  /\ rpc = "loop" /\ sock = "ESTABLISHED"
  /\ estado = "HEADER" /\ Len(rx) >= HeaderLen
  /\ RecvBytes(0, HeaderLen)
  /\ total' = rx[1][3]
  /\ recebidos' = HeaderLen
  /\ estado' = "PAYLOAD"
  /\ UNCHANGED <<sock, rpc, client, disk>>

\* Faulty variant of Enough: one byte more is waited for.
EnoughMore(n) == n > total

Enough(n) == n >= total

\* After the last unit: "Arq lido", disconnect.
LoopPayload ==
  /\ rpc = "loop" /\ sock = "ESTABLISHED"
  /\ estado = "PAYLOAD" /\ rx # <<>>
  /\ LET restante == total - recebidos
         bloco    == IF Len(rx) < restante THEN Len(rx) ELSE restante
     IN /\ RecvBytes(recebidos, bloco)
        /\ recebidos' = recebidos + bloco
        /\ \/ /\ Enough(recebidos + bloco)
              /\ estado' = "HEADER" /\ sock' = "CLOSING" /\ rpc' = "save"
              /\ client' = [client EXCEPT !.acked = TRUE]
           \/ ~Enough(recebidos + bloco) /\ UNCHANGED <<estado, sock, rpc, client>>
  /\ UNCHANGED <<total, disk>>

\* The client closed: what is in the buffer is not read, the call is over.
LoopCloseWait ==
  /\ rpc = "loop" /\ sock = "CLOSE_WAIT"
  /\ Discon
  /\ rpc' = "save"
  /\ UNCHANGED <<estado, recebidos, total, mem, client, disk>>

\* The file has n units, from behind the header.
Written(n) == [file |-> client.file, acked |-> client.acked /\ n = total,
               data |-> [i \in 1 .. n |-> mem[HeaderLen + i]]]

\* saving_file writes tamanho_total units.  The open may fail, which leaves
\* the disk alone; once it succeeded the old content is gone, and the write
\* may fail at any unit.
Save ==
  /\ rpc = "save"
  /\ rpc' = "shell"
  /\ \/ UNCHANGED disk
     \/ total # 0 /\ \E n \in 0 .. total : disk' = Written(n)
  /\ client' = IF client.acked THEN NoClient ELSE client
  /\ UNCHANGED <<sock, rx, estado, recebidos, total, mem>>

\* In any other state w5100_getter_loop returns 1 and is called again.
LoopOther ==
  /\ rpc = "loop" /\ sock \notin {"CLOSED", "INIT", "ESTABLISHED", "CLOSE_WAIT"}
  /\ UNCHANGED <<sock, rx, recvVars>>

Loop == LoopClosed \/ LoopInit \/ LoopHeader \/ LoopPayload \/ LoopCloseWait \/ Save

-----------------------------------------------------------------------------
(* The client and the network.                                             *)

Connect ==
  /\ sock = "LISTEN"
  /\ \E f \in Files : client' = [NoClient EXCEPT !.file = f]
  /\ sock' = "ESTABLISHED" /\ rx' = <<>>
  /\ UNCHANGED <<rpc, estado, recebidos, total, mem, disk>>

\* Some more of what the client sends arrives.
Send ==
  /\ sock = "ESTABLISHED"
  /\ \E n \in 1 .. client.file.size - client.sent :
       /\ Len(rx) + n <= RxCap
       /\ rx' = rx \o [i \in 1 .. n |-> Unit(client.file, client.sent + i)]
       /\ client' = [client EXCEPT !.sent = @ + n]
  /\ UNCHANGED <<sock, rpc, estado, recebidos, total, mem, disk>>

\* The client ends before the ack, or its machine goes away.
GiveUp ==
  /\ sock = "ESTABLISHED"
  /\ sock' \in {"CLOSE_WAIT", "CLOSED"}
  /\ client' = NoClient
  /\ UNCHANGED <<rx, rpc, estado, recebidos, total, mem, disk>>

\* The disconnection is complete.
Closed ==
  /\ sock = "CLOSING"
  /\ sock' = "CLOSED" /\ rx' = <<>>
  /\ UNCHANGED recvVars

ReceiverNext == DoReceiver \/ Loop \/ LoopOther \/ Connect \/ Send \/ GiveUp \/ Closed

-----------------------------------------------------------------------------
(* Properties.                                                             *)

\* A file saved after its transfer was acknowledged begins with everything
\* the client sent of its content, in order, however the stream was cut and
\* whatever transfers were broken off before; its length is the client's.
SavedBegins ==
  disk.acked =>
    /\ Len(disk.data) = disk.file.size
    /\ \A i \in 1 .. disk.file.size - HeaderLen : disk.data[i] = Unit(disk.file, HeaderLen + i)

\* The file saved is the client's file.
SavedIsFile ==
  disk.acked => disk.data = [i \in 1 .. disk.file.size |-> Unit(disk.file, HeaderLen + i)]

\* A client that connected does not wait for ever for "Arq lido" unless the
\* 68000 is reset, if its file is longer than the header.  With one as long as
\* the header or shorter both sides wait for the other; after a reset the
\* client is left in recv, which has no timeout.
TransferEnds ==
  client.file # None /\ ~client.cut /\ client.file.size > HeaderLen
    ~> client.file = None \/ client.cut
=============================================================================
