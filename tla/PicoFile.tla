------------------------------ MODULE PicoFile ------------------------------
(***************************************************************************)
(* The file server of the Pico 2 W.  Core 1 receives files over TCP        *)
(* (tcp_server_recv in peripheral/pico2W/pds200_1.c) and publishes the     *)
(* last one in global variables; core 0 serves it to the 68000 byte by     *)
(* byte through the bus registers (gerenciar_barramento_m68k in            *)
(* orion_bus.c).  There is no lock between the cores.  Every store to a    *)
(* shared variable is a step, and so is every load, with two exceptions:   *)
(* the byte of register 0 is loaded in one step with its pointer and index *)
(* (which core 0 keeps for its store), and of the loads of register 1 only *)
(* the one of arquivo_pronto matters to the program.                       *)
(*                                                                         *)
(* A file is a name with a size; its content is a sequence of <<name, i>>. *)
(* The 16-byte header of the stream has HeaderLen units, the file_t in     *)
(* front of the published content is one unit, and a CRC stands for the    *)
(* bytes it is computed over.                                              *)
(***************************************************************************)
EXTENDS Naturals, Sequences

CONSTANTS
  Conns,         \* TCP connections the server may have at one time
  Blocks,        \* the file blocks the heap has room for
  FileSize,      \* the size of each file the clients send
  HeaderLen,     \* TAMANHO_CABECALHO
  GarbageSizes,  \* what four bytes of content read as a size
  Byte,          \* what a register holds, 256
  SizeMod,       \* what the two size registers hold, 65536
  CrcRegs,       \* the registers of the CRC, 4
  None           \* NULL

Files == DOMAIN FileSize

ASSUME FileAssumption ==
  /\ FileSize \in [Files -> Nat]
  /\ HeaderLen \in Nat \ {0} /\ CrcRegs \in Nat \ {0}
  /\ Byte \in Nat \ {0} /\ SizeMod \in Nat \ {0} /\ SizeMod % Byte = 0
  /\ GarbageSizes \subseteq Nat
  /\ None \notin Blocks

VARIABLES
  conn,     \* the connections: conexao_estado_t and the client's end
  live,     \* the blocks malloc gave out and free has not taken back
  block,    \* the file_t in each block
  lost,     \* blocks of connections that were reset: nobody has their address
  broken,   \* core 1 used memory it did not own: what follows is undefined
  core1,    \* place of core 1 in the publication, and the connection it serves
  buffer,   \* arquivo_buffer
  tamanho,  \* arquivo_tamanho
  crc,      \* arquivo_crc32
  ponteiro, \* ponteiro_leitura
  pronto,   \* arquivo_pronto
  core0,    \* place of core 0 in an access, ponteiro_leitura as it loaded it
  reader,   \* the program on the 68000
  touched   \* a byte was read, or was being read, since ponteiro was reset

heapVars == <<live, block, lost>>
fileVars == <<buffer, tamanho, crc, ponteiro, pronto>>
busVars  == <<core0, reader, touched>>
vars     == <<conn, heapVars, broken, core1, fileVars, busVars>>

Closed == [st |-> "closed", estado |-> "CABECALHO", pfh |-> None,
           file |-> None, pos |-> 0, intact |-> TRUE]
Empty  == [name |-> None, size |-> 0, conteudo |-> <<>>, intact |-> TRUE]
Asking == [at |-> "status", size |-> 0, got |-> <<>>, regs |-> 0, match |-> TRUE, calm |-> FALSE]
Junk   == <<"junk">>

\* The CRC of a sector of the SD card, which is no file's.
Sector == <<<<"sector">>>>

Init ==
  /\ conn = [c \in Conns |-> Closed]
  /\ live = {} /\ lost = {} /\ block = [b \in Blocks |-> Empty]
  /\ broken = FALSE
  /\ core1 = [at |-> "poll", c |-> None]
  /\ buffer = None /\ tamanho = 0 /\ crc = <<>> /\ ponteiro = 0 /\ pronto = FALSE
  /\ core0 = [at |-> "idle", ponteiro |-> 0]
  /\ reader = Asking
  /\ touched = FALSE

-----------------------------------------------------------------------------
(* Core 1: the callbacks of lwIP, called from cyw43_arch_poll.             *)

Polling == core1.at = "poll" /\ ~broken

\* tcp_server_accept.  When calloc has no room for es, lwIP aborts the new
\* connection and nothing else has changed.
Accept(c) ==
  /\ Polling
  /\ conn[c].st = "closed"
  /\ \/ \E f \in Files : conn' = [conn EXCEPT ![c] = [Closed EXCEPT !.st = "open", !.file = f]]
     \/ UNCHANGED conn
  /\ UNCHANGED <<heapVars, broken, core1, fileVars, busVars>>

\* What the client sends: the header, then the content.
StreamLen(f) == HeaderLen + FileSize[f]
Content(f, i, j) == [k \in 1 .. j - i |-> <<f, i + k - HeaderLen>>]

\* Faulty variant of CopyFrom: the header is copied as well.
CopyFromStart(c, len) == 0

\* Faulty variant of Complete: one byte more is waited for.
CompleteAfter(received, total) == received > total

\* The unit of a segment the copy starts with, indice_dados.
CopyFrom(c, len) == IF conn[c].estado = "CABECALHO" THEN HeaderLen ELSE 0

Complete(received, total) == received >= total

\* tcp_server_recv with len units in the first pbuf of a segment of n: the
\* other pbufs are acknowledged and never looked at.  A first segment shorter
\* than the header is dropped.  "intact" records that nothing was lost.
Dropped(c, len) == conn[c].estado = "CABECALHO" /\ len < HeaderLen

\* The size in the header, or in whatever is taken for it.
SizeRead(c) == IF conn[c].pos = 0 THEN {FileSize[conn[c].file]} ELSE GarbageSizes

AsSent(c, n, len) == conn[c].intact /\ len = n /\ ~Dropped(c, len)

RecvNothing(c, n, len) ==
  /\ Dropped(c, len)
  /\ conn' = [conn EXCEPT ![c].pos = @ + n, ![c].intact = FALSE]
  /\ UNCHANGED <<heapVars, broken, core1, fileVars, busVars>>

\* Content goes to block b.  Past the end of the block memory is overwritten.
\* What comes once the file is complete is dropped.
Copy(c, n, len, b, total, had) ==
  LET file == conn[c].file
      all  == had \o Content(file, conn[c].pos + CopyFrom(c, len), conn[c].pos + len)
      full == Complete(Len(all), total)
      es   == [conn[c] EXCEPT !.pfh = b, !.intact = AsSent(c, n, len)]
  IN /\ conn' = [conn EXCEPT ![c] =
                   IF full THEN [es EXCEPT !.estado = "CONCLUIDO", !.file = None, !.pos = 0]
                           ELSE [es EXCEPT !.estado = "DADOS", !.pos = @ + n]]
     /\ block' = [block EXCEPT ![b] = [name |-> file, size |-> total, conteudo |-> all,
                                       intact |-> AsSent(c, n, len)]]
     /\ broken' = (Len(all) > total)
     /\ core1' = IF full THEN [at |-> "free", c |-> c] ELSE core1
     /\ UNCHANGED <<lost, fileVars, busVars>>

RecvHeader(c, n, len) ==
  /\ conn[c].estado = "CABECALHO" /\ ~Dropped(c, len)
  /\ \E b \in Blocks \ live, total \in SizeRead(c) :
       live' = live \cup {b} /\ Copy(c, n, len, b, total, <<>>)

\* malloc returned NULL: the connection is closed and es is freed, but lwIP
\* keeps the refused segment and the address of es.
RecvNoMemory(c, n, len) ==
  /\ conn[c].estado = "CABECALHO" /\ ~Dropped(c, len)
  /\ Blocks \subseteq live
  /\ conn' = [conn EXCEPT ![c] = [Closed EXCEPT !.st = "refused"]]
  /\ UNCHANGED <<heapVars, broken, core1, fileVars, busVars>>

RecvData(c, n, len) ==
  /\ conn[c].estado = "DADOS"
  /\ LET b == conn[c].pfh IN Copy(c, n, len, b, block[b].size, block[b].conteudo)
  /\ UNCHANGED live

Recv(c) ==
  /\ Polling
  /\ conn[c].st = "open" /\ conn[c].estado # "CONCLUIDO"
  /\ \E n \in 1 .. StreamLen(conn[c].file) - conn[c].pos : \E len \in 1 .. n :
       \/ RecvNothing(c, n, len)
       \/ RecvHeader(c, n, len)
       \/ RecvNoMemory(c, n, len)
       \/ RecvData(c, n, len)

\* lwIP offers the refused segment again, with the freed es: undefined.
Redeliver(c) ==
  /\ Polling
  /\ conn[c].st = "refused"
  /\ broken' = TRUE
  /\ UNCHANGED <<conn, heapVars, core1, fileVars, busVars>>

Free(b) ==
  /\ live' = live \ {b}
  /\ block' = [x \in Blocks |-> IF x = b THEN Empty ELSE block[x]]

\* Faulty variant of Unfinished: a published block is freed as well.
UnfinishedAlways(c) == conn[c].pfh # None

Unfinished(c) == conn[c].estado # "CONCLUIDO" /\ conn[c].pfh # None

\* The client closed the connection: tcp_server_recv with p = NULL.
Disconnect(c) ==
  /\ Polling
  /\ conn[c].st = "open"
  /\ IF Unfinished(c) THEN Free(conn[c].pfh) ELSE UNCHANGED <<live, block>>
  /\ conn' = [conn EXCEPT ![c] = Closed]
  /\ UNCHANGED <<lost, broken, core1, fileVars, busVars>>

\* The connection is reset: there is no tcp_err callback, so nobody is told.
ResetConn(c) ==
  /\ Polling
  /\ conn[c].st = "open"
  /\ lost' = IF conn[c].estado = "DADOS" THEN lost \cup {conn[c].pfh} ELSE lost
  /\ conn' = [conn EXCEPT ![c] = Closed]
  /\ UNCHANGED <<live, block, broken, core1, fileVars, busVars>>

-----------------------------------------------------------------------------
(* Core 1: the end of a file, with core 0 running beside it.               *)

\* A file as the 68000 reads it, the part the CRC covers.
Whole(f) == <<<<f.name, "file_t", f.size>>>> \o SubSeq(f.conteudo, 1, f.size)

Core1At(at, next) ==
  /\ core1.at = at /\ ~broken
  /\ core1' = [at |-> next, c |-> IF next = "poll" THEN None ELSE core1.c]
  /\ reader' = [reader EXCEPT !.calm = FALSE]
  /\ UNCHANGED <<conn, lost, broken, core0>>

\* The file published before is freed.
FreeOld ==
  /\ Core1At("free", "null")
  /\ Free(buffer)
  /\ UNCHANGED <<fileVars, touched>>

SetNull ==
  /\ Core1At("null", "buffer")
  /\ buffer' = None
  /\ UNCHANGED <<live, block, tamanho, crc, ponteiro, pronto, touched>>

SetBuffer ==
  /\ Core1At("buffer", "tamanho")
  /\ buffer' = conn[core1.c].pfh
  /\ UNCHANGED <<live, block, tamanho, crc, ponteiro, pronto, touched>>

\* sizeof(file_t), one unit, and the content.
SetTamanho ==
  /\ Core1At("tamanho", "crc")
  /\ tamanho' = 1 + block[buffer].size
  /\ UNCHANGED <<live, block, buffer, crc, ponteiro, pronto, touched>>

\* Faulty variant of SetCrc: the CRC of the file before stays.
SetCrcNot ==
  /\ Core1At("crc", "ponteiro")
  /\ UNCHANGED <<live, block, fileVars, touched>>

SetCrc ==
  /\ Core1At("crc", "ponteiro")
  /\ crc' = Whole(block[buffer])
  /\ UNCHANGED <<live, block, buffer, tamanho, ponteiro, pronto, touched>>

\* Faulty variant of SetPonteiro: ponteiro_leitura is left as it is.
SetPonteiroNot ==
  /\ Core1At("ponteiro", "pronto")
  /\ touched' = FALSE
  /\ UNCHANGED <<live, block, fileVars>>

SetPonteiro ==
  /\ Core1At("ponteiro", "pronto")
  /\ ponteiro' = 0
  /\ touched' = FALSE
  /\ UNCHANGED <<live, block, buffer, tamanho, crc, pronto>>

\* arquivo_pronto, and the confirmation to the client.
SetPronto ==
  /\ Core1At("pronto", "poll")
  /\ pronto' = TRUE
  /\ UNCHANGED <<live, block, buffer, tamanho, crc, ponteiro, touched>>

Publish == \/ FreeOld \/ SetNull \/ SetBuffer \/ SetTamanho
           \/ SetCrc \/ SetPonteiro \/ SetPronto

-----------------------------------------------------------------------------
(* Core 0: an access of the 68000.  The program reads as the loader of     *)
(* drivers/picoW/picow.c does: status, size, data, CRC; it ends with       *)
(* register 8 or with nothing.                                             *)

Core0(next) == core0' = [core0 EXCEPT !.at = next]

Access ==
  /\ core0.at = "idle" /\ ~broken
  /\ Core0("test")
  /\ UNCHANGED <<conn, heapVars, broken, core1, fileVars, reader, touched>>

\* The whole file was read: ponteiro and pronto are cleared.
TestPronto ==
  /\ core0.at = "test"
  /\ Core0(IF pronto THEN "load" ELSE "serve")
  /\ UNCHANGED <<conn, heapVars, broken, core1, fileVars, reader, touched>>

TestPonteiro ==
  /\ core0.at = "load"
  /\ core0' = [at |-> "compare", ponteiro |-> ponteiro]
  /\ UNCHANGED <<conn, heapVars, broken, core1, fileVars, reader, touched>>

TestTamanho ==
  /\ core0.at = "compare"
  /\ core0' = [at |-> IF core0.ponteiro >= tamanho THEN "zero" ELSE "serve", ponteiro |-> 0]
  /\ UNCHANGED <<conn, heapVars, broken, core1, fileVars, reader, touched>>

ZeroPonteiro ==
  /\ core0.at = "zero"
  /\ ponteiro' = 0
  /\ Core0("clear")
  /\ UNCHANGED <<conn, heapVars, broken, core1, buffer, tamanho, crc, pronto, reader, touched>>

ClearPronto ==
  /\ core0.at = "clear"
  /\ pronto' = FALSE
  /\ Core0("serve")
  /\ UNCHANGED <<conn, heapVars, broken, core1, buffer, tamanho, crc, ponteiro, reader, touched>>

Serve(at) == core0.at = "serve" /\ reader.at = at

Served ==
  /\ Core0("idle")
  /\ UNCHANGED <<conn, heapVars, broken, core1, buffer, tamanho, ponteiro, touched>>

\* Register 1: not 0 when there is a file; the program asks again as long as
\* it reads 0.
ServeStatus ==
  /\ Serve("status")
  /\ reader' = IF pronto
               THEN [Asking EXCEPT !.at = "size", !.calm = core1.at = "poll" /\ ~touched]
               ELSE reader
  /\ Served
  /\ UNCHANGED <<crc, pronto>>

\* Register 2, the high byte of the size ...
ServeSizeHigh ==
  /\ Serve("size")
  /\ reader' = [reader EXCEPT !.size = tamanho - (tamanho % Byte), !.at = "low"]
  /\ Served
  /\ UNCHANGED <<crc, pronto>>

\* ... and register 3, the low one; the program takes a size of 0 for an error.
ServeSizeLow ==
  /\ Serve("low")
  /\ LET size == (reader.size + (tamanho % Byte)) % SizeMod
     IN reader' = [reader EXCEPT !.size = size, !.at = IF size = 0 THEN "refuse" ELSE "data"]
  /\ Served
  /\ UNCHANGED <<crc, pronto>>

\* The byte at an index: the file_t, content, or memory that holds no file.
ByteAt(b, i) ==
  IF b \notin live \/ i > block[b].size \/ i > Len(block[b].conteudo) THEN Junk
  ELSE IF i = 0 THEN <<block[b].name, "file_t", block[b].size>> ELSE block[b].conteudo[i]

\* Register 0: the byte at ponteiro ...
ServeData ==
  /\ Serve("data")
  /\ reader' = LET got == Append(reader.got, ByteAt(buffer, ponteiro))
               IN [reader EXCEPT !.got = got, !.at = IF Len(got) = reader.size THEN "crc" ELSE @]
  /\ core0' = [at |-> "store", ponteiro |-> ponteiro]
  /\ UNCHANGED <<conn, heapVars, broken, core1, fileVars, touched>>

\* ... and ponteiro_leitura++.
StorePonteiro ==
  /\ core0.at = "store"
  /\ ponteiro' = core0.ponteiro + 1
  /\ touched' = TRUE
  /\ core0' = [at |-> "idle", ponteiro |-> 0]
  /\ UNCHANGED <<conn, heapVars, broken, core1, buffer, tamanho, crc, pronto, reader>>

\* Faulty variant of Matches: the program takes any file of the right size.
MatchesAny(r) == TRUE

\* The byte of the CRC read is that of the CRC of the bytes the program got.
Matches(r) == r.got = crc

\* Registers 4 to 7, one after the other: the program accepts the file when
\* the four bytes are those of the CRC it computes.
ServeCrc ==
  /\ Serve("crc")
  /\ LET match == reader.match /\ Matches(reader)
         last  == reader.regs + 1 = CrcRegs
     IN reader' = [reader EXCEPT !.regs = @ + 1, !.match = match,
                                 !.at = IF ~last THEN @ ELSE IF match THEN "accept" ELSE "refuse"]
  /\ Served
  /\ UNCHANGED <<crc, pronto>>

\* Register 8: the program is done with the file.
ServeDone ==
  /\ core0.at = "serve" /\ reader.at \in {"accept", "refuse"}
  /\ pronto' = FALSE
  /\ reader' = Asking
  /\ Served
  /\ UNCHANGED crc

\* Register 0x0C, by a program that is not reading a file: a sector is loaded
\* from the card and its CRC goes where the file's was.  Core 0 puts no answer;
\* the cycle of the 68000 ends with the word of a key or with a reset.
LoadSector ==
  /\ Serve("status")
  /\ crc' = Sector
  /\ Served
  /\ UNCHANGED <<pronto, reader>>

Core0Step == \/ TestPronto \/ TestPonteiro \/ TestTamanho \/ ZeroPonteiro \/ ClearPronto
             \/ ServeStatus \/ ServeSizeHigh \/ ServeSizeLow \/ ServeData \/ StorePonteiro
             \/ ServeCrc \/ ServeDone \/ LoadSector

\* The program ends, or the 68000 is reset, between two accesses.
Restart ==
  /\ core0.at = "idle" /\ reader.at # "status" /\ ~broken
  /\ reader' = Asking
  /\ UNCHANGED <<conn, heapVars, broken, core1, fileVars, core0, touched>>

-----------------------------------------------------------------------------
Next ==
  \/ \E c \in Conns : Accept(c) \/ Recv(c) \/ Redeliver(c) \/ Disconnect(c) \/ ResetConn(c)
  \/ Publish
  \/ Access \/ Core0Step \/ Restart

Spec == Init /\ [][Next]_vars

-----------------------------------------------------------------------------
(* Properties.                                                             *)

Held == {conn[c].pfh : c \in {x \in Conns : conn[x].estado = "DADOS"}}
          \cup (IF core1.at \in {"free", "null", "buffer"} THEN {conn[core1.c].pfh} ELSE {})

\* Every block has exactly one owner: a connection that still receives, the
\* publication under way, arquivo_buffer, or a connection that was reset.
\* arquivo_buffer never points to a freed block once the old one is replaced,
\* although the block of a finished connection stays in its es->pfh and the
\* connection may close at any time afterwards.
BlocksAccounted ==
  /\ live = Held \cup lost \cup (IF core1.at = "null" THEN {} ELSE {buffer} \ {None})
  /\ buffer \notin Held \cup lost

\* When arquivo_pronto is seen outside a publication, the size belongs to the
\* block that is pointed to, and so does the CRC unless the 68000 loaded a
\* sector in between (never is it that of an earlier file); the block is
\* whole, and unless the client's segments came in pieces the code does not
\* put together, it is the file the client sent.
PublishedIsSent ==
  pronto /\ core1.at = "poll" =>
    /\ buffer \in live
    /\ tamanho = 1 + block[buffer].size /\ crc \in {Whole(block[buffer]), Sector}
    /\ Len(block[buffer].conteudo) >= block[buffer].size
    /\ block[buffer].intact => LET f == block[buffer].name IN
         /\ block[buffer].size = FileSize[f]
         /\ block[buffer].conteudo = Content(f, HeaderLen, StreamLen(f))

\* A program that begins to read a file nobody read from yet, and during
\* whose reading core 1 publishes nothing, gets it whole; it accepts it
\* exactly if its size fits the registers and no sector was loaded since the
\* file was published.
CalmRead ==
  reader.calm /\ reader.at \in {"accept", "refuse"} =>
    /\ reader.at = "accept" <=> tamanho < SizeMod /\ crc # Sector
    /\ reader.at = "accept" => reader.got = Whole(block[buffer])

\* The bytes of one file, all of it: as many as its file_t says.
OneFile(s) ==
  LET f == s[1] IN Len(s) = 1 + f[3] /\ \A i \in 2 .. Len(s) : s[i][1] = f[1]

\* Whatever core 1 publishes or frees while the 68000 reads, and however the
\* two bytes of the size and the four of the CRC were torn, a program never
\* accepts parts of two files, or a part of one: what it accepts begins with
\* a file_t and has as many bytes of that file as the file_t says.
AcceptedIsOneFile ==
  reader.at = "accept" => OneFile(reader.got)

\* Core 1 writes outside its memory only because a connection's segments came
\* in pieces or because malloc failed, never for a client whose header and
\* content arrive as sent.
BrokenByPieces ==
  broken => \E c \in Conns : conn[c].st = "refused" \/ ~conn[c].intact

\* A client that sent everything and lost nothing does not wait: its file was
\* published, an empty file as well.
SentIsPublished ==
  \A c \in Conns :
    Polling /\ conn[c].st = "open" /\ conn[c].intact /\ conn[c].estado # "CONCLUIDO" =>
      conn[c].pos < StreamLen(conn[c].file)

\* While the 68000 reads a file, the block it reads from stays allocated.
AliveWhileRead ==
  reader.at = "data" => buffer \in live
=============================================================================
