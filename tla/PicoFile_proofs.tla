-------------------------- MODULE PicoFile_proofs --------------------------
(***************************************************************************)
(* Proofs about PicoFile for any connections, heap and files, any cutting  *)
(* of the streams into segments and pbufs, and any interleaving of the two *)
(* cores.                                                                  *)
(***************************************************************************)
EXTENDS PicoFile, Integers, SequenceTheorems, TLAPS

Units == {<<f, i>> : f \in Files, i \in Int}
Bytes == Units \cup {<<f, "file_t", n>> : f \in Files \cup {None}, n \in Nat}

FileTypes == [name : Files \cup {None}, size : Nat, conteudo : Seq(Units), intact : BOOLEAN]
ConnTypes == [st : {"closed", "open", "refused"}, estado : {"CABECALHO", "DADOS", "CONCLUIDO"},
              pfh : Blocks \cup {None}, file : Files \cup {None}, pos : Nat, intact : BOOLEAN]

Places == {"poll", "free", "null", "buffer", "tamanho", "crc", "ponteiro", "pronto"}

Types ==
  /\ conn \in [Conns -> ConnTypes] /\ block \in [Blocks -> FileTypes]
  /\ live \subseteq Blocks /\ lost \subseteq Blocks
  /\ broken \in BOOLEAN
  /\ core1.at \in Places /\ (core1.at # "poll" => core1.c \in Conns)
  /\ buffer \in Blocks \cup {None}

\* The block a connection still fills, and the one core 1 is about to publish.
Fills(c, b) == conn[c].estado = "DADOS" /\ conn[c].pfh = b
Ends(b)     == core1.at \in {"free", "null", "buffer"} /\ conn[core1.c].pfh = b

\* Every block given out has one owner, named block by block, and no two
\* connections fill the same one.
HeapInv ==
  /\ \A b \in Blocks : b \in live <=> \/ \E c \in Conns : Fills(c, b)
                                      \/ Ends(b)
                                      \/ b \in lost
                                      \/ core1.at # "null" /\ b = buffer
  /\ \A c \in Conns : conn[c].estado = "DADOS" =>
       /\ conn[c].st = "open" /\ conn[c].pfh \in Blocks \ lost
       /\ conn[c].pfh # buffer /\ ~Ends(conn[c].pfh)
       /\ \A d \in Conns : Fills(d, conn[c].pfh) => d = c
  /\ \A c \in Conns : conn[c].estado = "CABECALHO" => conn[c].pfh = None
  /\ core1.at # "poll" => conn[core1.c].estado = "CONCLUIDO"
  /\ core1.at \in {"free", "null", "buffer"} =>
       conn[core1.c].pfh \in Blocks \ lost /\ conn[core1.c].pfh # buffer
  /\ core1.at = "buffer" => buffer = None
  /\ buffer \notin lost

\* A block that holds a whole file: the client's, if nothing was lost.
Good(b) ==
  /\ b \in Blocks
  /\ Len(block[b].conteudo) >= block[b].size
  /\ block[b].intact = TRUE => LET f == block[b].name IN
       /\ block[b].size = FileSize[f]
       /\ block[b].conteudo = Content(f, HeaderLen, StreamLen(f))

\* A block that is being filled: as far as the client has sent.
Partial(c) ==
  LET b == block[conn[c].pfh] IN
  /\ Len(b.conteudo) < b.size
  /\ conn[c].intact = TRUE =>
       /\ b.size = FileSize[conn[c].file] /\ conn[c].pos >= HeaderLen
       /\ b.conteudo = Content(conn[c].file, HeaderLen, conn[c].pos)

DataInv ==
  \A c \in Conns :
    /\ conn[c].st = "open" /\ conn[c].estado # "CONCLUIDO" => conn[c].file \in Files
    /\ conn[c].estado = "CABECALHO" /\ conn[c].intact = TRUE => conn[c].pos = 0
    /\ conn[c].estado = "DADOS" => Partial(c)

\* What is published, as far as core 1 has come with it.
PubInv ==
  /\ core1.at \in {"free", "null", "buffer"} => Good(conn[core1.c].pfh)
  /\ core1.at # "null" /\ buffer # None => Good(buffer)
  /\ core1.at \in {"tamanho", "crc", "ponteiro", "pronto"} => buffer # None
  /\ core1.at \in Places \ {"null", "buffer", "tamanho"} /\ buffer # None =>
       tamanho = 1 + block[buffer].size
  /\ core1.at \in {"poll", "free", "ponteiro", "pronto"} /\ buffer # None =>
       crc \in {Whole(block[buffer]), Sector}
  /\ pronto /\ core1.at = "poll" => buffer # None

\* A program that reads undisturbed has got the first bytes of the file, and
\* ponteiro_leitura, or the store under way, is where it has come to.
CalmInv ==
  /\ core1.at \in {"poll", "free"} /\ buffer # None
  /\ reader.got \in Seq(Bytes) /\ Len(reader.got) <= tamanho
  /\ \A i \in 1 .. Len(reader.got) : reader.got[i] = Whole(block[buffer])[i]
  /\ reader.at \in {"size", "low"} => Len(reader.got) = 0 /\ core0.at # "store"
  /\ reader.at = "low" => reader.size = tamanho - (tamanho % Byte)
  /\ reader.at \in {"data", "crc"} => reader.size = tamanho % SizeMod
  /\ reader.at = "data" => Len(reader.got) < reader.size
  /\ reader.at = "crc" =>
       /\ Len(reader.got) = reader.size /\ reader.size # 0
       /\ reader.regs \in Nat /\ reader.match \in BOOLEAN
       /\ reader.match = TRUE <=> reader.regs = 0 \/ reader.got = crc
  /\ reader.at \in {"size", "low", "data"} =>
       /\ reader.regs = 0 /\ reader.match = TRUE
       /\ core0.at \notin {"zero", "clear"}
       /\ core0.at = "store" => core0.ponteiro + 1 = Len(reader.got)
       /\ core0.at = "compare" => core0.ponteiro = Len(reader.got)
       /\ core0.at # "store" => ponteiro = Len(reader.got)

ReadInv ==
  /\ touched = FALSE => ponteiro = 0
  /\ touched \in BOOLEAN /\ reader.calm \in BOOLEAN
  /\ reader = [at |-> reader.at, size |-> reader.size, got |-> reader.got, regs |-> reader.regs,
               match |-> reader.match, calm |-> reader.calm]
  /\ core0 = [at |-> core0.at, ponteiro |-> core0.ponteiro]
  /\ reader.at \in {"status", "size", "low", "data", "crc", "accept", "refuse"}
  /\ reader.calm = TRUE => reader.at # "status" /\ CalmInv
  /\ CalmRead

FileInv == Types /\ HeapInv /\ DataInv /\ PubInv /\ BrokenByPieces /\ ReadInv

-----------------------------------------------------------------------------
(* Content of a file.                                                      *)

LEMMA ContentProperties ==
  ASSUME NEW f \in Files, NEW i \in Nat, NEW j \in Nat, i <= j
  PROVE  /\ Content(f, i, j) \in Seq(Units) /\ Len(Content(f, i, j)) = j - i
         /\ \A k \in 1 .. j - i : Content(f, i, j)[k] = <<f, i + k - HeaderLen>>
  <1>1. \A k \in 1 .. j - i : <<f, i + k - HeaderLen>> \in Units
    BY FileAssumption DEF Units
  <1>2. j - i \in Nat
    OBVIOUS
  <1>3. QED
    BY <1>1, <1>2 DEF Content

\* What follows what was received is appended to it.
LEMMA ContentAppended ==
  ASSUME NEW f \in Files, NEW j \in Nat, NEW k \in Nat, HeaderLen <= j, j <= k
  PROVE  Content(f, HeaderLen, j) \o Content(f, j, k) = Content(f, HeaderLen, k)
  <1> DEFINE s == Content(f, HeaderLen, j)
             t == Content(f, j, k)
             u == Content(f, HeaderLen, k)
  <1>1. HeaderLen \in Nat /\ HeaderLen <= k
    BY FileAssumption
  <1>2. /\ s \in Seq(Units) /\ Len(s) = j - HeaderLen
        /\ \A m \in 1 .. j - HeaderLen : s[m] = <<f, HeaderLen + m - HeaderLen>>
    BY <1>1, ContentProperties
  <1>3. /\ t \in Seq(Units) /\ Len(t) = k - j
        /\ \A m \in 1 .. k - j : t[m] = <<f, j + m - HeaderLen>>
    BY <1>1, ContentProperties
  <1>4. /\ u \in Seq(Units) /\ Len(u) = k - HeaderLen
        /\ \A m \in 1 .. k - HeaderLen : u[m] = <<f, HeaderLen + m - HeaderLen>>
    BY <1>1, ContentProperties
  <1> HIDE DEF s, t, u
  <1>5. /\ s \o t \in Seq(Units) /\ Len(s \o t) = Len(u)
        /\ \A m \in 1 .. Len(s) : (s \o t)[m] = s[m]
        /\ \A m \in Len(s) + 1 .. Len(s) + Len(t) : (s \o t)[m] = t[m - Len(s)]
    <2>1. /\ s \o t \in Seq(Units) /\ Len(s \o t) = Len(s) + Len(t)
          /\ \A m \in 1 .. Len(s) + Len(t) :
                (s \o t)[m] = IF m <= Len(s) THEN s[m] ELSE t[m - Len(s)]
      BY <1>2, <1>3, ConcatProperties
    <2>2. Len(s) \in Nat /\ Len(t) \in Nat /\ Len(s) + Len(t) = Len(u)
      <3>1. (j - HeaderLen) + (k - j) = k - HeaderLen
        BY <1>1
      <3>2. QED
        BY <1>2, <1>3, <1>4, <3>1
    <2>3. QED
      BY <2>1, <2>2
  <1>6. ASSUME NEW m \in 1 .. Len(u) PROVE (s \o t)[m] = u[m]
    <2>1. CASE m \in 1 .. Len(s)
      BY <1>1, <1>2, <1>4, <1>5, <2>1
    <2>2. CASE m \in Len(s) + 1 .. Len(s) + Len(t)
      <3>1. (s \o t)[m] = t[m - Len(s)] /\ m - Len(s) \in 1 .. k - j
        BY <1>1, <1>2, <1>3, <1>5, <2>2
      <3>2. j + (m - Len(s)) - HeaderLen = HeaderLen + m - HeaderLen
        BY <1>1, <1>2, <2>2
      <3>3. t[m - Len(s)] = <<f, j + (m - Len(s)) - HeaderLen>>
        BY <1>3, <3>1
      <3>4. m \in 1 .. k - HeaderLen
        BY <1>4
      <3>5. QED
        BY <1>4, <3>1, <3>2, <3>3, <3>4
    <2>3. QED
      BY <1>1, <1>2, <1>3, <1>4, <2>1, <2>2
  <1>7. s \o t = u
    BY <1>4, <1>5, <1>6
  <1>8. QED
    BY <1>7 DEF s, t, u

\* A file as the 68000 reads it: the file_t and the content.
LEMMA WholeProperties ==
  ASSUME NEW f \in FileTypes, Len(f.conteudo) >= f.size
  PROVE  /\ Whole(f) \in Seq(Bytes) /\ Len(Whole(f)) = 1 + f.size
         /\ Whole(f)[1] = <<f.name, "file_t", f.size>>
         /\ \A i \in 1 .. f.size : Whole(f)[1 + i] = f.conteudo[i]
  <1> DEFINE h == <<<<f.name, "file_t", f.size>>>>
             t == SubSeq(f.conteudo, 1, f.size)
  <1>1. f.size \in Nat /\ f.conteudo \in Seq(Units) /\ f.name \in Files \cup {None}
    BY DEF FileTypes
  <1>2. t \in Seq(Units) /\ Len(t) = f.size /\ \A i \in 1 .. f.size : t[i] = f.conteudo[i]
    BY <1>1
  <1>3. <<f.name, "file_t", f.size>> \in Bytes
    BY <1>1 DEF Bytes
  <1>4. h \in Seq(Bytes) /\ Len(h) = 1
    BY <1>3
  <1>5. t \in Seq(Bytes)
    BY <1>2 DEF Bytes
  <1>6. Whole(f) = h \o t
    BY DEF Whole
  <1> HIDE DEF h, t
  <1>7. /\ h \o t \in Seq(Bytes) /\ Len(h \o t) = 1 + f.size
        /\ \A i \in 1 .. f.size : (h \o t)[1 + i] = t[i]
    <2>1. /\ h \o t \in Seq(Bytes) /\ Len(h \o t) = Len(h) + Len(t)
          /\ \A m \in 1 .. Len(h) + Len(t) :
                (h \o t)[m] = IF m <= Len(h) THEN h[m] ELSE t[m - Len(h)]
      BY <1>4, <1>5, ConcatProperties
    <2>2. QED
      BY <1>1, <1>2, <1>4, <2>1
  <1>8. (h \o t)[1] = <<f.name, "file_t", f.size>>
    <2>1. /\ h \o t \in Seq(Bytes) /\ Len(h \o t) = Len(h) + Len(t)
          /\ \A m \in 1 .. Len(h) + Len(t) :
                (h \o t)[m] = IF m <= Len(h) THEN h[m] ELSE t[m - Len(h)]
      BY <1>4, <1>5, ConcatProperties
    <2>2. (h \o t)[1] = h[1]
      BY <1>1, <1>2, <1>4, <2>1
    <2>3. h[1] = <<f.name, "file_t", f.size>>
      BY DEF h
    <2>4. QED
      BY <2>2, <2>3
  <1>9. QED
    BY <1>2, <1>6, <1>7, <1>8

-----------------------------------------------------------------------------
(* Init, and core 0.                                                       *)

LEMMA InitFileInv == Init => FileInv
  <1> SUFFICES ASSUME Init PROVE FileInv
    OBVIOUS
  <1>1. Closed \in ConnTypes /\ Empty \in FileTypes
    BY DEF Closed, Empty, ConnTypes, FileTypes
  <1>2. Types
    BY <1>1 DEF Init, Types, Places
  <1>3. HeapInv
    BY FileAssumption DEF Init, HeapInv, Closed, Fills, Ends
  <1>4. DataInv
    BY DEF Init, DataInv, Closed
  <1>5. PubInv
    BY DEF Init, PubInv
  <1>6. ReadInv
    BY DEF Init, ReadInv, Asking, CalmRead
  <1>7. QED
    BY <1>2, <1>3, <1>4, <1>5, <1>6 DEF FileInv, Init, BrokenByPieces

\* Core 0 changes neither the connections nor the heap, puts nothing but the
\* CRC of a sector into arquivo_crc32, and never sets arquivo_pronto.
LEMMA Core0FileInv ==
  ASSUME FileInv, UNCHANGED <<conn, heapVars, broken, core1, buffer, tamanho>>,
         crc' = crc \/ crc' = Sector, pronto' = pronto \/ pronto' = FALSE, ReadInv'
  PROVE  FileInv'
  <1> USE DEF heapVars
  <1>1. Types' /\ BrokenByPieces'
    BY DEF FileInv, Types, BrokenByPieces
  <1>2. HeapInv'
    BY DEF FileInv, HeapInv, Fills, Ends
  <1>3. DataInv'
    BY DEF FileInv, DataInv, Partial
  <1>4. PubInv'
    BY DEF FileInv, PubInv, Good
  <1>5. QED
    BY <1>1, <1>2, <1>3, <1>4 DEF FileInv

\* What is published outside a publication, and its size.
LEMMA Published ==
  ASSUME FileInv, core1.at \in {"poll", "free"}, buffer # None
  PROVE  /\ buffer \in live /\ buffer \in Blocks /\ block[buffer] \in FileTypes
         /\ block[buffer].size \in Nat
         /\ Len(block[buffer].conteudo) >= block[buffer].size
         /\ tamanho = 1 + block[buffer].size
         /\ crc \in {Whole(block[buffer]), Sector}
         /\ tamanho % SizeMod \in Nat /\ tamanho % SizeMod <= tamanho
  <1>1. /\ buffer \in live /\ buffer \in Blocks /\ block[buffer] \in FileTypes
    BY DEF FileInv, Types, HeapInv
  <1>2. block[buffer].size \in Nat
    BY <1>1 DEF FileTypes
  <1>3. /\ Len(block[buffer].conteudo) >= block[buffer].size
        /\ tamanho = 1 + block[buffer].size /\ crc \in {Whole(block[buffer]), Sector}
    BY DEF FileInv, PubInv, Good, Places
  <1>4. tamanho % SizeMod \in Nat /\ tamanho % SizeMod <= tamanho
    <2>1. SizeMod \in Nat \ {0} /\ tamanho \in Nat
      BY <1>2, <1>3, FileAssumption
    <2>2. \A t \in Nat, m \in Nat \ {0} : t % m \in Nat /\ t % m <= t
      OBVIOUS
    <2>3. QED
      BY <2>1, <2>2
  <1>5. QED
    BY <1>1, <1>2, <1>3, <1>4

\* The steps of core 0 that leave the program as it is.
LEMMA AccessFileInv ==
  ASSUME FileInv, Access \/ TestPronto \/ TestPonteiro \/ TestTamanho \/ ZeroPonteiro \/ ClearPronto \/ StorePonteiro
  PROVE  FileInv'
  <1>1. /\ UNCHANGED <<conn, heapVars, broken, core1, buffer, tamanho, crc, reader>>
        /\ pronto' = pronto \/ pronto' = FALSE
    BY DEF Access, TestPronto, TestPonteiro, TestTamanho, ZeroPonteiro, ClearPronto, StorePonteiro, fileVars
  <1>2. core0' = [at |-> core0'.at, ponteiro |-> core0'.ponteiro]
    BY DEF Access, TestPronto, TestPonteiro, TestTamanho, ZeroPonteiro, ClearPronto, StorePonteiro, Core0, FileInv, ReadInv
  <1>3. touched' \in BOOLEAN /\ (touched' = FALSE => ponteiro' = 0)
    BY DEF Access, TestPronto, TestPonteiro, TestTamanho, ZeroPonteiro, ClearPronto, StorePonteiro, fileVars, FileInv, ReadInv
  <1>4. CalmRead'
    BY <1>1 DEF FileInv, ReadInv, CalmRead, heapVars
  <1>5. ASSUME reader.calm = TRUE PROVE CalmInv'
    <2>1. CalmInv /\ reader.at # "status"
      BY <1>5 DEF FileInv, ReadInv
    <2>2. /\ tamanho = 1 + block[buffer].size /\ block[buffer].size \in Nat
          /\ tamanho % SizeMod \in Nat /\ tamanho % SizeMod <= tamanho
      BY <2>1, Published DEF CalmInv
    <2>3. CASE reader.at \notin {"size", "low", "data"}
      BY <1>1, <2>1, <2>3 DEF CalmInv, heapVars
    <2>4. CASE reader.at \in {"size", "low", "data"}
      <3>1. /\ core0'.at \notin {"zero", "clear"}
            /\ core0'.at = "store" => core0'.ponteiro + 1 = Len(reader.got) /\ reader.at = "data"
            /\ core0'.at = "compare" => core0'.ponteiro = Len(reader.got)
            /\ core0'.at # "store" => ponteiro' = Len(reader.got)
        <4>1. CASE Access
          BY <2>1, <2>4, <4>1 DEF CalmInv, Access, Core0, fileVars, FileInv, ReadInv
        <4>2. CASE TestPronto \/ TestPonteiro
          BY <2>1, <2>4, <4>2 DEF CalmInv, TestPronto, TestPonteiro, Core0, fileVars, FileInv, ReadInv
        <4>6. CASE TestTamanho
          <5>1. /\ core0.ponteiro = Len(reader.got) /\ ponteiro = Len(reader.got)
                /\ Len(reader.got) \in Nat
            BY <2>1, <2>4, <4>6 DEF CalmInv, TestTamanho
          <5>2. ~(core0.ponteiro >= tamanho)
            BY <2>1, <2>2, <2>4, <5>1, FileAssumption DEF CalmInv
          <5>3. QED
            BY <4>6, <5>1, <5>2 DEF TestTamanho, fileVars
        <4>3. CASE ZeroPonteiro \/ ClearPronto
          BY <2>1, <2>4, <4>3 DEF CalmInv, ZeroPonteiro, ClearPronto
        <4>4. CASE StorePonteiro
          BY <2>1, <2>4, <4>4 DEF CalmInv, StorePonteiro
        <4>5. QED
          BY <4>1, <4>2, <4>3, <4>4, <4>6
      <3>2. QED
        BY <1>1, <2>1, <2>4, <3>1 DEF CalmInv, heapVars
    <2>5. QED
      BY <2>3, <2>4
  <1>6. ReadInv'
    BY <1>1, <1>2, <1>3, <1>4, <1>5 DEF FileInv, ReadInv
  <1>7. QED
    BY <1>1, <1>6, Core0FileInv

\* The program begins again: nothing is said about what it reads.
LEMMA AgainFileInv == ASSUME FileInv, ServeDone \/ Restart PROVE FileInv'
  <1>1. /\ UNCHANGED <<conn, heapVars, broken, core1, buffer, tamanho, crc, ponteiro, touched>>
        /\ pronto' = pronto \/ pronto' = FALSE
        /\ reader' = Asking
    BY DEF ServeDone, Restart, Served, fileVars
  <1>2. core0' = [at |-> core0'.at, ponteiro |-> core0'.ponteiro]
    BY DEF ServeDone, Restart, Served, Core0, FileInv, ReadInv
  <1>3. ReadInv'
    BY <1>1, <1>2 DEF FileInv, ReadInv, CalmRead, Asking
  <1>4. QED
    BY <1>1, <1>3, Core0FileInv

LEMMA ServeStatusFileInv == ASSUME FileInv, ServeStatus PROVE FileInv'
  <1>1. /\ UNCHANGED <<conn, heapVars, broken, core1, buffer, tamanho, crc, ponteiro, touched, pronto>>
        /\ core0.at = "serve" /\ reader.at = "status"
    BY DEF ServeStatus, Served, Serve
  <1>2. /\ core0' = [at |-> core0'.at, ponteiro |-> core0'.ponteiro] /\ core0'.at = "idle"
    BY DEF ServeStatus, Served, Core0, FileInv, ReadInv
  <1>3. CASE reader' = reader
    BY <1>1, <1>2, <1>3, Core0FileInv DEF FileInv, ReadInv, CalmRead
  <1>4. CASE /\ pronto
             /\ reader' = [Asking EXCEPT !.at = "size", !.calm = core1.at = "poll" /\ ~touched]
    <2>1. /\ reader' = [at |-> reader'.at, size |-> reader'.size, got |-> reader'.got,
                        regs |-> reader'.regs, match |-> reader'.match, calm |-> reader'.calm]
          /\ reader'.at = "size" /\ reader'.got = <<>>
          /\ reader'.regs = 0 /\ reader'.match = TRUE
      BY <1>4 DEF Asking
    <2>2. reader'.calm = (core1.at = "poll" /\ ~touched)
      BY <1>4 DEF Asking
    <2>3. ASSUME reader'.calm = TRUE PROVE CalmInv'
      <3>1. core1.at = "poll" /\ touched = FALSE
        BY <2>2, <2>3 DEF FileInv, ReadInv
      <3>2. buffer # None /\ ponteiro = 0
        BY <1>4, <3>1 DEF FileInv, PubInv, ReadInv
      <3>3. tamanho \in Nat
        BY <3>1, <3>2, Published
      <3>4. reader'.got \in Seq(Bytes) /\ Len(reader'.got) = 0
        BY <2>1
      <3>5. reader'.at = "size" /\ reader'.regs = 0 /\ reader'.match = TRUE
        BY <2>1
      <3>6. QED
        BY <1>1, <1>2, <3>1, <3>2, <3>3, <3>4, <3>5 DEF CalmInv
    <2>4. CalmRead' /\ reader'.calm \in BOOLEAN
      BY <2>1, <2>2 DEF CalmRead
    <2>5. reader'.at = "size"
      BY <2>1
    <2>6. ReadInv'
      BY <1>1, <1>2, <2>1, <2>3, <2>4, <2>5 DEF FileInv, ReadInv
    <2>7. QED
      BY <1>1, <2>6, Core0FileInv
  <1>5. QED
    BY <1>3, <1>4 DEF ServeStatus

\* A sector is loaded while no program reads a file.
LEMMA LoadSectorFileInv == ASSUME FileInv, LoadSector PROVE FileInv'
  <1>1. /\ UNCHANGED <<conn, heapVars, broken, core1, buffer, tamanho, ponteiro, touched, pronto, reader>>
        /\ core0.at = "serve" /\ reader.at = "status" /\ crc' = Sector
    BY DEF LoadSector, Served, Serve
  <1>2. core0' = [at |-> core0'.at, ponteiro |-> core0'.ponteiro]
    BY DEF LoadSector, Served, Core0, FileInv, ReadInv
  <1>3. ReadInv'
    BY <1>1, <1>2 DEF FileInv, ReadInv, CalmRead
  <1>4. QED
    BY <1>1, <1>3, Core0FileInv

LEMMA ServeSizeHighFileInv == ASSUME FileInv, ServeSizeHigh PROVE FileInv'
  <1>1. /\ UNCHANGED <<conn, heapVars, broken, core1, buffer, tamanho, crc, ponteiro, touched, pronto>>
        /\ core0.at = "serve" /\ reader.at = "size"
    BY DEF ServeSizeHigh, Served, Serve
  <1>2. /\ core0' = [at |-> core0'.at, ponteiro |-> core0'.ponteiro] /\ core0'.at = "idle"
    BY DEF ServeSizeHigh, Served, Core0, FileInv, ReadInv
  <1>3. /\ reader' = [at |-> reader'.at, size |-> reader'.size, got |-> reader'.got,
                      regs |-> reader'.regs, match |-> reader'.match, calm |-> reader'.calm]
        /\ reader'.size = tamanho - (tamanho % Byte) /\ reader'.got = reader.got
        /\ reader'.regs = reader.regs /\ reader'.match = reader.match
        /\ reader'.calm = reader.calm /\ reader'.at = "low"
    BY DEF ServeSizeHigh, FileInv, ReadInv
  <1>4. ASSUME reader.calm = TRUE PROVE CalmInv'
    BY <1>1, <1>2, <1>3, <1>4 DEF FileInv, ReadInv, CalmInv, heapVars
  <1>5. CalmRead'
    BY <1>3 DEF CalmRead
  <1>6. ReadInv'
    BY <1>1, <1>2, <1>3, <1>4, <1>5 DEF FileInv, ReadInv
  <1>7. QED
    BY <1>1, <1>6, Core0FileInv

LEMMA ServeSizeLowFileInv == ASSUME FileInv, ServeSizeLow PROVE FileInv'
  <1> DEFINE size == (reader.size + (tamanho % Byte)) % SizeMod
  <1>1. /\ UNCHANGED <<conn, heapVars, broken, core1, buffer, tamanho, crc, ponteiro, touched, pronto>>
        /\ core0.at = "serve" /\ reader.at = "low"
    BY DEF ServeSizeLow, Served, Serve
  <1>2. /\ core0' = [at |-> core0'.at, ponteiro |-> core0'.ponteiro] /\ core0'.at = "idle"
    BY DEF ServeSizeLow, Served, Core0, FileInv, ReadInv
  <1>3. /\ reader' = [at |-> reader'.at, size |-> reader'.size, got |-> reader'.got,
                      regs |-> reader'.regs, match |-> reader'.match, calm |-> reader'.calm]
        /\ reader'.size = size /\ reader'.got = reader.got
        /\ reader'.regs = reader.regs /\ reader'.match = reader.match
        /\ reader'.calm = reader.calm
        /\ reader'.at = IF size = 0 THEN "refuse" ELSE "data"
    BY DEF ServeSizeLow, FileInv, ReadInv
  <1> HIDE DEF size
  <1>4. ASSUME reader.calm = TRUE PROVE CalmInv' /\ CalmRead'
    <2>1. CalmInv
      BY <1>4 DEF FileInv, ReadInv
    <2>2. /\ tamanho = 1 + block[buffer].size /\ block[buffer].size \in Nat
          /\ tamanho % SizeMod \in Nat /\ tamanho % SizeMod <= tamanho
      BY <2>1, Published DEF CalmInv
    <2>3. size = tamanho % SizeMod
      <3>1. \A t, m \in Int : (t - m) + m = t
        OBVIOUS
      <3>2. tamanho \in Int /\ tamanho % Byte \in Int
        BY <2>2, FileAssumption
      <3>3. reader.size + (tamanho % Byte) = tamanho
        BY <1>1, <2>1, <3>1, <3>2 DEF CalmInv
      <3>4. QED
        BY <3>3 DEF size
    <2>4. tamanho % SizeMod = 0 => ~(tamanho < SizeMod)
      BY <2>2, FileAssumption
    <2>5. CalmInv'
      BY <1>1, <1>2, <1>3, <2>1, <2>2, <2>3 DEF CalmInv, heapVars
    <2>6. CalmRead'
      BY <1>1, <1>3, <2>3, <2>4 DEF CalmRead
    <2>7. QED
      BY <2>5, <2>6
  <1>5. reader.calm = FALSE => CalmRead'
    BY <1>3 DEF CalmRead
  <1>6. ReadInv'
    BY <1>1, <1>2, <1>3, <1>4, <1>5 DEF FileInv, ReadInv
  <1>7. QED
    BY <1>1, <1>6, Core0FileInv

\* The byte at an index is the one of the file the program expects next.
LEMMA ByteAtWhole ==
  ASSUME FileInv, core1.at \in {"poll", "free"}, buffer # None, NEW i \in Nat, i < tamanho
  PROVE  ByteAt(buffer, i) = Whole(block[buffer])[1 + i] /\ ByteAt(buffer, i) \in Bytes
  <1>1. /\ buffer \in live /\ block[buffer] \in FileTypes /\ block[buffer].size \in Nat
        /\ Len(block[buffer].conteudo) >= block[buffer].size
        /\ tamanho = 1 + block[buffer].size
    BY Published
  <1>2. /\ Whole(block[buffer]) \in Seq(Bytes)
        /\ Len(Whole(block[buffer])) = 1 + block[buffer].size
        /\ Whole(block[buffer])[1] = <<block[buffer].name, "file_t", block[buffer].size>>
        /\ \A k \in 1 .. block[buffer].size :
             Whole(block[buffer])[1 + k] = block[buffer].conteudo[k]
    BY <1>1, WholeProperties
  <1>3. ByteAt(buffer, i) = Whole(block[buffer])[1 + i]
    <2>1. Len(block[buffer].conteudo) \in Nat
      BY <1>1 DEF FileTypes
    <2>2. ~(i > block[buffer].size) /\ ~(i > Len(block[buffer].conteudo))
      BY <1>1, <2>1
    <2>3. CASE i = 0
      BY <1>1, <1>2, <2>2, <2>3 DEF ByteAt
    <2>4. CASE i # 0
      <3>1. i \in 1 .. block[buffer].size
        BY <1>1, <2>2, <2>4
      <3>2. QED
        BY <1>1, <1>2, <2>2, <2>4, <3>1 DEF ByteAt
    <2>5. QED
      BY <2>3, <2>4
  <1>4. Whole(block[buffer])[1 + i] \in Bytes
    BY <1>1, <1>2
  <1>5. QED
    BY <1>3, <1>4

LEMMA ServeDataFileInv == ASSUME FileInv, ServeData PROVE FileInv'
  <1> DEFINE byte == ByteAt(buffer, ponteiro)
             more == Append(reader.got, byte)
  <1>1. /\ UNCHANGED <<conn, heapVars, broken, core1, buffer, tamanho, crc, ponteiro, touched, pronto>>
        /\ core0.at = "serve" /\ reader.at = "data"
    BY DEF ServeData, Serve, fileVars
  <1>2. /\ core0' = [at |-> core0'.at, ponteiro |-> core0'.ponteiro]
        /\ core0'.at = "store" /\ core0'.ponteiro = ponteiro
    BY DEF ServeData
  <1>3. /\ reader' = [at |-> reader'.at, size |-> reader'.size, got |-> reader'.got,
                      regs |-> reader'.regs, match |-> reader'.match, calm |-> reader'.calm]
        /\ reader'.regs = reader.regs /\ reader'.match = reader.match
        /\ reader'.size = reader.size /\ reader'.calm = reader.calm /\ reader'.got = more
        /\ reader'.at = IF Len(more) = reader.size THEN "crc" ELSE "data"
    BY <1>1 DEF ServeData, FileInv, ReadInv
  <1>4. ASSUME reader.calm = TRUE PROVE CalmInv'
    <2>1. CalmInv
      BY <1>4 DEF FileInv, ReadInv
    <2>2. /\ reader.got \in Seq(Bytes) /\ Len(reader.got) \in Nat /\ ponteiro = Len(reader.got)
          /\ reader.size = tamanho % SizeMod /\ Len(reader.got) < reader.size
      BY <1>1, <2>1 DEF CalmInv
    <2>3. /\ tamanho = 1 + block[buffer].size /\ block[buffer].size \in Nat
          /\ tamanho % SizeMod \in Nat /\ tamanho % SizeMod <= tamanho
      BY <2>1, Published DEF CalmInv
    <2>4. byte = Whole(block[buffer])[1 + Len(reader.got)] /\ byte \in Bytes
      BY <1>4, <2>1, <2>2, <2>3, ByteAtWhole DEF CalmInv
    <2> HIDE DEF byte
    <2>5. /\ more \in Seq(Bytes) /\ Len(more) = Len(reader.got) + 1
          /\ \A i \in 1 .. Len(reader.got) : more[i] = reader.got[i]
          /\ more[Len(reader.got) + 1] = byte
      BY <2>2, <2>4
    <2> HIDE DEF more
    <2>6. \A i \in 1 .. Len(more) : more[i] = Whole(block[buffer])[i]
      BY <2>1, <2>2, <2>4, <2>5 DEF CalmInv
    <2>7. /\ core1'.at \in {"poll", "free"} /\ buffer' # None
          /\ Len(more) <= tamanho /\ Len(more) <= reader.size
          /\ reader'.size = tamanho' % SizeMod /\ reader.size # 0
      BY <1>1, <1>3, <2>1, <2>2, <2>3, <2>5 DEF CalmInv
    <2>8. reader'.regs = 0 /\ reader'.match = TRUE
      BY <1>1, <1>3, <2>1 DEF CalmInv
    <2>9. /\ reader'.at \in {"data", "crc"} 
          /\ reader'.at = "data" => Len(more) < reader.size
          /\ reader'.at = "crc" => Len(more) = reader.size
      BY <1>3, <2>2, <2>3, <2>5, <2>7
    <2>10. block' = block /\ buffer' = buffer
      BY <1>1 DEF heapVars
    <2>11. core0'.ponteiro + 1 = Len(more)
      BY <1>2, <2>2, <2>5
    <2>12. reader'.got = more /\ reader'.size = reader.size /\ core0'.at = "store" /\ tamanho' = tamanho
      BY <1>1, <1>2, <1>3
    <2>13. /\ reader'.got \in Seq(Bytes) /\ Len(reader'.got) <= tamanho'
           /\ \A i \in 1 .. Len(reader'.got) : reader'.got[i] = Whole(block'[buffer'])[i]
      BY <2>5, <2>6, <2>7, <2>10, <2>12
    <2>14. reader'.at = "crc" =>
             /\ Len(reader'.got) = reader'.size /\ reader'.size # 0
             /\ reader'.regs \in Nat /\ reader'.match \in BOOLEAN
             /\ reader'.match = TRUE <=> reader'.regs = 0 \/ reader'.got = crc'
      <3>1. reader'.at = "crc" => Len(reader'.got) = reader'.size /\ reader'.size # 0
        BY <2>7, <2>9, <2>12
      <3>2. reader'.regs \in Nat /\ reader'.regs = 0
        BY <2>8
      <3>3. reader'.match \in BOOLEAN /\ reader'.match = TRUE
        BY <2>8
      <3>4. QED
        BY <3>1, <3>2, <3>3
    <2>15. reader'.at = "data" => Len(reader'.got) < reader'.size
      BY <2>9, <2>12
    <2>16. core0'.at = "store" /\ core0'.ponteiro + 1 = Len(reader'.got)
      BY <2>11, <2>12
    <2>17. Whole(block[buffer])' = Whole(block'[buffer'])
      BY DEF Whole
    <2>18. QED
      BY <2>7, <2>8, <2>9, <2>13, <2>14, <2>15, <2>16, <2>17 DEF CalmInv
  <1>5. CalmRead'
    BY <1>3 DEF CalmRead
  <1>6. ReadInv'
    BY <1>1, <1>2, <1>3, <1>4, <1>5 DEF FileInv, ReadInv
  <1>7. QED
    BY <1>1, <1>6, Core0FileInv

\* A size fits the registers when they hold it unchanged.
LEMMA ModFits ==
  ASSUME NEW t \in Nat, NEW m \in Nat \ {0}
  PROVE  t < m <=> t % m = t
  <1>1. t % m \in 0 .. m - 1
    OBVIOUS
  <1>2. ASSUME t < m PROVE t % m = t
    BY <1>2
  <1>3. QED
    BY <1>1, <1>2

\* The CRC of a sector is that of no bytes of a file.
LEMMA SectorIsNoFile ==
  ASSUME NEW got \in Seq(Bytes \cup {Junk}) PROVE got # Sector
  <1> SUFFICES ASSUME got = Sector PROVE FALSE
    OBVIOUS
  <1>1. got[1] = <<"sector">> /\ Len(got) = 1
    BY DEF Sector
  <1>2. got[1] \in Bytes \cup {Junk}
    BY <1>1
  <1>3. <<"sector">> # Junk
    BY DEF Junk
  <1>4. \A f, i : <<"sector">> # <<f, i>>
    OBVIOUS
  <1>5. \A f, i, j : <<"sector">> # <<f, i, j>>
    OBVIOUS
  <1>6. QED
    BY <1>1, <1>2, <1>3, <1>4, <1>5 DEF Bytes, Units

LEMMA ServeCrcFileInv == ASSUME FileInv, ServeCrc PROVE FileInv'
  <1> DEFINE match == reader.match /\ reader.got = crc
             last  == reader.regs + 1 = CrcRegs
  <1>1. /\ UNCHANGED <<conn, heapVars, broken, core1, buffer, tamanho, crc, ponteiro, touched, pronto>>
        /\ core0.at = "serve" /\ reader.at = "crc"
    BY DEF ServeCrc, Served, Serve
  <1>2. /\ core0' = [at |-> core0'.at, ponteiro |-> core0'.ponteiro] /\ core0'.at = "idle"
    BY DEF ServeCrc, Served, Core0, FileInv, ReadInv
  <1>3. /\ reader' = [at |-> reader'.at, size |-> reader'.size, got |-> reader'.got,
                      regs |-> reader'.regs, match |-> reader'.match, calm |-> reader'.calm]
        /\ reader'.size = reader.size /\ reader'.got = reader.got
        /\ reader'.calm = reader.calm /\ reader'.regs = reader.regs + 1 /\ reader'.match = match
        /\ reader'.at = IF ~last THEN "crc" ELSE IF match THEN "accept" ELSE "refuse"
    BY <1>1 DEF ServeCrc, Matches, FileInv, ReadInv
  <1>4. ASSUME reader.calm = TRUE PROVE CalmInv' /\ CalmRead'
    <2> DEFINE whole == Whole(block[buffer])
    <2>1. CalmInv
      BY <1>4 DEF FileInv, ReadInv
    <2>2. /\ block[buffer] \in FileTypes /\ Len(block[buffer].conteudo) >= block[buffer].size
          /\ tamanho = 1 + block[buffer].size /\ block[buffer].size \in Nat
          /\ crc \in {whole, Sector}
      BY <2>1, Published DEF CalmInv
    <2>3. whole \in Seq(Bytes) /\ Len(whole) = tamanho
      BY <2>2, WholeProperties
    <2>4. /\ reader.got \in Seq(Bytes) /\ Len(reader.got) = tamanho % SizeMod
          /\ \A i \in 1 .. Len(reader.got) : reader.got[i] = whole[i]
          /\ reader.regs \in Nat /\ reader.match \in BOOLEAN
          /\ reader.match = TRUE <=> reader.regs = 0 \/ reader.got = crc
      BY <1>1, <2>1 DEF CalmInv
    <2> HIDE DEF whole
    <2>5. tamanho < SizeMod <=> Len(reader.got) = tamanho
      <3>1. SizeMod \in Nat \ {0} /\ tamanho \in Nat
        BY <2>2, FileAssumption
      <3>2. tamanho < SizeMod <=> tamanho % SizeMod = tamanho
        BY <3>1, ModFits
      <3>3. QED
        BY <2>4, <3>2
    <2>6. reader.got = whole <=> Len(reader.got) = tamanho
      BY <2>3, <2>4, SeqEqual
    <2>7. reader.got # Sector /\ whole # Sector
      BY <2>3, <2>4, SectorIsNoFile
    <2>8. match \in BOOLEAN /\ (match <=> reader.got = crc)
      BY <2>4
    <2> HIDE DEF match, last
    <2>9. match <=> tamanho < SizeMod /\ crc # Sector
      BY <2>2, <2>5, <2>6, <2>7, <2>8
    <2>10. match => reader.got = whole
      BY <2>2, <2>7, <2>8
    <2>11. CalmRead'
      BY <1>1, <1>3, <2>9, <2>10 DEF CalmRead, heapVars, whole
    <2>12. CalmInv'
      BY <1>1, <1>2, <1>3, <2>1, <2>4, <2>8 DEF CalmInv, heapVars
    <2>13. QED
      BY <2>11, <2>12
  <1>5. reader.calm = FALSE => CalmRead'
    BY <1>3 DEF CalmRead
  <1>6. ReadInv'
    BY <1>1, <1>2, <1>3, <1>4, <1>5 DEF FileInv, ReadInv
  <1>7. QED
    BY <1>1, <1>6, Core0FileInv

-----------------------------------------------------------------------------
(* Core 1: the publication.                                                *)

\* Every step of it disturbs the program that reads.
LEMMA PublicationStep ==
  ASSUME FileInv, core1.at # "poll", reader' = [reader EXCEPT !.calm = FALSE],
         conn' = conn, broken' = broken, core0' = core0,
         \/ touched' = touched /\ ponteiro' = ponteiro
         \/ touched' = FALSE /\ ponteiro' = 0
  PROVE  ReadInv' /\ BrokenByPieces' /\ core1.c \in Conns
  <1>1. /\ reader' = [at |-> reader'.at, size |-> reader'.size, got |-> reader'.got,
                      regs |-> reader'.regs, match |-> reader'.match, calm |-> reader'.calm]
        /\ reader'.at = reader.at /\ reader'.calm = FALSE
    BY DEF FileInv, ReadInv
  <1>2. ReadInv'
    BY <1>1 DEF FileInv, ReadInv, CalmRead
  <1>3. QED
    BY <1>2 DEF FileInv, BrokenByPieces, Types

LEMMA FreeOldFileInv == ASSUME FileInv, FreeOld PROVE FileInv'
  <1>1. /\ ReadInv' /\ BrokenByPieces'
        /\ core1.at = "free" /\ core1'.at = "null" /\ core1'.c = core1.c /\ core1.c \in Conns
        /\ conn' = conn /\ lost' = lost /\ broken' = broken
    <2>1. /\ core1.at = "free" /\ core1'.at = "null" /\ core1'.c = core1.c
          /\ reader' = [reader EXCEPT !.calm = FALSE] /\ touched' = touched /\ ponteiro' = ponteiro
          /\ conn' = conn /\ lost' = lost /\ broken' = broken /\ core0' = core0
      BY DEF FreeOld, Core1At, fileVars
    <2>2. QED
      BY <2>1, PublicationStep
  <1>2. /\ live' = live \ {buffer} /\ buffer' = buffer /\ pronto' = pronto
        /\ block' = [x \in Blocks |-> IF x = buffer THEN Empty ELSE block[x]]
    BY DEF FreeOld, Free, fileVars
  <1>3. \A b \in Blocks : b # buffer => block'[b] = block[b]
    BY <1>2
  <1>4. Types'
    <2>1. Empty \in FileTypes
      BY DEF Empty, FileTypes
    <2>2. QED
      BY <1>1, <1>2, <2>1 DEF FileInv, Types, Places
  <1>5. HeapInv'
    BY <1>1, <1>2 DEF FileInv, Types, HeapInv, Fills, Ends
  <1>6. DataInv'
    <2>1. \A c \in Conns : conn[c].estado = "DADOS" =>
            conn[c].pfh \in Blocks /\ conn[c].pfh # buffer
      BY DEF FileInv, HeapInv
    <2>2. QED
      BY <1>1, <1>3, <2>1 DEF FileInv, DataInv, Partial
  <1>7. PubInv'
    <2>1. conn[core1.c].pfh \in Blocks /\ conn[core1.c].pfh # buffer
      BY <1>1 DEF FileInv, HeapInv
    <2>2. Good(conn[core1.c].pfh)'
      BY <1>1, <1>3, <2>1 DEF FileInv, PubInv, Good
    <2>3. QED
      BY <1>1, <2>2 DEF PubInv, Places
  <1>8. QED
    BY <1>1, <1>4, <1>5, <1>6, <1>7 DEF FileInv

LEMMA SetNullFileInv == ASSUME FileInv, SetNull PROVE FileInv'
  <1>1. /\ ReadInv' /\ BrokenByPieces'
        /\ core1.at = "null" /\ core1'.at = "buffer" /\ core1'.c = core1.c /\ core1.c \in Conns
        /\ conn' = conn /\ lost' = lost /\ broken' = broken
    <2>1. /\ core1.at = "null" /\ core1'.at = "buffer" /\ core1'.c = core1.c
          /\ reader' = [reader EXCEPT !.calm = FALSE] /\ touched' = touched /\ ponteiro' = ponteiro
          /\ conn' = conn /\ lost' = lost /\ broken' = broken /\ core0' = core0
      BY DEF SetNull, Core1At
    <2>2. QED
      BY <2>1, PublicationStep
  <1>2. live' = live /\ block' = block /\ buffer' = None
    BY DEF SetNull
  <1>3. Types'
    BY <1>1, <1>2 DEF FileInv, Types, Places
  <1>4. HeapInv'
    BY <1>1, <1>2, FileAssumption DEF FileInv, Types, HeapInv, Fills, Ends
  <1>5. DataInv'
    BY <1>1, <1>2 DEF FileInv, DataInv, Partial
  <1>6. PubInv'
    BY <1>1, <1>2 DEF FileInv, PubInv, Good, Places
  <1>7. QED
    BY <1>1, <1>3, <1>4, <1>5, <1>6 DEF FileInv

LEMMA SetBufferFileInv == ASSUME FileInv, SetBuffer PROVE FileInv'
  <1>1. /\ ReadInv' /\ BrokenByPieces'
        /\ core1.at = "buffer" /\ core1'.at = "tamanho" /\ core1'.c = core1.c /\ core1.c \in Conns
        /\ conn' = conn /\ lost' = lost /\ broken' = broken
    <2>1. /\ core1.at = "buffer" /\ core1'.at = "tamanho" /\ core1'.c = core1.c
          /\ reader' = [reader EXCEPT !.calm = FALSE] /\ touched' = touched /\ ponteiro' = ponteiro
          /\ conn' = conn /\ lost' = lost /\ broken' = broken /\ core0' = core0
      BY DEF SetBuffer, Core1At
    <2>2. QED
      BY <2>1, PublicationStep
  <1>2. live' = live /\ block' = block /\ buffer' = conn[core1.c].pfh
    BY DEF SetBuffer
  <1>3. conn[core1.c].pfh \in Blocks \ lost
    BY <1>1 DEF FileInv, HeapInv
  <1>4. Types'
    BY <1>1, <1>2, <1>3 DEF FileInv, Types, Places
  <1>5. HeapInv'
    BY <1>1, <1>2, <1>3, FileAssumption DEF FileInv, Types, HeapInv, Fills, Ends
  <1>6. DataInv'
    BY <1>1, <1>2 DEF FileInv, DataInv, Partial
  <1>7. PubInv'
    BY <1>1, <1>2, <1>3, FileAssumption DEF FileInv, PubInv, Good, Places
  <1>8. QED
    BY <1>1, <1>4, <1>5, <1>6, <1>7 DEF FileInv

\* The size, the CRC, ponteiro_leitura and arquivo_pronto of the new file.
LEMMA SetRestFileInv ==
  ASSUME FileInv, SetTamanho \/ SetCrc \/ SetPonteiro \/ SetPronto
  PROVE  FileInv'
  <1>1. /\ ReadInv' /\ BrokenByPieces'
        /\ core1'.at # "poll" => core1'.c = core1.c
        /\ core1.c \in Conns
        /\ conn' = conn /\ lost' = lost /\ broken' = broken
    <2>1. /\ core1.at # "poll" /\ (core1'.at # "poll" => core1'.c = core1.c)
          /\ reader' = [reader EXCEPT !.calm = FALSE]
          /\ \/ touched' = touched /\ ponteiro' = ponteiro
             \/ touched' = FALSE /\ ponteiro' = 0
          /\ conn' = conn /\ lost' = lost /\ broken' = broken /\ core0' = core0
      BY DEF SetTamanho, SetCrc, SetPonteiro, SetPronto, Core1At
    <2>2. QED
      BY <2>1, PublicationStep
  <1>2. /\ live' = live /\ block' = block /\ buffer' = buffer
        /\ core1.at \in {"tamanho", "crc", "ponteiro", "pronto"}
        /\ core1'.at \in {"crc", "ponteiro", "pronto", "poll"}
    BY DEF SetTamanho, SetCrc, SetPonteiro, SetPronto, Core1At
  <1>3. Types'
    BY <1>1, <1>2 DEF FileInv, Types, Places
  <1>4. HeapInv'
    BY <1>1, <1>2 DEF FileInv, Types, HeapInv, Fills, Ends
  <1>5. DataInv'
    BY <1>1, <1>2 DEF FileInv, DataInv, Partial
  <1>6. PubInv'
    <2>1. Good(buffer)' /\ buffer # None
      BY <1>2 DEF FileInv, PubInv, Good
    <2>2. core1'.at \in Places \ {"null", "buffer", "tamanho"} => tamanho' = 1 + block[buffer].size
      BY <1>2, <2>1 DEF SetTamanho, SetCrc, SetPonteiro, SetPronto, Core1At, FileInv, PubInv, Places
    <2>3. core1'.at \in {"poll", "free", "ponteiro", "pronto"} => crc' \in {Whole(block[buffer]), Sector}
      BY <1>2, <2>1 DEF SetTamanho, SetCrc, SetPonteiro, SetPronto, Core1At, FileInv, PubInv
    <2>4. QED
      BY <1>2, <2>1, <2>2, <2>3 DEF PubInv
  <1>7. QED
    BY <1>1, <1>3, <1>4, <1>5, <1>6 DEF FileInv

-----------------------------------------------------------------------------
(* Core 1: the callbacks.                                                  *)

\* A callback touches nothing the program on the 68000 sees.
LEMMA CallbackReadInv ==
  ASSUME FileInv, core1.at = "poll", core1'.at \in {"poll", "free"}, UNCHANGED <<fileVars, busVars>>,
         buffer # None => block'[buffer] = block[buffer]
  PROVE  ReadInv'
  <1> USE DEF fileVars, busVars
  <1>1. CASE reader.calm = TRUE
    <2>1. CalmInv /\ CalmRead /\ buffer # None
      BY <1>1 DEF FileInv, ReadInv, CalmInv
    <2>2. CalmInv'
      BY <2>1 DEF CalmInv
    <2>3. CalmRead'
      BY <2>1 DEF CalmRead
    <2>4. QED
      BY <2>2, <2>3 DEF FileInv, ReadInv
  <1>2. CASE reader.calm = FALSE
    BY <1>2 DEF FileInv, ReadInv, CalmRead
  <1>3. QED
    BY <1>1, <1>2 DEF FileInv, ReadInv

LEMMA CallbackPubInv ==
  ASSUME FileInv, core1.at = "poll", core1'.at = "poll", UNCHANGED fileVars,
         buffer # None => block'[buffer] = block[buffer]
  PROVE  PubInv'
  BY DEF fileVars, FileInv, PubInv, Good, Places

\* A connection is replaced by one that has no block; the heap stays.
LEMMA ReplacedFileInv ==
  ASSUME FileInv, Polling, NEW c \in Conns, conn[c].estado # "DADOS", NEW x \in ConnTypes,
         conn' = [conn EXCEPT ![c] = x], x.estado = "CABECALHO", x.pfh = None,
         x.st = "open" => x.file \in Files,
         x.intact = TRUE => x.pos = 0,
         UNCHANGED <<heapVars, broken, core1, fileVars, busVars>>
  PROVE  FileInv'
  <1> USE DEF heapVars
  <1>1. Types' /\ core1.at = "poll" /\ broken' = FALSE
    BY DEF FileInv, Types, Polling, fileVars
  <1>2. /\ conn'[c] = x /\ \A d \in Conns : d # c => conn'[d] = conn[d]
    BY DEF FileInv, Types
  <1>3. HeapInv'
    BY <1>1, <1>2, FileAssumption DEF FileInv, Types, HeapInv, Fills, Ends, fileVars
  <1>4. DataInv'
    BY <1>2 DEF FileInv, DataInv, Partial
  <1>5. PubInv' /\ ReadInv'
    BY <1>1, CallbackPubInv, CallbackReadInv
  <1>6. QED
    BY <1>1, <1>3, <1>4, <1>5 DEF FileInv, BrokenByPieces

LEMMA StutterFileInv == ASSUME FileInv, UNCHANGED vars PROVE FileInv'
  <1>1. ReadInv'
    BY DEF vars, heapVars, fileVars, busVars, FileInv, ReadInv, CalmRead, CalmInv
  <1>2. QED
    BY <1>1, Core0FileInv DEF vars, fileVars

LEMMA AcceptFileInv == ASSUME FileInv, NEW c \in Conns, Accept(c) PROVE FileInv'
  <1>6. CASE UNCHANGED conn
    BY <1>6, StutterFileInv DEF Accept, vars
  <1>7. CASE \E f \in Files : conn' = [conn EXCEPT ![c] = [Closed EXCEPT !.st = "open", !.file = f]]
    <2>1. PICK f \in Files : conn' = [conn EXCEPT ![c] = [Closed EXCEPT !.st = "open", !.file = f]]
      BY <1>7
    <2> DEFINE x == [Closed EXCEPT !.st = "open", !.file = f]
    <2>2. /\ x \in ConnTypes /\ x.estado = "CABECALHO" /\ x.pfh = None
          /\ x.file = f /\ x.pos = 0
      BY DEF Closed, ConnTypes
    <2>3. /\ Polling /\ conn[c].estado # "DADOS"
          /\ UNCHANGED <<heapVars, broken, core1, fileVars, busVars>>
      BY DEF Accept, FileInv, HeapInv
    <2> HIDE DEF x
    <2>4. conn' = [conn EXCEPT ![c] = x]
      BY <2>1 DEF x
    <2>5. QED
      BY <2>2, <2>3, <2>4, ReplacedFileInv
  <1>8. QED
    BY <1>6, <1>7 DEF Accept

LEMMA RedeliverFileInv == ASSUME FileInv, NEW c \in Conns, Redeliver(c) PROVE FileInv'
  <1> USE DEF Redeliver, Polling, heapVars
  <1>1. Types'
    BY DEF FileInv, Types, fileVars
  <1>2. HeapInv'
    BY DEF FileInv, HeapInv, Fills, Ends, fileVars
  <1>3. DataInv'
    BY DEF FileInv, DataInv, Partial
  <1>4. PubInv' /\ ReadInv'
    BY CallbackPubInv, CallbackReadInv
  <1>5. BrokenByPieces'
    BY DEF BrokenByPieces
  <1>6. QED
    BY <1>1, <1>2, <1>3, <1>4, <1>5 DEF FileInv

LEMMA DisconnectFileInv == ASSUME FileInv, NEW c \in Conns, Disconnect(c) PROVE FileInv'
  <1>1. /\ core1.at = "poll" /\ broken' = FALSE /\ core1' = core1 /\ lost' = lost
        /\ UNCHANGED <<fileVars, busVars>>
        /\ conn' = [conn EXCEPT ![c] = Closed]
    BY DEF Disconnect, Polling, FileInv, Types
  <1>2. Closed \in ConnTypes /\ Empty \in FileTypes
    BY DEF Closed, Empty, ConnTypes, FileTypes
  <1>3. CASE ~Unfinished(c)
    <2>1. conn[c].estado # "DADOS" /\ Polling
      BY <1>3, FileAssumption DEF Unfinished, FileInv, HeapInv, Disconnect
    <2>2. Closed.estado = "CABECALHO" /\ Closed.pfh = None /\ Closed.st # "open" /\ Closed.pos = 0
      BY DEF Closed
    <2>3. UNCHANGED <<heapVars, broken>>
      BY <1>3 DEF Disconnect, heapVars
    <2>4. QED
      BY <1>1, <1>2, <2>1, <2>2, <2>3, ReplacedFileInv
  <1>4. CASE Unfinished(c)
    <2> DEFINE b == conn[c].pfh
    <2>1. conn[c].estado = "DADOS" /\ b \in Blocks \ lost /\ b # buffer
      BY <1>4 DEF Unfinished, FileInv, Types, ConnTypes, HeapInv
    <2>2. /\ live' = live \ {b} /\ block' = [x \in Blocks |-> IF x = b THEN Empty ELSE block[x]]
      BY <1>4 DEF Disconnect, Free
    <2>3. Types'
      BY <1>1, <1>2, <2>2 DEF FileInv, Types, fileVars
    <2>4. /\ conn'[c] = Closed /\ \A d \in Conns : d # c => conn'[d] = conn[d]
      BY <1>1 DEF FileInv, Types
    <2>5. \A d \in Conns : d # c /\ conn[d].estado = "DADOS" => conn[d].pfh # b
      BY <2>1 DEF FileInv, HeapInv, Fills
    <2>6. HeapInv'
      BY <1>1, <2>1, <2>2, <2>4, <2>5, FileAssumption DEF FileInv, Types, HeapInv, Fills, Ends, Closed, fileVars
    <2>7. DataInv'
      <3>1. \A d \in Conns : d # c /\ conn[d].estado = "DADOS" => block'[conn[d].pfh] = block[conn[d].pfh]
        BY <2>2, <2>5 DEF FileInv, HeapInv
      <3>2. QED
        BY <2>4, <3>1 DEF FileInv, DataInv, Partial, Closed
    <2>8. buffer # None => block'[buffer] = block[buffer]
      BY <2>1, <2>2 DEF FileInv, Types
    <2>9. PubInv' /\ ReadInv'
      BY <1>1, <2>8, CallbackPubInv, CallbackReadInv
    <2>10. QED
      BY <1>1, <2>3, <2>6, <2>7, <2>9 DEF FileInv, BrokenByPieces
  <1>5. QED
    BY <1>3, <1>4

LEMMA ResetConnFileInv == ASSUME FileInv, NEW c \in Conns, ResetConn(c) PROVE FileInv'
  <1>1. /\ core1.at = "poll" /\ broken' = FALSE /\ core1' = core1 /\ live' = live /\ block' = block
        /\ UNCHANGED <<fileVars, busVars>>
        /\ conn' = [conn EXCEPT ![c] = Closed]
        /\ lost' = IF conn[c].estado = "DADOS" THEN lost \cup {conn[c].pfh} ELSE lost
    BY DEF ResetConn, Polling, FileInv, Types
  <1>2. Closed \in ConnTypes
    BY DEF Closed, ConnTypes
  <1>3. /\ conn'[c] = Closed /\ \A d \in Conns : d # c => conn'[d] = conn[d]
    BY <1>1 DEF FileInv, Types
  <1>4. Types'
    BY <1>1, <1>2 DEF FileInv, Types, HeapInv, fileVars
  <1>5. HeapInv'
    BY <1>1, <1>3, FileAssumption DEF FileInv, Types, HeapInv, Fills, Ends, Closed, fileVars
  <1>6. DataInv'
    BY <1>1, <1>3 DEF FileInv, DataInv, Partial, Closed
  <1>7. PubInv' /\ ReadInv'
    BY <1>1, CallbackPubInv, CallbackReadInv
  <1>8. QED
    BY <1>1, <1>4, <1>5, <1>6, <1>7 DEF FileInv, BrokenByPieces

\* The copy of a segment to block b, which is new or the connection's own.
LEMMA CopyFileInv ==
  ASSUME FileInv, Polling, NEW c \in Conns, conn[c].st = "open", conn[c].estado # "CONCLUIDO",
         NEW n \in Nat, NEW len \in Nat, conn[c].pos + n <= StreamLen(conn[c].file),
         NEW b \in Blocks, NEW total \in Nat, NEW had, Copy(c, n, len, b, total, had),
         NEW all \in Seq(Units),
         all = had \o Content(conn[c].file, conn[c].pos + CopyFrom(c, len), conn[c].pos + len),
         \/ b \notin live /\ live' = live \cup {b} /\ conn[c].estado = "CABECALHO"
         \/ Fills(c, b) /\ live' = live,
         AsSent(c, n, len) =>
           /\ len = n /\ conn[c].pos + len >= HeaderLen
           /\ total = FileSize[conn[c].file]
           /\ all = Content(conn[c].file, HeaderLen, conn[c].pos + len)
  PROVE  FileInv'
  <1> DEFINE file == conn[c].file
             sent == AsSent(c, n, len)
             full == Len(all) >= total
  <1>1. /\ conn[c] \in ConnTypes /\ file \in Files /\ conn[c].pos \in Nat /\ sent \in BOOLEAN
        /\ core1.at = "poll" /\ broken = FALSE
    BY DEF FileInv, Types, ConnTypes, DataInv, AsSent, Polling
  <1>2. /\ block' = [block EXCEPT ![b] = [name |-> file, size |-> total, conteudo |-> all,
                                          intact |-> sent]]
        /\ broken' = (Len(all) > total) /\ lost' = lost /\ UNCHANGED <<fileVars, busVars>>
        /\ core1' = IF full THEN [at |-> "free", c |-> c] ELSE core1
    BY DEF Copy, Complete
  <1>3. PICK x : /\ conn' = [conn EXCEPT ![c] = x]
                 /\ x = IF full THEN [[conn[c] EXCEPT !.pfh = b, !.intact = sent]
                                       EXCEPT !.estado = "CONCLUIDO", !.file = None, !.pos = 0]
                                ELSE [[conn[c] EXCEPT !.pfh = b, !.intact = sent]
                                       EXCEPT !.estado = "DADOS", !.pos = @ + n]
    BY DEF Copy, Complete
  <1> HIDE DEF full, sent
  <1>4. /\ x \in ConnTypes /\ x.st = "open" /\ x.pfh = b /\ x.intact = sent
        /\ full => x.estado = "CONCLUIDO"
        /\ ~full => x.estado = "DADOS" /\ x.file = file /\ x.pos = conn[c].pos + n
    <2> DEFINE y == [conn[c] EXCEPT !.pfh = b, !.intact = sent]
    <2>1. y \in ConnTypes /\ y.st = "open" /\ y.pfh = b /\ y.intact = sent
          /\ y.file = file /\ y.pos = conn[c].pos
      BY <1>1 DEF ConnTypes
    <2>2. x = IF full THEN [y EXCEPT !.estado = "CONCLUIDO", !.file = None, !.pos = 0]
                      ELSE [y EXCEPT !.estado = "DADOS", !.pos = @ + n]
      BY <1>3
    <2> HIDE DEF y
    <2>3. CASE full
      BY <2>1, <2>2, <2>3 DEF ConnTypes
    <2>4. CASE ~full
      <3>1. x = [y EXCEPT !.estado = "DADOS", !.pos = y.pos + n] /\ y.pos + n \in Nat
        BY <1>1, <2>1, <2>2, <2>4
      <3>2. QED
        BY <2>1, <2>4, <3>1 DEF ConnTypes
    <2>5. QED
      BY <2>3, <2>4
  <1>5. /\ conn'[c] = x /\ \A d \in Conns : d # c => conn'[d] = conn[d]
    BY <1>3 DEF FileInv, Types
  <1>6. /\ block'[b].name = file /\ block'[b].size = total /\ block'[b].conteudo = all
        /\ block'[b].intact = sent /\ \A d \in Blocks : d # b => block'[d] = block[d]
    BY <1>2 DEF FileInv, Types
  <1>7. /\ b \notin lost /\ b # buffer
        /\ \A d \in Conns : d # c /\ conn[d].estado = "DADOS" => conn[d].pfh # b
    <2>1. CASE b \notin live
      BY <1>1, <2>1 DEF FileInv, HeapInv, Fills
    <2>2. CASE Fills(c, b)
      BY <2>2 DEF FileInv, HeapInv, Fills
    <2>3. QED
      BY <2>1, <2>2
  <1>8. sent => /\ Len(all) <= total /\ total = FileSize[file]
                /\ full => all = Content(file, HeaderLen, StreamLen(file))
    <2> SUFFICES ASSUME sent PROVE /\ Len(all) <= total /\ total = FileSize[file]
                                   /\ full => all = Content(file, HeaderLen, StreamLen(file))
      OBVIOUS
    <2> DEFINE end == conn[c].pos + len
    <2>1. /\ HeaderLen \in Nat /\ total = FileSize[file] /\ end \in Nat
          /\ HeaderLen <= end /\ end <= HeaderLen + total
      BY <1>1, FileAssumption DEF StreamLen, sent
    <2>2. all = Content(file, HeaderLen, end)
      BY DEF sent
    <2> HIDE DEF end
    <2>3. Len(Content(file, HeaderLen, end)) = end - HeaderLen
      BY <1>1, <2>1, ContentProperties
    <2>4. Len(all) = end - HeaderLen
      BY <2>2, <2>3
    <2>5. Len(all) <= total
      BY <2>1, <2>4
    <2>6. full => end = StreamLen(file)
      <3>1. \A l, t, h, e \in Nat : l = e - h /\ e <= h + t /\ l >= t => e = h + t
        OBVIOUS
      <3>2. Len(all) \in Nat
        OBVIOUS
      <3>3. Len(all) >= total => end = HeaderLen + total
        BY <2>1, <2>4, <3>1, <3>2
      <3>4. QED
        BY <2>1, <3>3 DEF StreamLen, full
    <2>7. QED
      BY <2>1, <2>2, <2>5, <2>6
  <1> HIDE DEF file
  <1>9. Types'
    <2>1. block'[b] \in FileTypes
      BY <1>1, <1>2 DEF FileInv, Types, FileTypes
    <2>2. QED
      BY <1>1, <1>2, <1>3, <1>4, <2>1 DEF FileInv, Types, fileVars, Places
  <1>10. HeapInv'
    <2>1. buffer' = buffer /\ lost' = lost /\ core1'.at \in {"poll", "free"}
      BY <1>1, <1>2 DEF fileVars
    <2>2. \A d \in Blocks : d \in live' <=> d \in live \/ d = b
      BY <1>1 DEF FileInv, HeapInv
    <2>3. CASE full
      <3>1. core1'.at = "free" /\ core1'.c = c /\ conn'[c].estado = "CONCLUIDO" /\ conn'[c].pfh = b
        BY <1>2, <1>4, <1>5, <2>3
      <3>2. \A d \in Conns, k \in Blocks : Fills(d, k)' <=> d # c /\ Fills(d, k)
        BY <1>5, <3>1 DEF Fills
      <3>3. \A k : (Ends(k)' <=> k = b) /\ ~Ends(k)
        BY <1>1, <3>1 DEF Ends
      <3>4. \A k \in Blocks : Fills(c, k) => k = b
        BY DEF Fills
      <3>5. ASSUME NEW k \in Blocks
            PROVE  k \in live' <=> \/ \E d \in Conns : Fills(d, k)'
                                   \/ Ends(k)' \/ k \in lost'
                                   \/ core1'.at # "null" /\ k = buffer'
        <4>1. k \in live <=> \/ \E d \in Conns : Fills(d, k)
                             \/ k \in lost \/ k = buffer
          BY <1>1, <3>3 DEF FileInv, HeapInv
        <4>2. QED
          BY <2>1, <2>2, <3>1, <3>2, <3>3, <3>4, <4>1
      <3>6. \A d \in Conns : conn'[d].estado = "DADOS" =>
              /\ conn'[d].st = "open" /\ conn'[d].pfh \in Blocks \ lost'
              /\ conn'[d].pfh # buffer' /\ conn'[d].pfh # b
              /\ \A e \in Conns : conn'[e].estado = "DADOS" /\ conn'[e].pfh = conn'[d].pfh => e = d
        BY <1>5, <1>7, <2>1, <3>1 DEF FileInv, HeapInv, Fills
      <3>7. \A d \in Conns : conn'[d].estado = "CABECALHO" => conn'[d].pfh = None
        BY <1>5, <3>1 DEF FileInv, HeapInv
      <3>8. buffer' \notin lost'
        BY <2>1 DEF FileInv, HeapInv
      <3>9. QED
        BY <1>7, <2>1, <3>1, <3>3, <3>5, <3>6, <3>7, <3>8 DEF HeapInv, Fills
    <2>4. CASE ~full
      <3>1. core1'.at = "poll" /\ conn'[c].estado = "DADOS" /\ conn'[c].pfh = b /\ conn'[c].st = "open"
        BY <1>1, <1>2, <1>4, <1>5, <2>4
      <3>2. QED
        BY <1>1, <1>5, <1>7, <2>1, <2>2, <3>1 DEF FileInv, Types, HeapInv, Fills, Ends
    <2>5. QED
      BY <2>3, <2>4
  <1>11. DataInv'
    <2>1. ASSUME NEW d \in Conns, d # c
          PROVE  /\ conn'[d].st = "open" /\ conn'[d].estado # "CONCLUIDO" => conn'[d].file \in Files
                 /\ conn'[d].estado = "CABECALHO" /\ conn'[d].intact = TRUE => conn'[d].pos = 0
                 /\ conn'[d].estado = "DADOS" => Partial(d)'
      <3>1. conn[d].estado = "DADOS" => block'[conn[d].pfh] = block[conn[d].pfh]
        BY <1>6, <1>7, <2>1 DEF FileInv, HeapInv
      <3>2. /\ conn[d].st = "open" /\ conn[d].estado # "CONCLUIDO" => conn[d].file \in Files
            /\ conn[d].estado = "CABECALHO" /\ conn[d].intact = TRUE => conn[d].pos = 0
            /\ conn[d].estado = "DADOS" => Partial(d)
        BY DEF FileInv, DataInv
      <3>3. conn'[d] = conn[d]
        BY <1>5, <2>1
      <3>4. conn[d].estado = "DADOS" => Partial(d)'
        BY <3>1, <3>2, <3>3 DEF Partial
      <3>5. QED
        BY <3>2, <3>3, <3>4
    <2>2. CASE full
      BY <1>4, <1>5, <2>1, <2>2 DEF DataInv
    <2>3. CASE ~full
      <3>1. /\ conn'[c].estado = "DADOS" /\ conn'[c].file = file /\ conn'[c].pfh = b
            /\ conn'[c].pos = conn[c].pos + n /\ conn'[c].intact = sent
        BY <1>4, <1>5, <2>3
      <3>2. Len(all) < total
        BY <2>3 DEF full
      <3>3. Partial(c)'
        BY <1>6, <3>1, <3>2 DEF Partial, sent, file
      <3>4. QED
        BY <1>1, <2>1, <3>1, <3>3 DEF DataInv
    <2>4. QED
      BY <2>2, <2>3
  <1>12. buffer # None => block'[buffer] = block[buffer]
    BY <1>6, <1>7 DEF FileInv, Types
  <1>13. ReadInv'
    <2>1. core1'.at \in {"poll", "free"}
      BY <1>1, <1>2
    <2>2. QED
      BY <1>1, <1>2, <1>12, <2>1, CallbackReadInv
  <1>14. PubInv'
    <2>1. CASE full
      <3>1. core1'.at = "free" /\ core1'.c = c /\ conn'[c].pfh = b
        BY <1>2, <1>4, <1>5, <2>1
      <3>2. Good(conn[core1.c].pfh)'
        BY <1>6, <1>8, <2>1, <3>1 DEF Good, full
      <3>3. buffer # None => Good(buffer)'
        BY <1>1, <1>2, <1>12 DEF FileInv, PubInv, Good, fileVars
      <3>4. QED
        BY <1>1, <1>2, <1>12, <3>1, <3>2, <3>3 DEF FileInv, PubInv, Places, fileVars
    <2>2. CASE ~full
      BY <1>1, <1>2, <1>12, <2>2, CallbackPubInv
    <2>3. QED
      BY <2>1, <2>2
  <1>15. BrokenByPieces'
    <2>1. CASE Len(all) > total
      <3>1. sent = FALSE
        BY <1>1, <1>8, <2>1
      <3>2. ~conn'[c].intact
        BY <1>4, <1>5, <3>1
      <3>3. QED
        BY <3>2 DEF BrokenByPieces
    <2>2. CASE ~(Len(all) > total)
      <3>1. ~broken'
        <4>1. broken' = (Len(all) > total)
          BY <1>2
        <4>2. QED
          BY <2>2, <4>1
      <3>2. QED
        BY <3>1 DEF BrokenByPieces
    <2>3. QED
      BY <2>1, <2>2
  <1>16. QED
    BY <1>9, <1>10, <1>11, <1>13, <1>14, <1>15 DEF FileInv

LEMMA RecvNothingFileInv ==
  ASSUME FileInv, Polling, NEW c \in Conns, conn[c].st = "open", NEW n \in Nat, NEW len,
         RecvNothing(c, n, len)
  PROVE  FileInv'
  <1> DEFINE x == [conn[c] EXCEPT !.pos = @ + n, !.intact = FALSE]
  <1>1. /\ conn[c] \in ConnTypes /\ conn[c].estado = "CABECALHO" /\ conn[c].pfh = None
        /\ conn[c].file \in Files
    BY DEF RecvNothing, Dropped, FileInv, Types, HeapInv, DataInv
  <1>2. /\ x \in ConnTypes /\ x.estado = "CABECALHO" /\ x.pfh = None /\ x.intact = FALSE
        /\ x.file \in Files
    <2>1. conn[c].pos + n \in Nat
      BY <1>1 DEF ConnTypes
    <2>2. QED
      BY <1>1, <2>1 DEF ConnTypes
  <1>3. conn' = [conn EXCEPT ![c] = x]
    BY <1>1 DEF RecvNothing, FileInv, Types, ConnTypes
  <1> HIDE DEF x
  <1>4. UNCHANGED <<heapVars, broken, core1, fileVars, busVars>>
    BY DEF RecvNothing
  <1>5. QED
    BY <1>1, <1>2, <1>3, <1>4, ReplacedFileInv

LEMMA RecvNoMemoryFileInv ==
  ASSUME FileInv, Polling, NEW c \in Conns, NEW n, NEW len, RecvNoMemory(c, n, len)
  PROVE  FileInv'
  <1> DEFINE x == [Closed EXCEPT !.st = "refused"]
  <1>1. /\ x \in ConnTypes /\ x.estado = "CABECALHO" /\ x.pfh = None /\ x.pos = 0
        /\ x.st = "refused"
    BY DEF Closed, ConnTypes
  <1>2. /\ conn' = [conn EXCEPT ![c] = x] /\ conn[c].estado = "CABECALHO"
        /\ UNCHANGED <<heapVars, broken, core1, fileVars, busVars>>
    BY DEF RecvNoMemory
  <1> HIDE DEF x
  <1>3. QED
    BY <1>1, <1>2, ReplacedFileInv

LEMMA RecvHeaderFileInv ==
  ASSUME FileInv, Polling, NEW c \in Conns, conn[c].st = "open",
         NEW n \in Nat, NEW len \in Nat, conn[c].pos + n <= StreamLen(conn[c].file),
         RecvHeader(c, n, len)
  PROVE  FileInv'
  <1>1. PICK b \in Blocks \ live, total \in SizeRead(c) :
          live' = live \cup {b} /\ Copy(c, n, len, b, total, <<>>)
    BY DEF RecvHeader
  <1>2. /\ conn[c].estado = "CABECALHO" /\ CopyFrom(c, len) = HeaderLen /\ len >= HeaderLen
        /\ conn[c].file \in Files /\ conn[c].pos \in Nat /\ HeaderLen \in Nat
        /\ conn[c].intact = TRUE => conn[c].pos = 0
    BY FileAssumption DEF RecvHeader, Dropped, CopyFrom, FileInv, DataInv, Types, ConnTypes
  <1>3. total \in Nat /\ (conn[c].pos = 0 => total = FileSize[conn[c].file])
    BY <1>2, FileAssumption DEF SizeRead
  <1> DEFINE new == Content(conn[c].file, conn[c].pos + CopyFrom(c, len), conn[c].pos + len)
             all == <<>> \o new
  <1>4. new \in Seq(Units)
    <2>1. /\ conn[c].pos + CopyFrom(c, len) \in Nat /\ conn[c].pos + len \in Nat
          /\ conn[c].pos + CopyFrom(c, len) <= conn[c].pos + len
      BY <1>2
    <2>2. QED
      BY <1>2, <2>1, ContentProperties
  <1>5. all = new /\ all \in Seq(Units)
    BY <1>4, ConcatEmptySeq
  <1>6. AsSent(c, n, len) =>
           /\ len = n /\ conn[c].pos + len >= HeaderLen
           /\ total = FileSize[conn[c].file]
           /\ all = Content(conn[c].file, HeaderLen, conn[c].pos + len)
    <2> SUFFICES ASSUME AsSent(c, n, len)
                 PROVE  /\ len = n /\ conn[c].pos + len >= HeaderLen
                        /\ total = FileSize[conn[c].file]
                        /\ all = Content(conn[c].file, HeaderLen, conn[c].pos + len)
      OBVIOUS
    <2>1. len = n /\ conn[c].intact = TRUE
      BY DEF AsSent, FileInv, Types, ConnTypes
    <2>2. conn[c].pos = 0 /\ conn[c].pos + CopyFrom(c, len) = HeaderLen
      BY <1>2, <2>1
    <2>3. all = Content(conn[c].file, HeaderLen, conn[c].pos + len)
      BY <1>5, <2>2
    <2>4. QED
      BY <1>2, <1>3, <2>1, <2>2, <2>3
  <1> HIDE DEF all
  <1>7. all = <<>> \o new
    BY DEF all
  <1>8. conn[c].estado # "CONCLUIDO" /\ b \notin live /\ b \in Blocks
    BY <1>2
  <1>9. QED
    BY <1>1, <1>2, <1>3, <1>5, <1>6, <1>7, <1>8, CopyFileInv

LEMMA RecvDataFileInv ==
  ASSUME FileInv, Polling, NEW c \in Conns, conn[c].st = "open",
         NEW n \in Nat, NEW len \in Nat, conn[c].pos + n <= StreamLen(conn[c].file),
         RecvData(c, n, len)
  PROVE  FileInv'
  <1> DEFINE b   == conn[c].pfh
             had == block[b].conteudo
             new == Content(conn[c].file, conn[c].pos + CopyFrom(c, len), conn[c].pos + len)
             all == had \o new
  <1>1. /\ conn[c].estado = "DADOS" /\ live' = live
        /\ Copy(c, n, len, b, block[b].size, had)
    BY DEF RecvData
  <1>2. /\ CopyFrom(c, len) = 0 /\ conn[c].file \in Files /\ conn[c].pos \in Nat
        /\ HeaderLen \in Nat /\ b \in Blocks /\ Fills(c, b)
    BY <1>1, FileAssumption DEF CopyFrom, FileInv, DataInv, Types, ConnTypes, HeapInv, Fills
  <1>3. block[b].size \in Nat /\ had \in Seq(Units)
    BY <1>2 DEF FileInv, Types, FileTypes
  <1>4. new \in Seq(Units) /\ new = Content(conn[c].file, conn[c].pos, conn[c].pos + len)
    <2>1. /\ conn[c].pos + CopyFrom(c, len) = conn[c].pos
          /\ conn[c].pos + len \in Nat /\ conn[c].pos <= conn[c].pos + len
      BY <1>2
    <2>2. QED
      BY <1>2, <2>1, ContentProperties
  <1>5. all \in Seq(Units)
    BY <1>3, <1>4, ConcatProperties
  <1>6. AsSent(c, n, len) =>
           /\ len = n /\ conn[c].pos + len >= HeaderLen
           /\ block[b].size = FileSize[conn[c].file]
           /\ all = Content(conn[c].file, HeaderLen, conn[c].pos + len)
    <2> SUFFICES ASSUME AsSent(c, n, len)
                 PROVE  /\ len = n /\ conn[c].pos + len >= HeaderLen
                        /\ block[b].size = FileSize[conn[c].file]
                        /\ all = Content(conn[c].file, HeaderLen, conn[c].pos + len)
      OBVIOUS
    <2>1. len = n /\ conn[c].intact = TRUE
      BY DEF AsSent, FileInv, Types, ConnTypes
    <2>2. /\ block[b].size = FileSize[conn[c].file] /\ conn[c].pos >= HeaderLen
          /\ had = Content(conn[c].file, HeaderLen, conn[c].pos)
      BY <1>1, <2>1 DEF FileInv, DataInv, Partial
    <2>3. all = Content(conn[c].file, HeaderLen, conn[c].pos + len)
      <3>1. /\ conn[c].pos + len \in Nat /\ conn[c].pos <= conn[c].pos + len
            /\ HeaderLen <= conn[c].pos
        BY <1>2, <2>2
      <3>2. QED
        BY <1>2, <1>4, <2>2, <3>1, ContentAppended
    <2> HIDE DEF all, had, b
    <2>4. conn[c].pos + len >= HeaderLen
      BY <1>2, <2>2
    <2>5. QED
      BY <2>1, <2>2, <2>3, <2>4
  <1> HIDE DEF all, had, b
  <1>7. all = had \o new
    BY DEF all
  <1>8. conn[c].estado # "CONCLUIDO"
    BY <1>1
  <1>9. QED
    BY <1>1, <1>2, <1>3, <1>5, <1>6, <1>7, <1>8, CopyFileInv

LEMMA RecvFileInv == ASSUME FileInv, NEW c \in Conns, Recv(c) PROVE FileInv'
  <1>1. Polling /\ conn[c].st = "open" /\ conn[c].estado # "CONCLUIDO"
    BY DEF Recv
  <1>2. PICK n \in 1 .. StreamLen(conn[c].file) - conn[c].pos : \E len \in 1 .. n :
          \/ RecvNothing(c, n, len) \/ RecvHeader(c, n, len)
          \/ RecvNoMemory(c, n, len) \/ RecvData(c, n, len)
    BY DEF Recv
  <1>3. conn[c].file \in Files /\ conn[c].pos \in Nat /\ StreamLen(conn[c].file) \in Nat
    BY <1>1, FileAssumption DEF FileInv, DataInv, Types, ConnTypes, StreamLen
  <1>4. n \in Nat /\ conn[c].pos + n <= StreamLen(conn[c].file)
    BY <1>3
  <1>5. PICK len \in Nat : \/ RecvNothing(c, n, len) \/ RecvHeader(c, n, len)
                           \/ RecvNoMemory(c, n, len) \/ RecvData(c, n, len)
    BY <1>2, <1>4
  <1>6. QED
    BY <1>1, <1>4, <1>5, RecvNothingFileInv, RecvHeaderFileInv, RecvNoMemoryFileInv, RecvDataFileInv

-----------------------------------------------------------------------------
LEMMA NextFileInv == FileInv /\ [Next]_vars => FileInv'
  <1> SUFFICES ASSUME FileInv, [Next]_vars PROVE FileInv'
    OBVIOUS
  <1>1. CASE \E c \in Conns : Accept(c) \/ Recv(c) \/ Redeliver(c) \/ Disconnect(c) \/ ResetConn(c)
    BY <1>1, AcceptFileInv, RecvFileInv, RedeliverFileInv, DisconnectFileInv, ResetConnFileInv
  <1>2. CASE Publish
    BY <1>2, FreeOldFileInv, SetNullFileInv, SetBufferFileInv, SetRestFileInv DEF Publish
  <1>3. CASE Access \/ Core0Step \/ Restart
    BY <1>3, AccessFileInv, AgainFileInv, ServeStatusFileInv, ServeSizeHighFileInv,
       ServeSizeLowFileInv, ServeDataFileInv, ServeCrcFileInv, LoadSectorFileInv DEF Core0Step
  <1>4. CASE UNCHANGED vars
    BY <1>4, StutterFileInv
  <1>5. QED
    BY <1>1, <1>2, <1>3, <1>4 DEF Next

LEMMA FileInvAlways == Spec => []FileInv
  BY InitFileInv, NextFileInv, PTL DEF Spec

-----------------------------------------------------------------------------
(* What a program accepts, whatever core 1 does meanwhile.                 *)

\* No block holds bytes of two files ...
BlocksOne ==
  /\ \A b \in Blocks : \A i \in 1 .. Len(block[b].conteudo) : block[b].conteudo[i][1] = block[b].name
  /\ \A c \in Conns : conn[c].estado = "DADOS" => block[conn[c].pfh].name = conn[c].file

\* ... so that no CRC covers two, and the program has read as many bytes as
\* it was told before it looks at the CRC.
SeenOne ==
  /\ crc = <<>> \/ crc = Sector \/ OneFile(crc)
  /\ tamanho \in Nat /\ ponteiro \in Nat /\ core0.ponteiro \in Nat
  /\ reader.got \in Seq(Bytes \cup {Junk}) /\ reader.size \in Int
  /\ reader.at \in {"status", "size", "low"} => Len(reader.got) = 0
  /\ reader.at = "data" => Len(reader.got) < reader.size
  /\ reader.at = "crc" => Len(reader.got) = reader.size /\ reader.size # 0
  /\ AcceptedIsOneFile

LEMMA InitOne == Init => BlocksOne /\ SeenOne
  <1> SUFFICES ASSUME Init PROVE BlocksOne /\ SeenOne
    OBVIOUS
  <1>1. BlocksOne
    BY DEF Init, BlocksOne, Empty, Closed
  <1>2. reader = Asking /\ crc = <<>> /\ tamanho = 0 /\ ponteiro = 0 /\ core0.ponteiro = 0
    BY DEF Init
  <1>3. /\ Asking.got = <<>> /\ Asking.size = 0 /\ Asking.at = "status"
    BY DEF Asking
  <1>4. SeenOne
    BY <1>2, <1>3 DEF SeenOne, AcceptedIsOneFile
  <1>5. QED
    BY <1>1, <1>4

\* The bytes a segment adds to a block are those of its connection's file.
LEMMA CopyBlocksOne ==
  ASSUME FileInv, BlocksOne, NEW c \in Conns, conn[c].st = "open", conn[c].estado # "CONCLUIDO",
         NEW n \in Nat, NEW len \in Nat, NEW b \in Blocks, NEW total \in Nat, NEW had \in Seq(Units),
         \A i \in 1 .. Len(had) : had[i][1] = conn[c].file,
         Copy(c, n, len, b, total, had), CopyFrom(c, len) \in Nat, CopyFrom(c, len) <= len,
         \A d \in Conns : d # c /\ conn[d].estado = "DADOS" => conn[d].pfh # b
  PROVE  BlocksOne'
  <1> DEFINE file == conn[c].file
             i0   == conn[c].pos + CopyFrom(c, len)
             j0   == conn[c].pos + len
             new  == Content(file, i0, j0)
             all  == had \o new
  <1>1. file \in Files /\ conn[c].pos \in Nat
    BY DEF FileInv, Types, ConnTypes, DataInv
  <1>2. /\ new \in Seq(Units) /\ Len(new) = j0 - i0
        /\ \A k \in 1 .. j0 - i0 : new[k] = <<file, i0 + k - HeaderLen>>
    <2>1. i0 \in Nat /\ j0 \in Nat /\ i0 <= j0
      BY <1>1
    <2> HIDE DEF i0, j0
    <2>2. QED
      BY <1>1, <2>1, ContentProperties
  <1>3. \A k \in 1 .. Len(new) : new[k][1] = file
    <2> HIDE DEF new, i0, j0
    <2>1. QED
      BY <1>2
  <1> HIDE DEF new
  <1>4. /\ all \in Seq(Units) /\ Len(all) = Len(had) + Len(new)
        /\ \A k \in 1 .. Len(had) + Len(new) : all[k] = IF k <= Len(had) THEN had[k] ELSE new[k - Len(had)]
    BY <1>2, ConcatProperties
  <1> HIDE DEF all
  <1>5. \A k \in 1 .. Len(all) : all[k][1] = file
    <2> SUFFICES ASSUME NEW k \in 1 .. Len(all) PROVE all[k][1] = file
      OBVIOUS
    <2>1. Len(had) \in Nat /\ Len(new) \in Nat
      BY <1>2
    <2>2. CASE k <= Len(had)
      BY <1>4, <2>1, <2>2
    <2>3. CASE ~(k <= Len(had))
      BY <1>3, <1>4, <2>1, <2>3
    <2>4. QED
      BY <2>2, <2>3
  <1>6. PICK x : /\ conn' = [conn EXCEPT ![c] = x]
                 /\ x.estado = "DADOS" => x.pfh = b /\ x.file = file
    <2> DEFINE es == [conn[c] EXCEPT !.pfh = b, !.intact = AsSent(c, n, len)]
               xf == [es EXCEPT !.estado = "CONCLUIDO", !.file = None, !.pos = 0]
               xd == [es EXCEPT !.estado = "DADOS", !.pos = @ + n]
    <2>1. conn' = [conn EXCEPT ![c] = IF Complete(Len(all), total) THEN xf ELSE xd]
      BY DEF Copy, all, new
    <2>2. conn[c] \in ConnTypes
      BY DEF FileInv, Types
    <2>3. xf.estado = "CONCLUIDO" /\ xd.pfh = b /\ xd.file = file
      BY <2>2 DEF ConnTypes
    <2> HIDE DEF xf, xd
    <2>4. CASE Complete(Len(all), total)
      BY <2>1, <2>3, <2>4
    <2>5. CASE ~Complete(Len(all), total)
      BY <2>1, <2>3, <2>5
    <2>6. QED
      BY <2>4, <2>5
  <1>7. block' = [block EXCEPT ![b] = [name |-> file, size |-> total, conteudo |-> all,
                                       intact |-> AsSent(c, n, len)]]
    BY DEF Copy, all, new
  <1>8. /\ block'[b].name = file /\ block'[b].conteudo = all
        /\ \A d \in Blocks : d # b => block'[d] = block[d]
    BY <1>7 DEF FileInv, Types
  <1>9. /\ conn'[c] = x /\ \A d \in Conns : d # c => conn'[d] = conn[d]
    BY <1>6 DEF FileInv, Types
  <1> HIDE DEF file
  <1>10. \A d \in Conns : d # c /\ conn[d].estado = "DADOS" => conn[d].pfh \in Blocks
    BY DEF FileInv, HeapInv
  <1>11. ASSUME NEW k \in Blocks
         PROVE  \A i \in 1 .. Len(block'[k].conteudo) : block'[k].conteudo[i][1] = block'[k].name
    <2>1. CASE k = b
      BY <1>5, <1>8, <2>1
    <2>2. CASE k # b
      BY <1>8, <2>2 DEF BlocksOne
    <2>3. QED
      BY <2>1, <2>2
  <1>12. ASSUME NEW d \in Conns, conn'[d].estado = "DADOS" PROVE block'[conn'[d].pfh].name = conn'[d].file
    <2>1. CASE d = c
      BY <1>6, <1>8, <1>9, <1>12, <2>1
    <2>2. CASE d # c
      BY <1>8, <1>9, <1>10, <1>12, <2>2 DEF BlocksOne
    <2>3. QED
      BY <2>1, <2>2
  <1>13. QED
    BY <1>11, <1>12 DEF BlocksOne

\* A connection is replaced by one that holds no block, the blocks stay or one
\* that no other connection fills is freed.
LEMMA ReplacedBlocksOne ==
  ASSUME FileInv, BlocksOne, NEW c \in Conns, NEW x, conn' = [conn EXCEPT ![c] = x],
         x.estado # "DADOS",
         \/ block' = block
         \/ \E b \in Blocks : /\ block' = [k \in Blocks |-> IF k = b THEN Empty ELSE block[k]]
                              /\ \A d \in Conns : d # c /\ conn[d].estado = "DADOS" => conn[d].pfh # b
  PROVE  BlocksOne'
  <1>1. /\ conn'[c] = x /\ \A d \in Conns : d # c => conn'[d] = conn[d]
    BY DEF FileInv, Types
  <1>2. \A d \in Conns : conn[d].estado = "DADOS" => conn[d].pfh \in Blocks
    BY DEF FileInv, HeapInv
  <1>3. CASE block' = block
    BY <1>1, <1>3 DEF BlocksOne
  <1>4. ASSUME NEW b \in Blocks, block' = [k \in Blocks |-> IF k = b THEN Empty ELSE block[k]],
               \A d \in Conns : d # c /\ conn[d].estado = "DADOS" => conn[d].pfh # b
        PROVE  BlocksOne'
    <2>1. Len(block'[b].conteudo) = 0 /\ \A k \in Blocks : k # b => block'[k] = block[k]
      BY <1>4 DEF Empty
    <2>2. QED
      BY <1>1, <1>2, <1>4, <2>1 DEF BlocksOne
  <1>5. QED
    BY <1>3, <1>4

LEMMA RecvBlocksOne == ASSUME FileInv, BlocksOne, NEW c \in Conns, Recv(c) PROVE BlocksOne'
  <1>1. conn[c].st = "open" /\ conn[c].estado # "CONCLUIDO" /\ conn[c] \in ConnTypes
    BY DEF Recv, FileInv, Types
  <1>2. PICK n \in 1 .. StreamLen(conn[c].file) - conn[c].pos : \E len \in 1 .. n :
          \/ RecvNothing(c, n, len) \/ RecvHeader(c, n, len)
          \/ RecvNoMemory(c, n, len) \/ RecvData(c, n, len)
    BY DEF Recv
  <1>3. conn[c].file \in Files /\ conn[c].pos \in Nat /\ StreamLen(conn[c].file) \in Nat
    BY <1>1, FileAssumption DEF FileInv, DataInv, Types, ConnTypes, StreamLen
  <1>4. n \in Nat
    BY <1>3
  <1>5. PICK len \in Nat : \/ RecvNothing(c, n, len) \/ RecvHeader(c, n, len)
                           \/ RecvNoMemory(c, n, len) \/ RecvData(c, n, len)
    BY <1>2, <1>4
  <1>6. CASE RecvNothing(c, n, len)
    <2> DEFINE x == [conn[c] EXCEPT !.pos = @ + n, !.intact = FALSE]
    <2>1. conn' = [conn EXCEPT ![c] = x] /\ block' = block
      BY <1>1, <1>6 DEF RecvNothing, heapVars, FileInv, Types, ConnTypes
    <2>2. x.estado # "DADOS"
      BY <1>1, <1>6 DEF RecvNothing, Dropped, ConnTypes
    <2> HIDE DEF x
    <2>3. QED
      BY <2>1, <2>2, ReplacedBlocksOne
  <1>7. CASE RecvNoMemory(c, n, len)
    <2> DEFINE x == [Closed EXCEPT !.st = "refused"]
    <2>1. conn' = [conn EXCEPT ![c] = x] /\ block' = block /\ x.estado # "DADOS"
      BY <1>7 DEF RecvNoMemory, heapVars, Closed
    <2> HIDE DEF x
    <2>2. QED
      BY <2>1, ReplacedBlocksOne
  <1>8. CASE RecvHeader(c, n, len)
    <2>1. PICK b \in Blocks, total \in Nat, had \in Seq(Units) :
                 b \notin live /\ had = <<>> /\ Copy(c, n, len, b, total, had)
      <3>1. SizeRead(c) \subseteq Nat
        BY <1>3, FileAssumption DEF SizeRead
      <3>2. PICK b \in Blocks, total \in Nat :
                   b \notin live /\ Copy(c, n, len, b, total, <<>>)
        BY <1>8, <3>1 DEF RecvHeader
      <3>3. <<>> \in Seq(Units)
        OBVIOUS
      <3>4. QED
        BY <3>2, <3>3, Zenon
    <2>2. /\ had \in Seq(Units) /\ \A i \in 1 .. Len(had) : had[i][1] = conn[c].file
          /\ Copy(c, n, len, b, total, had)
      BY <2>1
    <2>3. CopyFrom(c, len) \in Nat /\ CopyFrom(c, len) <= len
      BY <1>8, FileAssumption DEF RecvHeader, Dropped, CopyFrom
    <2>4. \A d \in Conns : d # c /\ conn[d].estado = "DADOS" => conn[d].pfh # b
      BY <2>1 DEF FileInv, HeapInv, Fills
    <2>5. QED
      BY <1>1, <1>4, <2>2, <2>3, <2>4, CopyBlocksOne
  <1>9. CASE RecvData(c, n, len)
    <2> DEFINE b   == conn[c].pfh
               had == block[b].conteudo
    <2>1. conn[c].estado = "DADOS" /\ Copy(c, n, len, b, block[b].size, had) /\ b \in Blocks
      BY <1>9 DEF RecvData, FileInv, HeapInv
    <2>2. block[b].size \in Nat /\ had \in Seq(Units)
      BY <2>1 DEF FileInv, Types, FileTypes
    <2>3. CopyFrom(c, len) \in Nat /\ CopyFrom(c, len) <= len
      BY <2>1 DEF CopyFrom
    <2>4. \A i \in 1 .. Len(had) : had[i][1] = conn[c].file
      BY <2>1 DEF BlocksOne
    <2>5. \A d \in Conns : d # c /\ conn[d].estado = "DADOS" => conn[d].pfh # b
      BY <2>1 DEF FileInv, HeapInv, Fills
    <2> HIDE DEF b, had
    <2>6. QED
      BY <1>1, <1>4, <2>1, <2>2, <2>3, <2>4, <2>5, CopyBlocksOne
  <1>10. QED
    BY <1>5, <1>6, <1>7, <1>8, <1>9

LEMMA NextBlocksOne == ASSUME FileInv, BlocksOne, [Next]_vars PROVE BlocksOne'
  <1>1. CASE UNCHANGED <<conn, block>>
    BY <1>1 DEF BlocksOne
  <1>2. ASSUME NEW c \in Conns, Accept(c) PROVE BlocksOne'
    <2>1. CASE UNCHANGED conn
      BY <1>1, <1>2, <2>1 DEF Accept, heapVars
    <2>2. ASSUME NEW f \in Files, conn' = [conn EXCEPT ![c] = [Closed EXCEPT !.st = "open", !.file = f]]
          PROVE  BlocksOne'
      <3> DEFINE x == [Closed EXCEPT !.st = "open", !.file = f]
      <3>1. conn' = [conn EXCEPT ![c] = x] /\ block' = block /\ x.estado # "DADOS"
        BY <1>2, <2>2 DEF Accept, heapVars, Closed
      <3> HIDE DEF x
      <3>2. QED
        BY <3>1, ReplacedBlocksOne
    <2>3. QED
      BY <1>2, <2>1, <2>2 DEF Accept
  <1>3. ASSUME NEW c \in Conns, Disconnect(c) \/ ResetConn(c) PROVE BlocksOne'
    <2>1. conn' = [conn EXCEPT ![c] = Closed] /\ Closed.estado # "DADOS"
      BY <1>3 DEF Disconnect, ResetConn, Closed
    <2>2. CASE block' = block
      BY <2>1, <2>2, ReplacedBlocksOne
    <2>3. CASE Disconnect(c) /\ Unfinished(c)
      <3>1. conn[c].estado = "DADOS" /\ conn[c].pfh \in Blocks
        BY <2>3 DEF Unfinished, FileInv, Types, ConnTypes, HeapInv
      <3>2. block' = [k \in Blocks |-> IF k = conn[c].pfh THEN Empty ELSE block[k]]
        BY <2>3 DEF Disconnect, Free
      <3>3. \A d \in Conns : d # c /\ conn[d].estado = "DADOS" => conn[d].pfh # conn[c].pfh
        BY <3>1 DEF FileInv, HeapInv, Fills
      <3>4. QED
        BY <2>1, <3>1, <3>2, <3>3, ReplacedBlocksOne
    <2>4. QED
      BY <1>3, <2>2, <2>3 DEF Disconnect, ResetConn
  <1>4. CASE FreeOld
    <2>1. conn' = conn /\ block' = [k \in Blocks |-> IF k = buffer THEN Empty ELSE block[k]]
      BY <1>4 DEF FreeOld, Core1At, Free
    <2>2. \A d \in Conns : conn[d].estado = "DADOS" => conn[d].pfh # buffer /\ conn[d].pfh \in Blocks
      BY DEF FileInv, HeapInv
    <2>3. \A k \in Blocks : IF k = buffer THEN Len(block'[k].conteudo) = 0 ELSE block'[k] = block[k]
      BY <2>1 DEF Empty
    <2>4. QED
      BY <2>1, <2>2, <2>3 DEF BlocksOne
  <1>5. CASE SetNull \/ SetBuffer \/ SetTamanho \/ SetCrc \/ SetPonteiro \/ SetPronto
    BY <1>1, <1>5 DEF SetNull, SetBuffer, SetTamanho, SetCrc, SetPonteiro, SetPronto, Core1At
  <1>6. CASE Access \/ Core0Step \/ Restart
    BY <1>1, <1>6 DEF Access, Core0Step, Restart, TestPronto, TestPonteiro, TestTamanho, ZeroPonteiro,
       ClearPronto, ServeStatus, ServeSizeHigh, ServeSizeLow, ServeData, StorePonteiro, ServeCrc,
       ServeDone, LoadSector, Served, heapVars
  <1>7. ASSUME NEW c \in Conns, Redeliver(c) PROVE BlocksOne'
    BY <1>1, <1>7 DEF Redeliver, heapVars
  <1>8. QED
    BY <1>1, <1>2, <1>3, <1>4, <1>5, <1>6, <1>7, RecvBlocksOne DEF Next, Publish, vars, heapVars

LEMMA WholeIsOneFile ==
  ASSUME NEW f \in FileTypes, Len(f.conteudo) >= f.size,
         \A i \in 1 .. Len(f.conteudo) : f.conteudo[i][1] = f.name
  PROVE  OneFile(Whole(f))
  <1> DEFINE w == Whole(f)
  <1>1. f.size \in Nat /\ Len(f.conteudo) \in Nat
    BY DEF FileTypes
  <1>2. /\ w \in Seq(Bytes) /\ Len(w) = 1 + f.size
        /\ w[1] = <<f.name, "file_t", f.size>>
        /\ \A i \in 1 .. f.size : w[1 + i] = f.conteudo[i]
    BY WholeProperties
  <1> HIDE DEF w
  <1>3. w[1][3] = f.size /\ w[1][1] = f.name
    BY <1>2
  <1>4. ASSUME NEW i \in 2 .. Len(w) PROVE w[i][1] = w[1][1]
    <2>1. i - 1 \in 1 .. f.size /\ 1 + (i - 1) = i
      BY <1>1, <1>2
    <2>2. w[i] = f.conteudo[i - 1]
      BY <1>2, <2>1
    <2>3. QED
      BY <1>1, <1>3, <2>1, <2>2
  <1>5. QED
    BY <1>2, <1>3, <1>4 DEF OneFile, w

\* Core 1, and core 0 between its accesses, leave what the program has read.
LEMMA UnreadSeenOne ==
  ASSUME FileInv, SeenOne, crc' = <<>> \/ crc' = Sector \/ OneFile(crc'),
         tamanho' \in Nat, ponteiro' \in Nat, core0'.ponteiro \in Nat,
         \/ reader' = reader
         \/ reader' = [reader EXCEPT !.calm = FALSE]
         \/ reader' = Asking
  PROVE  SeenOne'
  <1>1. CASE \/ reader' = reader \/ reader' = [reader EXCEPT !.calm = FALSE]
    <2>1. reader'.got = reader.got /\ reader'.at = reader.at /\ reader'.size = reader.size
      BY <1>1 DEF FileInv, ReadInv
    <2>2. QED
      BY <2>1 DEF SeenOne, AcceptedIsOneFile
  <1>2. CASE reader' = Asking
    <2>1. reader'.got = <<>> /\ reader'.at = "status" /\ reader'.size = 0
      BY <1>2 DEF Asking
    <2>2. QED
      BY <2>1 DEF SeenOne, AcceptedIsOneFile
  <1>3. QED
    BY <1>1, <1>2

LEMMA ServeSeenOne ==
  ASSUME FileInv, SeenOne, ServeStatus \/ ServeSizeHigh \/ ServeSizeLow \/ ServeData \/ ServeCrc
  PROVE  SeenOne'
  <1>1. /\ UNCHANGED <<crc, tamanho, ponteiro>> /\ core0'.ponteiro \in Nat
    BY DEF ServeStatus, ServeSizeHigh, ServeSizeLow, ServeData, ServeCrc, Served, Core0, fileVars,
       FileInv, ReadInv, SeenOne
  <1>2. CASE ServeStatus
    <2>1. CASE reader' = reader
      BY <1>1, <2>1, UnreadSeenOne DEF SeenOne
    <2>2. CASE reader' = [Asking EXCEPT !.at = "size", !.calm = core1.at = "poll" /\ ~touched]
      <3>1. reader'.got = <<>> /\ reader'.at = "size" /\ reader'.size = 0
        BY <2>2 DEF Asking
      <3>2. QED
        BY <1>1, <3>1 DEF SeenOne, AcceptedIsOneFile
    <2>3. QED
      BY <1>2, <2>1, <2>2 DEF ServeStatus
  <1>3. CASE ServeSizeHigh
    <2>1. /\ reader'.got = reader.got /\ reader'.at = "low" /\ reader.at = "size"
          /\ reader'.size = tamanho - (tamanho % Byte)
      BY <1>3 DEF ServeSizeHigh, Serve, FileInv, ReadInv
    <2>2. reader'.size \in Int
      <3>1. \A t \in Nat, m \in Nat \ {0} : t - (t % m) \in Int
        OBVIOUS
      <3>2. Byte \in Nat \ {0} /\ tamanho \in Nat
        BY FileAssumption DEF SeenOne
      <3>3. QED
        BY <2>1, <3>1, <3>2
    <2>3. QED
      BY <1>1, <2>1, <2>2 DEF SeenOne, AcceptedIsOneFile
  <1>4. CASE ServeSizeLow
    <2> DEFINE size == (reader.size + (tamanho % Byte)) % SizeMod
    <2>1. /\ reader'.got = reader.got /\ reader.at = "low" /\ reader'.size = size
          /\ reader'.at = IF size = 0 THEN "refuse" ELSE "data"
      BY <1>4 DEF ServeSizeLow, Serve, FileInv, ReadInv
    <2>2. size \in Nat
      <3>1. \A r \in Int, t \in Nat, m, k \in Nat \ {0} : (r + (t % m)) % k \in Nat
        OBVIOUS
      <3>2. Byte \in Nat \ {0} /\ SizeMod \in Nat \ {0} /\ tamanho \in Nat /\ reader.size \in Int
        BY FileAssumption DEF SeenOne
      <3>3. QED
        BY <3>1, <3>2
    <2> HIDE DEF size
    <2>3. Len(reader.got) = 0 /\ (size # 0 => 0 < size)
      BY <2>1, <2>2 DEF SeenOne
    <2>4. QED
      BY <1>1, <2>1, <2>2, <2>3 DEF SeenOne, AcceptedIsOneFile
  <1>5. CASE ServeData
    <2> DEFINE byte == ByteAt(buffer, ponteiro)
               more == Append(reader.got, byte)
    <2>1. /\ reader'.got = more /\ reader'.size = reader.size /\ reader.at = "data"
          /\ reader'.at = IF Len(more) = reader.size THEN "crc" ELSE "data"
      BY <1>5 DEF ServeData, Serve, FileInv, ReadInv
    <2>2. byte \in Bytes \cup {Junk}
      <3>1. CASE buffer \notin live \/ ponteiro > block[buffer].size \/ ponteiro > Len(block[buffer].conteudo)
        BY <3>1 DEF ByteAt
      <3>2. CASE ~(buffer \notin live \/ ponteiro > block[buffer].size \/ ponteiro > Len(block[buffer].conteudo))
        <4>1. buffer \in Blocks /\ block[buffer] \in FileTypes
          BY <3>2 DEF FileInv, Types
        <4>2. /\ block[buffer].name \in Files \cup {None} /\ block[buffer].size \in Nat
              /\ block[buffer].conteudo \in Seq(Units)
          BY <4>1 DEF FileTypes
        <4>3. <<block[buffer].name, "file_t", block[buffer].size>> \in Bytes
          BY <4>2 DEF Bytes
        <4>4. ponteiro # 0 => block[buffer].conteudo[ponteiro] \in Bytes
          <5>1. ponteiro # 0 => ponteiro \in 1 .. Len(block[buffer].conteudo)
            BY <3>2, <4>2 DEF SeenOne
          <5>2. QED
            BY <4>2, <5>1 DEF Bytes
        <4>5. QED
          BY <3>2, <4>3, <4>4 DEF ByteAt
      <3>3. QED
        BY <3>1, <3>2
    <2> HIDE DEF byte
    <2>3. more \in Seq(Bytes \cup {Junk}) /\ Len(more) = Len(reader.got) + 1
      BY <2>2 DEF SeenOne
    <2> HIDE DEF more
    <2>4. Len(reader.got) \in Nat /\ reader.size \in Int /\ Len(reader.got) < reader.size
      BY <2>1 DEF SeenOne
    <2>5. reader.size # 0 /\ (Len(more) # reader.size => Len(more) < reader.size)
      BY <2>3, <2>4
    <2>6. QED
      BY <1>1, <2>1, <2>3, <2>4, <2>5 DEF SeenOne, AcceptedIsOneFile
  <1>6. CASE ServeCrc
    <2>1. /\ reader'.got = reader.got /\ reader'.size = reader.size /\ reader.at = "crc"
          /\ reader'.at \in {"crc", "accept", "refuse"}
          /\ reader'.at = "accept" => reader.got = crc
      BY <1>6 DEF ServeCrc, Serve, Matches, FileInv, ReadInv
    <2>2. reader.got # Sector
      BY SectorIsNoFile DEF SeenOne
    <2>3. reader.got # <<>>
      BY <2>1 DEF SeenOne
    <2>4. reader'.at = "accept" => OneFile(reader.got)
      BY <2>1, <2>2, <2>3 DEF SeenOne
    <2>5. QED
      BY <1>1, <2>1, <2>4 DEF SeenOne, AcceptedIsOneFile
  <1>7. QED
    BY <1>2, <1>3, <1>4, <1>5, <1>6

LEMMA NextSeenOne == ASSUME FileInv, BlocksOne, SeenOne, [Next]_vars PROVE SeenOne'
  <1>1. CASE UNCHANGED <<crc, tamanho, ponteiro, core0, reader>>
    BY <1>1, UnreadSeenOne DEF SeenOne
  <1>2. CASE \E c \in Conns : Accept(c) \/ Recv(c) \/ Redeliver(c) \/ Disconnect(c) \/ ResetConn(c)
    <2>1. \A c, n, len, b, total, had : Copy(c, n, len, b, total, had) => UNCHANGED <<fileVars, busVars>>
      BY DEF Copy
    <2>2. ASSUME NEW c \in Conns, Recv(c) PROVE UNCHANGED <<fileVars, busVars>>
      <3>1. PICK n, len : \/ RecvNothing(c, n, len) \/ RecvHeader(c, n, len)
                          \/ RecvNoMemory(c, n, len) \/ RecvData(c, n, len)
        BY <2>2 DEF Recv
      <3>2. CASE RecvHeader(c, n, len)
        BY <2>1, <3>2 DEF RecvHeader
      <3>3. CASE RecvData(c, n, len)
        BY <2>1, <3>3 DEF RecvData
      <3>4. CASE RecvNothing(c, n, len) \/ RecvNoMemory(c, n, len)
        BY <3>4 DEF RecvNothing, RecvNoMemory
      <3>5. QED
        BY <3>1, <3>2, <3>3, <3>4
    <2>3. UNCHANGED <<fileVars, busVars>>
      BY <1>2, <2>2 DEF Accept, Redeliver, Disconnect, ResetConn
    <2>4. QED
      BY <1>1, <2>3 DEF fileVars, busVars
  <1>3. CASE Publish
    <2>1. /\ reader' = [reader EXCEPT !.calm = FALSE] /\ core0' = core0
          /\ ponteiro' = ponteiro \/ ponteiro' = 0
      BY <1>3 DEF Publish, FreeOld, SetNull, SetBuffer, SetTamanho, SetCrc, SetPonteiro, SetPronto,
         Core1At, fileVars
    <2>2. CASE SetTamanho
      <3>1. buffer \in Blocks
        BY <2>2 DEF SetTamanho, Core1At, FileInv, PubInv, Types
      <3>2. tamanho' \in Nat /\ crc' = crc
        BY <2>2, <3>1 DEF SetTamanho, FileInv, Types, FileTypes
      <3>3. QED
        BY <2>1, <3>2, UnreadSeenOne DEF SeenOne
    <2>3. CASE SetCrc
      <3>1. buffer # None /\ Good(buffer)
        BY <2>3 DEF SetCrc, Core1At, FileInv, PubInv
      <3>2. block[buffer] \in FileTypes /\ Len(block[buffer].conteudo) >= block[buffer].size
        BY <3>1 DEF FileInv, Types, Good
      <3>3. OneFile(Whole(block[buffer]))
        BY <3>1, <3>2, WholeIsOneFile DEF BlocksOne, Good
      <3>4. crc' = Whole(block[buffer]) /\ tamanho' = tamanho
        BY <2>3 DEF SetCrc
      <3>5. OneFile(crc')
        BY <3>3, <3>4
      <3>6. QED
        BY <2>1, <3>4, <3>5, UnreadSeenOne DEF SeenOne
    <2>4. CASE FreeOld \/ SetNull \/ SetBuffer \/ SetPonteiro \/ SetPronto
      <3>1. crc' = crc /\ tamanho' = tamanho
        BY <2>4 DEF FreeOld, SetNull, SetBuffer, SetPonteiro, SetPronto, fileVars
      <3>2. QED
        BY <2>1, <3>1, UnreadSeenOne DEF SeenOne
    <2>5. QED
      BY <1>3, <2>2, <2>3, <2>4 DEF Publish
  <1>4. CASE Access \/ TestPronto \/ TestPonteiro \/ TestTamanho \/ ZeroPonteiro \/ ClearPronto
    <2>1. /\ reader' = reader /\ crc' = crc /\ tamanho' = tamanho
          /\ ponteiro' \in Nat /\ core0'.ponteiro \in Nat
      BY <1>4 DEF Access, TestPronto, TestPonteiro, TestTamanho, ZeroPonteiro, ClearPronto, Core0,
         fileVars, SeenOne, FileInv, ReadInv
    <2>2. QED
      BY <2>1, UnreadSeenOne DEF SeenOne
  <1>5. CASE StorePonteiro \/ ServeDone \/ LoadSector \/ Restart
    <2>1. /\ reader' = reader \/ reader' = Asking
          /\ crc' = crc \/ crc' = Sector
          /\ tamanho' = tamanho /\ ponteiro' \in Nat /\ core0'.ponteiro \in Nat
      BY <1>5 DEF StorePonteiro, ServeDone, LoadSector, Restart, Served, Core0, fileVars, SeenOne,
         FileInv, ReadInv
    <2>2. QED
      BY <2>1, UnreadSeenOne DEF SeenOne
  <1>6. QED
    BY <1>1, <1>2, <1>3, <1>4, <1>5, ServeSeenOne DEF Next, Core0Step, vars, fileVars, busVars

\* Whatever clients send, however their segments are cut, lost connections
\* and all: no block of the server's heap has two owners, none that is pointed
\* to is free, and none is forgotten but those of connections that were reset.
THEOREM BlocksAreAccounted == Spec => []BlocksAccounted
  <1>1. FileInv => BlocksAccounted
    <2> SUFFICES ASSUME FileInv PROVE BlocksAccounted
      OBVIOUS
    <2>1. \A b : b \in Held <=> (\E c \in Conns : Fills(c, b)) \/ Ends(b)
      BY DEF Held, Fills, Ends
    <2>2. \A b : b \in Held => b \in Blocks /\ b # buffer
      BY <2>1 DEF FileInv, HeapInv, Fills, Ends
    <2>3. live = Held \cup lost \cup (IF core1.at = "null" THEN {} ELSE {buffer} \ {None})
      BY <2>1, <2>2, FileAssumption DEF FileInv, Types, HeapInv
    <2>4. QED
      BY <2>2, <2>3 DEF BlocksAccounted, FileInv, HeapInv
  <1>2. QED
    BY <1>1, FileInvAlways, PTL

\* What core 0 sees once arquivo_pronto is set is one whole file with its own
\* size, and with its own CRC or that of a sector the 68000 loaded since; when
\* its client's segments arrived as sent it is that client's.
THEOREM PublishedFileIsSent == Spec => []PublishedIsSent
  <1>1. FileInv => PublishedIsSent
    <2> SUFFICES ASSUME FileInv, pronto, core1.at = "poll"
                 PROVE  /\ buffer \in live
                        /\ tamanho = 1 + block[buffer].size /\ crc \in {Whole(block[buffer]), Sector}
                        /\ Len(block[buffer].conteudo) >= block[buffer].size
                        /\ block[buffer].intact => LET f == block[buffer].name IN
                             /\ block[buffer].size = FileSize[f]
                             /\ block[buffer].conteudo = Content(f, HeaderLen, StreamLen(f))
      BY DEF PublishedIsSent
    <2>1. buffer # None
      BY DEF FileInv, PubInv
    <2>2. Good(buffer)
      BY <2>1 DEF FileInv, PubInv
    <2>3. block[buffer].intact \in BOOLEAN
      BY <2>1, Published DEF FileTypes
    <2>4. QED
      BY <2>1, <2>2, <2>3, Published DEF Good
  <1>2. QED
    BY <1>1, FileInvAlways, PTL

\* A program whose read no publication disturbs accepts exactly the files
\* whose size fits the registers and whose CRC no sector has replaced, and gets
\* every byte of those.
THEOREM CalmReadIsWhole == Spec => []CalmRead
  <1>1. FileInv => CalmRead
    BY DEF FileInv, ReadInv
  <1>2. QED
    BY <1>1, FileInvAlways, PTL

\* Core 1 may publish and free while the 68000 reads, and the size and the CRC
\* may be read in halves of two files: a program that compares the CRC still
\* accepts nothing but the bytes of one whole file.
THEOREM AcceptedFileIsOne == Spec => []AcceptedIsOneFile
  <1> DEFINE Inv == FileInv /\ BlocksOne /\ SeenOne
  <1>1. Init => Inv
    BY InitFileInv, InitOne
  <1>2. Inv /\ [Next]_vars => Inv'
    BY NextFileInv, NextBlocksOne, NextSeenOne
  <1>3. Inv => AcceptedIsOneFile
    BY DEF SeenOne
  <1>4. QED
    BY <1>1, <1>2, <1>3, PTL DEF Spec

\* Core 1 never writes outside its memory while every client's header and
\* content arrive as sent and malloc succeeds.
THEOREM BrokenOnlyByPieces == Spec => []BrokenByPieces
  <1>1. FileInv => BrokenByPieces
    BY DEF FileInv
  <1>2. QED
    BY <1>1, FileInvAlways, PTL

\* No client that sent its whole file, and lost nothing of it, is left waiting
\* with a file that is never published.
THEOREM SentFileIsPublished == Spec => []SentIsPublished
  <1>1. FileInv => SentIsPublished
    <2> SUFFICES ASSUME FileInv, NEW c \in Conns, conn[c].st = "open", conn[c].intact,
                        conn[c].estado # "CONCLUIDO"
                 PROVE  conn[c].pos < StreamLen(conn[c].file)
      BY DEF SentIsPublished
    <2>1. /\ conn[c].file \in Files /\ conn[c].pos \in Nat /\ conn[c].intact = TRUE
          /\ conn[c].estado \in {"CABECALHO", "DADOS"}
      BY DEF FileInv, DataInv, Types, ConnTypes
    <2>2. HeaderLen \in Nat \ {0} /\ FileSize[conn[c].file] \in Nat
      BY <2>1, FileAssumption
    <2>3. CASE conn[c].estado = "CABECALHO"
      BY <2>1, <2>2, <2>3 DEF FileInv, DataInv, StreamLen
    <2>4. CASE conn[c].estado = "DADOS"
      <3>1. Partial(c)
        BY <2>4 DEF FileInv, DataInv
      <3>2. Len(Content(conn[c].file, HeaderLen, conn[c].pos)) = conn[c].pos - HeaderLen
        BY <2>1, <2>2, <3>1, ContentProperties DEF Partial
      <3>3. conn[c].pos - HeaderLen < FileSize[conn[c].file]
        BY <2>1, <3>1, <3>2 DEF Partial
      <3>4. QED
        BY <2>1, <2>2, <3>3 DEF StreamLen
    <2>5. QED
      BY <2>1, <2>3, <2>4
  <1>2. QED
    BY <1>1, FileInvAlways, PTL
=============================================================================
