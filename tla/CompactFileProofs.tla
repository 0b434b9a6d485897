-------------------------- MODULE CompactFileProofs --------------------------
(***************************************************************************)
(* Theorems about the compact script files, for every block size: the       *)
(* compressed integers come back as they were, the reader takes the bytes   *)
(* that the writer wrote, and the records lie where the walk over the       *)
(* blocks finds them, in a whole file and in one that a worker left.  TLC,  *)
(* whose integers are signed 32-bit numbers, meets only a few small ones.   *)
(***************************************************************************)
EXTENDS CompactFile, TLAPS

(* Compressed integers *)

(* Dividing by 256 again and again *)
LEMMA Divide ==
  ASSUME NEW v \in Nat
  PROVE  /\ v \div 1 = v
         /\ v \div 65536 = (v \div 256) \div 256
         /\ v \div 16777216 = ((v \div 256) \div 256) \div 256
<1>1. v \div 65536 = (v \div 256) \div 256
  BY SMT
<1>2. v \div 16777216 = (v \div 65536) \div 256
  BY SMT
<1> QED
  BY SMT, <1>1, <1>2

(* The four bytes of any 32-bit value *)
LEMMA Bytes4 ==
  ASSUME NEW v \in UINT32
  PROVE  /\ v \in Nat
         /\ ByteAt(v, 16777216) \in 0..255 /\ ByteAt(v, 65536) \in 0..255
         /\ ByteAt(v, 256) \in 0..255 /\ ByteAt(v, 1) \in 0..255
         /\ v = 16777216 * ByteAt(v, 16777216) + 65536 * ByteAt(v, 65536)
                  + 256 * ByteAt(v, 256) + ByteAt(v, 1)
<1> DEFINE w == v \div 256
           x == w \div 256
           y == x \div 256
<1>1. v \in Nat /\ v \div 65536 < 65536
  BY SMT DEF UINT32
<1>2. w \in Nat /\ v % 256 \in 0..255 /\ v = 256 * w + (v % 256)
  BY SMT, <1>1
<1>3. x \in Nat /\ w % 256 \in 0..255 /\ w = 256 * x + (w % 256)
  BY SMT, <1>2
<1>4. x < 256 * 256
  BY SMT, <1>1, Divide
<1> HIDE DEF w, x
<1>5. y \in 0..255 /\ x % 256 \in 0..255 /\ x = 256 * y + (x % 256)
  BY SMT, <1>3, <1>4
<1>6. /\ ByteAt(v, 16777216) = y /\ ByteAt(v, 65536) = x % 256
      /\ ByteAt(v, 256) = w % 256 /\ ByteAt(v, 1) = v % 256
  <2>1. v \div 16777216 = y /\ v \div 65536 = x /\ v \div 1 = v
    BY SMT, <1>1, Divide DEF w, x
  <2>2. y % 256 = y
    BY SMT, <1>5
  <2> QED
    BY SMT, <2>1, <2>2 DEF ByteAt, w
<1> HIDE DEF y
<1> QED
  BY SMT, <1>1, <1>2, <1>3, <1>5, <1>6

(* The bytes that each of the five forms writes *)
LEMMA Forms ==
  ASSUME NEW v \in Nat
  PROVE  /\ v < 128 => write_compressed(v) = <<ByteAt(v, 1)>>
         /\ 128 <= v /\ v < 16384 =>
              write_compressed(v) = <<ByteAt(v, 256) + 128, ByteAt(v, 1)>>
         /\ 16384 <= v /\ v < 2097152 =>
              write_compressed(v) = <<ByteAt(v, 65536) + 192, ByteAt(v, 256), ByteAt(v, 1)>>
         /\ 2097152 <= v /\ v < 268435456 =>
              write_compressed(v)
                = <<ByteAt(v, 16777216) + 224, ByteAt(v, 65536), ByteAt(v, 256), ByteAt(v, 1)>>
         /\ 268435456 <= v =>
              write_compressed(v)
                = <<240, ByteAt(v, 16777216), ByteAt(v, 65536), ByteAt(v, 256), ByteAt(v, 1)>>
  BY SMT DEF write_compressed, write1bytes, write2bytes, write3bytes, write4bytes, OrHigh

(* write_compressed() writes as many bytes as get_compressed_size() says *)
THEOREM SizeAgrees ==
  ASSUME NEW v \in Nat
  PROVE  Len(write_compressed(v)) = get_compressed_size(v) /\ get_compressed_size(v) \in 1..5
  BY SMT, Forms DEF get_compressed_size

(* read_compressed() gives back the value that write_compressed() wrote,   *)
(* whatever follows it in the buffer.                                      *)
THEOREM RoundTrip ==
  ASSUME NEW v \in UINT32, NEW b
  PROVE  (\A i \in 1..Len(write_compressed(v)) : b[i] = write_compressed(v)[i])
           => read_compressed(b) = v
<1> DEFINE l == ByteAt(v, 1)
           k == ByteAt(v, 256)
           m == ByteAt(v, 65536)
           h == ByteAt(v, 16777216)
<1>h. SUFFICES ASSUME \A i \in 1..Len(write_compressed(v)) : b[i] = write_compressed(v)[i]
               PROVE  read_compressed(b) = v
  BY SMT
<1>0. /\ v \in Nat /\ h \in 0..255 /\ m \in 0..255 /\ k \in 0..255 /\ l \in 0..255
      /\ v = 16777216 * h + 65536 * m + 256 * k + l
  BY SMT, Bytes4
<1>f. /\ v < 128 => write_compressed(v) = <<l>>
      /\ 128 <= v /\ v < 16384 => write_compressed(v) = <<k + 128, l>>
      /\ 16384 <= v /\ v < 2097152 => write_compressed(v) = <<m + 192, k, l>>
      /\ 2097152 <= v /\ v < 268435456 => write_compressed(v) = <<h + 224, m, k, l>>
      /\ 268435456 <= v => write_compressed(v) = <<240, h, m, k, l>>
  BY SMT, <1>0, Forms
<1> HIDE DEF h, m, k, l
<1>1. CASE v < 128
  <2>f. write_compressed(v) = <<l>>
    BY SMT, <1>f, <1>1
  <2>b. b[1] = l
    BY SMT, <1>h, <2>f
  <2>1. b[1] = v
    BY SMT, <1>0, <2>b, <1>1
  <2> QED
    BY SMT, <1>0, <1>1, <2>1 DEF read_compressed
<1>2. CASE 128 <= v /\ v < 16384
  <2>f. write_compressed(v) = <<k + 128, l>>
    BY SMT, <1>f, <1>2
  <2>b. b[1] = k + 128 /\ b[2] = l
    BY SMT, <1>h, <2>f
  <2>1. k < 64 /\ v = 256 * k + l
    BY SMT, <1>0, <1>2
  <2>2. ((k + 128) * 256 + l) % 16384 = v
    <3>1. (32768 + v) % 16384 = v
      BY SMT, <1>0, <1>2
    <3>2. (k + 128) * 256 + l = 32768 + v
      BY SMT, <1>0, <2>1
    <3> QED
      BY SMT, <3>1, <3>2
  <2> QED
    BY SMT, <1>0, <2>b, <1>2, <2>1, <2>2 DEF read_compressed
<1>3. CASE 16384 <= v /\ v < 2097152
  <2>f. write_compressed(v) = <<m + 192, k, l>>
    BY SMT, <1>f, <1>3
  <2>b. b[1] = m + 192 /\ b[2] = k /\ b[3] = l
    BY SMT, <1>h, <2>f
  <2>1. m < 32 /\ v = 65536 * m + 256 * k + l
    BY SMT, <1>0, <1>3
  <2>2. ((m + 192) * 65536 + k * 256 + l) % 2097152 = v
    <3>1. (12582912 + v) % 2097152 = v
      BY SMT, <1>0, <1>3
    <3>2. (m + 192) * 65536 + k * 256 + l = 12582912 + v
      BY SMT, <1>0, <2>1
    <3> QED
      BY SMT, <3>1, <3>2
  <2> QED
    BY SMT, <1>0, <2>b, <1>3, <2>1, <2>2 DEF read_compressed
<1>4. CASE 2097152 <= v /\ v < 268435456
  <2>f. write_compressed(v) = <<h + 224, m, k, l>>
    BY SMT, <1>f, <1>4
  <2>b. b[1] = h + 224 /\ b[2] = m /\ b[3] = k /\ b[4] = l
    BY SMT, <1>h, <2>f
  <2>1. h < 16
    BY SMT, <1>0, <1>4
  <2>2. (h + 224) % 16 = h
    BY SMT, <1>0, <2>1
  <2> QED
    BY SMT, <1>0, <2>b, <1>4, <2>1, <2>2 DEF read_compressed
<1>5. CASE 268435456 <= v
  <2>f. write_compressed(v) = <<240, h, m, k, l>>
    BY SMT, <1>f, <1>5
  <2>b. b[1] = 240 /\ b[2] = h /\ b[3] = m /\ b[4] = k /\ b[5] = l
    BY SMT, <1>h, <2>f
  <2> QED
    BY SMT, <1>0, <2>b DEF read_compressed, read4bytes
<1> QED
  BY SMT, <1>0, <1>1, <1>2, <1>3, <1>4, <1>5

-----------------------------------------------------------------------------
(* Records *)

(* The records whose numbers are those of perf *)
Numbered(r) ==
  /\ r.type \in {"branch", "symbol", "error"}
  /\ r.type = "branch" => r.tid \in UINT32 /\ r.from \in UINT32 /\ r.to \in UINT32
  /\ r.type = "error" => r.tid \in UINT32

(* A number comes back as it was written, and the reader skips its bytes *)
LEMMA NumberRead ==
  ASSUME NEW v \in UINT32
  PROVE  Rvalue(v) = v /\ Rsize(v) = Wsize(v)
<1>1. v \in Nat
  BY SMT, Bytes4
<1>2. Rvalue(v) = v
  BY SMT, RoundTrip DEF Rvalue
<1> QED
  BY SMT, <1>1, <1>2, SizeAgrees DEF Rsize, Wsize

(* pt_read_*_action() move on by exactly the bytes that pt_fwrite_*_action()*)
(* wrote: a record that is read does not shift the ones behind it.          *)
THEOREM ReadsWhatWasWritten ==
  ASSUME NEW r, Numbered(r)
  PROVE  ReadSize(r) = WriteSize(r)
<1>1. CASE r.type = "branch"
  <2>1. /\ Rsize(r.tid) = Wsize(r.tid) /\ Rsize(r.from) = Wsize(r.from)
        /\ Rsize(r.to) = Wsize(r.to)
    BY SMT, <1>1, NumberRead DEF Numbered
  <2> QED
    BY SMT, <1>1, <2>1 DEF ReadSize, WriteSize, BranchSize
<1>2. CASE r.type = "symbol"
  BY SMT, <1>2 DEF ReadSize, WriteSize, SymbolSize
<1>3. CASE r.type = "error"
  <2>1. Rsize(r.tid) = Wsize(r.tid)
    BY SMT, <1>3, NumberRead DEF Numbered
  <2> QED
    BY SMT, <1>3, <2>1 DEF ReadSize, WriteSize, ErrorSize
<1> QED
  BY SMT, <1>1, <1>2, <1>3 DEF Numbered

-----------------------------------------------------------------------------
(* Where the records lie *)

(* What perf writes: records of known names and numbers *)
Writable(r) ==
  /\ r.type \in {"branch", "symbol", "error"}
  /\ r.type = "branch" => r.tid \in Nat /\ r.from \in Nat /\ r.to \in Nat
  /\ r.type = "symbol" => r.name \in DOMAIN NameLen /\ ~TooLong(r.name)
  /\ r.type = "error" => r.tid \in Nat

(* Every record fits into a block *)
LEMMA Fits ==
  \A r :
    (NamesFit /\ Writable(r)) => (
      WriteSize(r) \in Nat /\ 1 <= WriteSize(r) /\ WriteSize(r) <= PT_FILE_BLOCK_SIZE)
(* A number takes one to five bytes *)
<1>NumberSize. ASSUME NEW v \in Nat
               PROVE  Wsize(v) \in 1..5
  <2>. USE <1>NumberSize
  <2>1. Len(write_compressed(v)) = get_compressed_size(v) /\ get_compressed_size(v) \in 1..5
    BY Zenon, SizeAgrees
  <2> QED
    BY Zenon, <2>1 DEF Wsize
<1>. SUFFICES ASSUME NamesFit, NEW r, Writable(r)
             PROVE  WriteSize(r) \in Nat /\ 1 <= WriteSize(r) /\ WriteSize(r) <= PT_FILE_BLOCK_SIZE
  BY Zenon
<1>0. PT_FILE_BLOCK_SIZE \in Nat /\ 25 <= PT_FILE_BLOCK_SIZE
  BY SMT, FileAssumption
<1>1. CASE r.type = "branch"
  <2>1. /\ Wsize(r.tid) \in 1..5 /\ Wsize(r.from) \in 1..5 /\ Wsize(r.to) \in 1..5
    BY SMT, <1>1, <1>NumberSize DEF Writable
  <2>2. WriteSize(r) = 1 + Wsize(r.tid) + 1 + 8 + Wsize(r.from) + Wsize(r.to)
    BY SMT, <1>1 DEF WriteSize, BranchSize
  <2> QED
    BY SMT, <1>0, <2>1, <2>2
<1>2. CASE r.type = "symbol"
  <2>1. NameLen[r.name] \in Nat /\ NameLen[r.name] # PT_FILE_BLOCK_SIZE - 20
    BY SMT, <1>2, FileAssumption DEF Writable, NamesFit
  <2>2. ~(17 - 2 + 4 + NameLen[r.name] >= PT_FILE_BLOCK_SIZE)
    BY SMT, <1>2 DEF Writable, TooLong
  <2>3. WriteSize(r) = 1 + 4 + 8 + 4 + 4 + NameLen[r.name]
    BY SMT, <1>2 DEF WriteSize, SymbolSize
  <2> QED
    BY SMT, <1>0, <2>1, <2>2, <2>3
<1>3. CASE r.type = "error"
  <2>1. Wsize(r.tid) \in 1..5
    BY SMT, <1>3, <1>NumberSize DEF Writable
  <2>2. WriteSize(r) = 1 + Wsize(r.tid) + 8 + 1
    BY SMT, <1>3 DEF WriteSize, ErrorSize
  <2> QED
    BY SMT, <1>0, <2>1, <2>2
<1> QED
  BY SMT, <1>1, <1>2, <1>3 DEF Writable

(* The block arithmetic of pt_fwrite_action(): a record of n bytes at offset *)
(* p that does not end, or have the byte behind it, in the block of p, fits  *)
(* into the next one.                                                        *)
LEMMA NextBlockHolds ==
  ASSUME NEW B \in Nat, 0 < B, NEW p \in Nat, NEW n \in Nat, 1 <= n, n <= B
  PROVE  /\ p \div B \in Nat /\ (p + n) \div B \in Nat
         /\ (p + n) \div B = p \div B => (p + n - 1) \div B = p \div B
         /\ (p + n) \div B # p \div B => (p + n) \div B = p \div B + 1
         /\ \A q \in Nat : (q * B) \div B = q /\ (q * B + n - 1) \div B = q
<1> DEFINE d == p \div B
           e == (p + n) \div B
<1>1. d \in Nat /\ d * B <= p /\ p < d * B + B
  BY SMTT(20)
<1>2. e \in Nat /\ e * B <= p + n /\ p + n < e * B + B
  BY SMTT(20)
<1>3. \A q \in Nat, x \in Nat : q * B <= x /\ x < q * B + B => x \div B = q
  BY SMTT(20)
<1> QED
  BY SMTT(20), <1>1, <1>2, <1>3

(* A file as perf leaves it between two records *)
FileOK(f) ==
  /\ f.base \in Nat /\ (\E S : f.buf \in Seq(S))
  /\ f.placed \in Seq([at : Nat, len : Nat])
  /\ f.placed # <<>> => ftell(f) = f.placed[Len(f.placed)].at + f.placed[Len(f.placed)].len
  /\ ~f.wrapped => PlacedWell(f)

(* pt_fwrite_action() keeps the file as it should be *)
LEMMA FwriteOK ==
  \A f, r :
    (NamesFit /\ FileOK(f) /\ Writable(r)) => (
      FileOK(Fwrite(f, r)))
(* The bytes of a record and those before them *)
<1>BytesAppended. ASSUME NEW k, NEW r, WriteSize(r) \in Nat, NEW S, NEW s \in Seq(S)
                  PROVE  /\ \E T : Bytes(k, r) \in Seq(T) /\ s \o Bytes(k, r) \in Seq(T)
                         /\ Len(Bytes(k, r)) = WriteSize(r)
                         /\ Len(s \o Bytes(k, r)) = Len(s) + WriteSize(r)
  <2>. USE <1>BytesAppended
  <2> DEFINE T == S \cup {<<k, i>> : i \in 1..WriteSize(r)}
  <2>1. Bytes(k, r) \in Seq(T) /\ Len(Bytes(k, r)) = WriteSize(r)
    BY SMT DEF Bytes
  <2>2. s \in Seq(T)
    BY SMT
  <2> HIDE DEF T
  <2>3. s \o Bytes(k, r) \in Seq(T) /\ Len(s \o Bytes(k, r)) = Len(s) + WriteSize(r)
    BY SMT, <2>1, <2>2
  <2> QED
    BY Zenon, <2>1, <2>3
(* A record ends at the position of the stream *)
<1>TellAfter. ASSUME NamesFit, NEW f, FileOK(f), NEW r, Writable(r)
              PROVE  LET g == Fwrite(f, r)
                     IN  /\ ftell(f) \in Nat /\ Start(f, r) \in Nat
                         /\ g.base \in Nat /\ (\E S : g.buf \in Seq(S))
                         /\ ftell(g) = Start(f, r) + WriteSize(r)
  <2>. USE <1>TellAfter
  <2> DEFINE g == Fwrite(f, r)
             bytes == Bytes(Len(f.records) + 1, r)
  <2>0. WriteSize(r) \in Nat /\ PT_FILE_BLOCK_SIZE \in Nat /\ 0 < PT_FILE_BLOCK_SIZE
        /\ OffSpace \in Nat /\ 0 < OffSpace
    <3>1. WriteSize(r) \in Nat
      BY SMT, Fits
    <3>2. PT_FILE_BLOCK_SIZE \in Nat /\ 0 < PT_FILE_BLOCK_SIZE /\ OffSpace \in Nat /\ 0 < OffSpace
      BY SMT, FileAssumption
    <3> QED
      BY Zenon, <3>1, <3>2
  <2>1. PICK S : f.buf \in Seq(S)
    BY Zenon DEF FileOK
  <2>2. f.base \in Nat /\ Len(f.buf) \in Nat /\ ftell(f) \in Nat
    BY SMT, <2>1 DEF FileOK, ftell
  <2>3. PICK T : bytes \in Seq(T) /\ f.buf \o bytes \in Seq(T)
    BY Zenon, <2>0, <2>1, <1>BytesAppended
  <2>4. Len(bytes) = WriteSize(r) /\ Len(f.buf \o bytes) = Len(f.buf) + WriteSize(r)
    BY Zenon, <2>0, <2>1, <1>BytesAppended
  <2>5. NewBlock(f, r) * PT_FILE_BLOCK_SIZE \in Nat
    <3>1. ftell(f) + WriteSize(r) \in Nat
      BY SMT, <2>0, <2>2
    <3>2. NewBlock(f, r) \in Nat
      BY SMT, <2>0, <3>1 DEF NewBlock, BlockOf
    <3> QED
      BY SMT, <2>0, <3>2
  <2>6. /\ g.base = IF Moves(f, r) THEN Start(f, r) ELSE f.base
        /\ g.buf = IF Moves(f, r) THEN bytes ELSE f.buf \o bytes
    BY SMT DEF Fwrite
  <2> HIDE DEF g, bytes
  <2>7. CASE Moves(f, r)
    <3>1. Start(f, r) \in Nat
      BY SMT, <2>7, <2>5 DEF Start
    <3>2. g.base = Start(f, r) /\ g.buf = bytes
      BY SMT, <2>6, <2>7
    <3>3. ftell(g) = Start(f, r) + WriteSize(r)
      BY SMT, <3>2, <2>4 DEF ftell
    <3> QED
      BY Zenon, <2>2, <2>3, <3>1, <3>2, <3>3 DEF g
  <2>8. CASE ~Moves(f, r)
    <3>1. Start(f, r) = ftell(f)
      BY SMT, <2>8 DEF Start
    <3>2. g.base = f.base /\ g.buf = f.buf \o bytes
      BY SMT, <2>6, <2>8
    <3>3. ftell(g) = Start(f, r) + WriteSize(r)
      BY SMT, <2>0, <2>2, <3>1, <3>2, <2>4 DEF ftell
    <3> QED
      BY Zenon, <2>2, <2>3, <3>1, <3>2, <3>3 DEF g
  <2> QED
    BY Zenon, <2>7, <2>8
(* The new record sits in one block, behind the one before it *)
<1>NewSits. ASSUME NamesFit, NEW f, FileOK(f), NEW r, Writable(r), ~Fwrite(f, r).wrapped
            PROVE  LET at == Start(f, r)
                   IN  /\ BlockOf(at) = BlockOf(at + WriteSize(r) - 1)
                       /\ \/ at = ftell(f)
                          \/ /\ at = (BlockOf(ftell(f)) + 1) * PT_FILE_BLOCK_SIZE
                             /\ ftell(f) \in Fwrite(f, r).marks
  <2>. USE <1>NewSits
  <2> DEFINE n == WriteSize(r)
             p == ftell(f)
             B == PT_FILE_BLOCK_SIZE
  <2>0. n \in Nat /\ 1 <= n /\ n <= B
    BY SMT, Fits
  <2>1. B \in Nat /\ 0 < B /\ OffSpace \in Nat
    BY SMT, FileAssumption
  <2>2. p \in Nat
    BY Zenon, <1>TellAfter
  <2>3. p + n < OffSpace
    <3>1. Fwrite(f, r).wrapped = (f.wrapped \/ p + n >= OffSpace)
      BY SMT DEF Fwrite
    <3>2. ~(p + n >= OffSpace)
      BY Zenon, <3>1
    <3> QED
      BY SMT, <3>2, <2>0, <2>1, <2>2
  <2> HIDE DEF n, p, B
  <2>4. (p + n) % OffSpace = p + n /\ p % OffSpace = p
    BY SMT, <2>0, <2>1, <2>2, <2>3
  <2>5. NewBlock(f, r) = (p + n) \div B /\ (Moves(f, r) <=> (p + n) \div B # p \div B)
    BY SMT, <2>4 DEF NewBlock, Moves, BlockOf, n, p, B
  <2>6. /\ p \div B \in Nat /\ (p + n) \div B \in Nat
        /\ (p + n) \div B = p \div B => (p + n - 1) \div B = p \div B
        /\ (p + n) \div B # p \div B => (p + n) \div B = p \div B + 1
        /\ \A q \in Nat : (q * B) \div B = q /\ (q * B + n - 1) \div B = q
    BY SMT, <2>0, <2>1, <2>2, NextBlockHolds
  <2>7. CASE Moves(f, r)
    <3>1. Start(f, r) = ((p + n) \div B) * B
      BY SMT, <2>5, <2>7 DEF Start, B
    <3>2. (p + n) \div B = p \div B + 1
      BY SMT, <2>5, <2>6, <2>7
    <3>3. p \in Fwrite(f, r).marks
      BY SMT, <2>7 DEF Fwrite, p
    <3>4. Start(f, r) \div B = (Start(f, r) + n - 1) \div B
      BY SMT, <2>6, <3>1
    <3> QED
      BY SMT, <3>1, <3>2, <3>3, <3>4 DEF BlockOf, n, p, B
  <2>8. CASE ~Moves(f, r)
    <3>1. Start(f, r) = p
      BY SMT, <2>8 DEF Start, p
    <3>2. (p + n - 1) \div B = p \div B
      BY SMT, <2>5, <2>6, <2>8
    <3> QED
      BY SMT, <3>1, <3>2 DEF BlockOf, n, p, B
  <2> QED
    BY Zenon, <2>7, <2>8
<1>. SUFFICES ASSUME NamesFit, NEW f, FileOK(f), NEW r, Writable(r)
             PROVE  FileOK(Fwrite(f, r))
  BY Zenon
<1> DEFINE g == Fwrite(f, r)
           Placed == [at : Nat, len : Nat]
           new == [at |-> Start(f, r), len |-> WriteSize(r)]
           N == Len(f.placed)
<1>0. f.placed \in Seq(Placed) /\ N \in Nat
  BY SMT DEF FileOK
<1>1. new \in Placed
  <2>1. Start(f, r) \in Nat
    BY Zenon, <1>TellAfter
  <2>2. WriteSize(r) \in Nat
    BY Zenon, Fits
  <2> QED
    BY SMT, <2>1, <2>2
<1>2. g.placed = Append(f.placed, new)
  BY SMT DEF Fwrite
<1>3. g.base \in Nat /\ (\E S : g.buf \in Seq(S)) /\ ftell(g) = Start(f, r) + WriteSize(r)
  BY Zenon, <1>TellAfter
<1> HIDE DEF g, new
<1>4. /\ g.placed \in Seq(Placed) /\ Len(g.placed) = N + 1 /\ g.placed[N + 1] = new
      /\ \A i \in 1..N : g.placed[i] = f.placed[i]
  BY SMT, <1>0, <1>1, <1>2
<1>5. ftell(g) = g.placed[Len(g.placed)].at + g.placed[Len(g.placed)].len
  BY SMT, <1>3, <1>4 DEF new
<1>6. ASSUME ~g.wrapped
      PROVE  PlacedWell(g)
  <2>1. ~f.wrapped
    <3>1. g.wrapped = (f.wrapped \/ ftell(f) + WriteSize(r) >= OffSpace)
      BY SMT DEF Fwrite, g
    <3> QED
      BY Zenon, <1>6, <3>1
  <2>2. PlacedWell(f)
    BY Zenon, <2>1 DEF FileOK
  <2>3. f.marks \subseteq g.marks
    <3>1. g.marks = IF Moves(f, r) THEN f.marks \cup {ftell(f)} ELSE f.marks
      BY SMT DEF Fwrite, g
    <3> QED
      BY SMT, <3>1
  <2>4. ASSUME NEW i \in 1..N
        PROVE  Sits(g, i)
    <3>1. Sits(f, i)
      BY Zenon, <2>2 DEF PlacedWell
    <3>2. g.placed[i] = f.placed[i] /\ (i > 1 => g.placed[i-1] = f.placed[i-1])
      BY SMT, <1>0, <1>4
    <3> QED
      BY SMT, <3>1, <3>2, <2>3 DEF Sits
  <2>5. Sits(g, N + 1)
    <3>1. /\ BlockOf(new.at) = BlockOf(new.at + new.len - 1)
          /\ \/ new.at = ftell(f)
             \/ /\ new.at = (BlockOf(ftell(f)) + 1) * PT_FILE_BLOCK_SIZE
                /\ ftell(f) \in g.marks
      <4>1. new.at = Start(f, r) /\ new.len = WriteSize(r)
        BY SMT DEF new
      <4> QED
        BY Zenon, <1>6, <4>1, <1>NewSits DEF g
    <3>2. N + 1 > 1 => ftell(f) = g.placed[N + 1 - 1].at + g.placed[N + 1 - 1].len
      <4>1. ASSUME N + 1 > 1
            PROVE  ftell(f) = g.placed[N].at + g.placed[N].len
        <5>1. N \in 1..N
          BY SMT, <4>1, <1>0
        <5>2. g.placed[N] = f.placed[N]
          BY Zenon, <5>1, <1>4
        <5>3. f.placed # <<>>
          BY SMT, <5>1
        <5> QED
          BY Zenon, <5>2, <5>3 DEF FileOK
      <4> QED
        BY SMT, <4>1, <1>0
    <3> QED
      BY SMT, <3>1, <3>2, <1>4 DEF Sits
  <2> QED
    BY SMT, <1>0, <1>4, <2>4, <2>5 DEF PlacedWell
<1> QED
  BY Zenon, <1>3, <1>4, <1>5, <1>6 DEF FileOK, g


-----------------------------------------------------------------------------
(* The bytes of a file *)

(* The bytes of a file, the size of a block *)
Byte == Nat \X Nat
B == PT_FILE_BLOCK_SIZE

(* The offset behind record i *)
End(f, i) == IF i = 0 THEN 0 ELSE f.placed[i].at + f.placed[i].len

(* Record i is flushed, or in the buffer. *)
Held(f, i) ==
  LET at == f.placed[i].at
      len == f.placed[i].len
  IN  /\ len = WriteSize(f.records[i]) /\ at \div B = (at + len - 1) \div B
      /\ at + len <= ftell(f)
      /\ \/ at + len <= f.base /\ \A j \in 1..len : f.disk[at + j] = <<i, j>>
         \/ f.base <= at /\ \A j \in 1..len : f.buf[at - f.base + j] = <<i, j>>

(* It is right behind the record before it, or in the next block. *)
Follows(f, i) ==
  \/ f.placed[i].at = End(f, i - 1)
  \/ /\ f.placed[i].at = (End(f, i - 1) \div B + 1) * B
     /\ End(f, i - 1) < f.base /\ f.disk[End(f, i - 1) + 1] = Undefine

(* What is on the disk from the position of the last fseek() on is the     *)
(* first copy of a record that was moved.                                  *)
Leftover(f, x) ==
  /\ f.disk[x][1] \in 1..Len(f.placed) /\ f.disk[x][2] # 0
  /\ f.disk[x][2] = 1 => \A i \in 1..Len(f.placed) : f.placed[i].at = x - 1 => f.disk[x][1] = i

(* A well-formed file *)
DiskTypes(f) ==
  /\ f.disk \in Seq(Byte) /\ f.buf \in Seq(Byte) /\ f.base \in Nat
  /\ (\E S : f.records \in Seq(S)) /\ Len(f.records) = Len(f.placed)
  /\ f.placed \in Seq([at : Nat, len : Nat \ {0}])
DiskOK(f) ==
  /\ DiskTypes(f)
  /\ f.base <= Len(f.disk) /\ Len(f.disk) <= ftell(f) /\ ftell(f) = End(f, Len(f.placed))
  /\ \A i \in 1..Len(f.placed) : Held(f, i) /\ Follows(f, i)
  /\ \A x \in (f.base + 1)..Len(f.disk) : Leftover(f, x)

(* What a part of a sequence is made of *)
LEMMA SubSeqAt ==
  ASSUME NEW S, NEW s \in Seq(S), NEW m \in Nat \ {0}, NEW n \in Nat, n <= Len(s), m <= n + 1
  PROVE  /\ SubSeq(s, m, n) \in Seq(S) /\ Len(SubSeq(s, m, n)) = n + 1 - m
         /\ \A i \in 1..(n + 1 - m) : SubSeq(s, m, n)[i] = s[m + i - 1]
<1>1. SubSeq(s, m, n) \in Seq(S)
  OBVIOUS
<1>2. Len(SubSeq(s, m, n)) = n + 1 - m
  OBVIOUS
<1>3. ASSUME NEW i \in 1..(n + 1 - m) PROVE SubSeq(s, m, n)[i] = s[m + i - 1]
  OBVIOUS
<1>. QED
  BY <1>1, <1>2, <1>3, Zenon

(* What two sequences make *)
LEMMA ConcatAt ==
  ASSUME NEW S, NEW s \in Seq(S), NEW t \in Seq(S)
  PROVE  /\ s \o t \in Seq(S) /\ Len(s \o t) = Len(s) + Len(t)
         /\ \A i \in 1..(Len(s) + Len(t)) : (s \o t)[i] = IF i <= Len(s) THEN s[i] ELSE t[i - Len(s)]
OBVIOUS

(* A file after bytes are written into it: those, and around them the old ones *)
LEMMA OverlayAt ==
  \A S : \A s \in Seq(S) : \A b \in Seq(S) : \A at \in Nat :
    (at <= Len(s)) => (
      /\ Overlay(s, at, b) \in Seq(S)
      /\ Len(Overlay(s, at, b)) = IF Len(s) <= at + Len(b) THEN at + Len(b) ELSE Len(s)
      /\ \A i \in 1..Len(Overlay(s, at, b)) : Overlay(s, at, b)[i] =
           IF i <= at THEN s[i] ELSE IF i <= at + Len(b) THEN b[i - at] ELSE s[i])
(* A part that ends before it begins is empty *)
<1>EmptySub. ASSUME NEW S, NEW s \in Seq(S), NEW m \in Nat, m > Len(s)
             PROVE  SubSeq(s, m, Len(s)) = <<>>
  BY <1>EmptySub
<1>. SUFFICES ASSUME NEW S, NEW s \in Seq(S), NEW b \in Seq(S), NEW at \in Nat, at <= Len(s)
             PROVE  /\ Overlay(s, at, b) \in Seq(S)
                    /\ Len(Overlay(s, at, b)) = IF Len(s) <= at + Len(b) THEN at + Len(b) ELSE Len(s)
                    /\ \A i \in 1..Len(Overlay(s, at, b)) : Overlay(s, at, b)[i] =
                         IF i <= at THEN s[i] ELSE IF i <= at + Len(b) THEN b[i - at] ELSE s[i]
  BY Zenon
<1>0. Len(s) \in Nat /\ Len(b) \in Nat
  OBVIOUS
<1>1. PICK p \in Seq(S) : p = SubSeq(s, 1, at) /\ Len(p) = at /\ \A i \in 1..at : p[i] = s[i]
  <2>1. SubSeq(s, 1, at) \in Seq(S) /\ Len(SubSeq(s, 1, at)) = at /\ \A i \in 1..at : SubSeq(s, 1, at)[i] = s[i]
    BY <1>0, SubSeqAt
  <2>. QED
    BY <2>1, Zenon
<1>2. PICK n \in Nat : n = at + Len(b)
  BY <1>0
<1>q. \E q \in Seq(S) : /\ q = SubSeq(s, n + 1, Len(s))
                        /\ (Len(s) <= n => Len(q) = 0) /\ (n < Len(s) => Len(q) = Len(s) - n)
                        /\ \A i \in 1..Len(q) : q[i] = s[n + i]
  <2>1. CASE Len(s) <= n
    <3>1. SubSeq(s, n + 1, Len(s)) = <<>>
      BY <1>0, <2>1, <1>EmptySub
    <3>2. <<>> \in Seq(S) /\ Len(<<>>) = 0 /\ ~(n < Len(s))
      BY <1>0, <2>1
    <3>3. \A i \in 1..Len(<<>>) : <<>>[i] = s[n + i]
      BY <3>2
    <3>. QED
      BY <3>1, <3>2, <3>3, Zenon
  <2>2. CASE n < Len(s)
    <3>1. n + 1 \in Nat \ {0} /\ n + 1 <= Len(s) + 1 /\ ~(Len(s) <= n)
      BY <1>0, <2>2
    <3>2. /\ SubSeq(s, n + 1, Len(s)) \in Seq(S) /\ Len(SubSeq(s, n + 1, Len(s))) = Len(s) + 1 - (n + 1)
          /\ \A i \in 1..(Len(s) + 1 - (n + 1)) : SubSeq(s, n + 1, Len(s))[i] = s[n + 1 + i - 1]
      BY <1>0, <3>1, SubSeqAt
    <3>3. PICK q \in Seq(S) : q = SubSeq(s, n + 1, Len(s))
      BY <3>2, Zenon
    <3>4. Len(q) = Len(s) - n
      BY <1>0, <3>2, <3>3
    <3>5. \A i \in 1..Len(q) : q[i] = s[n + i]
      <4>. TAKE i \in 1..Len(q)
      <4>1. n + 1 + i - 1 = n + i /\ i \in 1..(Len(s) + 1 - (n + 1))
        BY <1>0, <3>4
      <4>. QED
        BY <3>2, <3>3, <4>1, Zenon
    <3>. QED
      BY <3>1, <3>3, <3>4, <3>5, Zenon
  <2>3. Len(s) <= n \/ n < Len(s)
    BY <1>0
  <2>. QED
    BY <2>1, <2>2, <2>3, Zenon
<1>r. PICK q \in Seq(S) : /\ q = SubSeq(s, n + 1, Len(s))
                          /\ (Len(s) <= n => Len(q) = 0) /\ (n < Len(s) => Len(q) = Len(s) - n)
                          /\ \A i \in 1..Len(q) : q[i] = s[n + i]
  BY <1>q, Zenon
<1>3. Overlay(s, at, b) = (p \o b) \o q
  BY <1>1, <1>2, <1>r, Zenon DEF Overlay
<1>4. PICK r \in Seq(S) : r = p \o b
  BY ConcatAt, Zenon
<1>5. Len(r) = n /\ \A i \in 1..n : r[i] = IF i <= at THEN p[i] ELSE b[i - at]
  BY <1>1, <1>2, <1>4, ConcatAt
<1>6. /\ r \o q \in Seq(S) /\ Len(r \o q) = Len(r) + Len(q)
      /\ \A i \in 1..(Len(r) + Len(q)) : (r \o q)[i] = IF i <= Len(r) THEN r[i] ELSE q[i - Len(r)]
  BY ConcatAt, Zenon
<1>7. PICK o : o = r \o q
  BY Zenon
<1>8. /\ o \in Seq(S) /\ Len(o) = n + Len(q)
      /\ \A i \in 1..(n + Len(q)) : o[i] = IF i <= n THEN r[i] ELSE q[i - n]
  BY <1>5, <1>6, <1>7, Zenon
<1>9. Len(o) = IF Len(s) <= n THEN n ELSE Len(s)
  <2>1. CASE Len(s) <= n
    BY <1>r, <1>8, <2>1
  <2>2. CASE n < Len(s)
    BY <1>0, <1>r, <1>8, <2>2
  <2>. QED
    BY <1>0, <2>1, <2>2
<1>10. ASSUME NEW i \in 1..Len(o)
       PROVE  o[i] = IF i <= at THEN s[i] ELSE IF i <= n THEN b[i - at] ELSE s[i]
  <2>1. i \in Nat /\ 1 <= i /\ i <= n + Len(q) /\ Len(q) \in Nat /\ at <= n
    BY <1>0, <1>2, <1>8
  <2>2. CASE i <= at
    BY <1>1, <1>5, <1>8, <2>1, <2>2
  <2>3. CASE at < i /\ i <= n
    BY <1>5, <1>8, <2>1, <2>3
  <2>4. CASE n < i
    <3>1. i - n \in 1..Len(q) /\ n + (i - n) = i /\ ~(i <= n) /\ ~(i <= at)
      BY <2>1, <2>4
    <3>2. o[i] = q[i - n]
      BY <1>8, <2>1, <3>1, Zenon
    <3>. QED
      BY <1>r, <3>1, <3>2, Zenon
  <2>. QED
    BY <2>1, <2>2, <2>3, <2>4
<1>11. Overlay(s, at, b) = o
  BY <1>3, <1>4, <1>7, Zenon
<1>. QED
  BY <1>2, <1>8, <1>9, <1>10, <1>11, Zenon

-----------------------------------------------------------------------------
(* pt_fwrite_action() on a well-formed file *)
LEMMA BlockPositive == B \in Nat /\ 0 < B
BY FileAssumption DEF B

(* The record joins the records *)
Joined(f, g, r, at) ==
  LET N == Len(f.placed)
  IN  /\ (\E S : g.records \in Seq(S)) /\ Len(g.records) = N + 1 /\ Len(g.placed) = N + 1
      /\ g.placed \in Seq([at : Nat, len : Nat \ {0}])
      /\ \A i \in 1..N : g.records[i] = f.records[i] /\ g.placed[i] = f.placed[i]
      /\ g.records[N + 1] = r /\ g.placed[N + 1] = [at |-> at, len |-> WriteSize(r)]

(* Its bytes go behind those in the buffer *)
Stayed(f, g, r) ==
  /\ g.disk = f.disk /\ g.base = f.base
  /\ g.buf \in Seq(Byte) /\ Len(g.buf) = Len(f.buf) + WriteSize(r)
  /\ \A i \in 1..Len(f.buf) : g.buf[i] = f.buf[i]
  /\ \A j \in 1..WriteSize(r) : g.buf[Len(f.buf) + j] = <<Len(f.placed) + 1, j>>

(* All bytes, an UNDEFINE byte and the record are flushed; it is buffered   *)
(* again at the start of the next block.                                    *)
Moved(f, g, r, at) ==
  /\ g.base = at /\ g.buf \in Seq(Byte) /\ Len(g.buf) = WriteSize(r)
  /\ \A j \in 1..WriteSize(r) : g.buf[j] = <<Len(f.placed) + 1, j>>
  /\ g.disk \in Seq(Byte) /\ Len(g.disk) = ftell(f) + 1 + WriteSize(r)
  /\ \A i \in 1..f.base : g.disk[i] = f.disk[i]
  /\ \A i \in 1..Len(f.buf) : g.disk[f.base + i] = f.buf[i]
  /\ g.disk[ftell(f) + 1] = Undefine
  /\ \A j \in 1..WriteSize(r) : g.disk[ftell(f) + 1 + j] = <<Len(f.placed) + 1, j>>

(* Records have an offset and at least one byte *)
LEMMA PlacedAt ==
  ASSUME NEW f, DiskTypes(f), NEW i \in 1..Len(f.placed)
  PROVE  f.placed[i].at \in Nat /\ f.placed[i].len \in Nat \ {0}
<1>1. PICK P : P = [at : Nat, len : Nat \ {0}]
  BY Zenon
<1>2. PICK ps \in Seq(P) : ps = f.placed
  BY <1>1, Zenon DEF DiskTypes
<1>3. ps[i] \in P
  BY <1>2
<1>4. PICK q : q = ps[i]
  BY Zenon
<1>5. q.at \in Nat /\ q.len \in Nat \ {0}
  BY <1>1, <1>3, <1>4, Zenon
<1>. QED
  BY <1>2, <1>4, <1>5, Zenon

(* An offset in the buffer *)
LEMMA Within ==
  ASSUME NEW base \in Nat, NEW L \in Nat, NEW a \in Nat, NEW len \in Nat, base <= a, a + len <= base + L,
         NEW j \in 1..len
  PROVE  a - base + j \in 1..L /\ base + (a - base + j) = a + j
OBVIOUS

(* The record r fits into the block of the offset at; that is the start of  *)
(* the next block, which the first copy of the record reaches               *)
FitsAt(r, at) == WriteSize(r) \in Nat \ {0} /\ at \div B = (at + WriteSize(r) - 1) \div B
NextAt(f, r, at) ==
  at = (ftell(f) \div B + 1) * B /\ ftell(f) < at /\ at <= ftell(f) + WriteSize(r)

(* pt_fwrite_action() keeps a well-formed file so, as long as offsets fit *)
LEMMA FwriteKeeps ==
  \A f, r :
    (NamesFit /\ DiskOK(f) /\ Writable(r) /\ ~Fwrite(f, r).wrapped) => (
      DiskOK(Fwrite(f, r)) /\ \E at : Joined(f, Fwrite(f, r), r, at))
(* The bytes of a record *)
<1>BytesAt. ASSUME NEW k \in Nat, NEW r, WriteSize(r) \in Nat
            PROVE  /\ Bytes(k, r) \in Seq(Byte) /\ Len(Bytes(k, r)) = WriteSize(r)
                   /\ \A i \in 1..WriteSize(r) : Bytes(k, r)[i] = <<k, i>>
  BY <1>BytesAt DEF Bytes, Byte
(* Where pt_fwrite_action() puts a record: in one block, where the stream is or at *)
(* the start of the next block, and then behind no more than the first copy of it *)
<1>FwriteNumbers. ASSUME NamesFit, NEW f, DiskOK(f), NEW r, Writable(r), ~Fwrite(f, r).wrapped
                  PROVE  /\ ftell(f) \in Nat /\ WriteSize(r) \in Nat /\ 1 <= WriteSize(r) /\ WriteSize(r) <= B
                         /\ Start(f, r) \div B = (Start(f, r) + WriteSize(r) - 1) \div B
                         /\ Moves(f, r) => /\ Start(f, r) = (ftell(f) \div B + 1) * B
                                           /\ ftell(f) < Start(f, r) /\ Start(f, r) <= ftell(f) + WriteSize(r)
                         /\ ~Moves(f, r) => Start(f, r) = ftell(f)
                         /\ Start(f, r) \in Nat
  <2>. USE <1>FwriteNumbers
  <2>0. f.base \in Nat /\ f.buf \in Seq(Byte)
    BY Zenon DEF DiskOK, DiskTypes
  <2>1. PICK n : n = WriteSize(r)
    BY Zenon
  <2>2. PICK p : p = ftell(f)
    BY Zenon
  <2>3. n \in Nat /\ 1 <= n /\ n <= B
    BY <2>1, Fits, Zenon DEF B
  <2>4. p \in Nat
    BY <2>0, <2>2 DEF ftell
  <2>5. B \in Nat /\ 0 < B /\ OffSpace \in Nat
    BY BlockPositive, FileAssumption, Zenon
  <2>6. p + n < OffSpace
    <3>1. Fwrite(f, r).wrapped = (f.wrapped \/ p + n >= OffSpace)
      BY <2>1, <2>2, Zenon DEF Fwrite
    <3>2. ~(p + n >= OffSpace)
      BY <3>1, Zenon
    <3>. QED
      BY <3>2, <2>3, <2>4, <2>5
  <2>7. (p + n) % OffSpace = p + n /\ p % OffSpace = p
    BY <2>3, <2>4, <2>5, <2>6
  <2>8. NewBlock(f, r) = (p + n) \div B /\ (Moves(f, r) <=> (p + n) \div B # p \div B)
    BY <2>1, <2>2, <2>7, Zenon DEF NewBlock, Moves, BlockOf, B
  <2>9. /\ p \div B \in Nat /\ (p + n) \div B \in Nat
        /\ (p + n) \div B = p \div B => (p + n - 1) \div B = p \div B
        /\ (p + n) \div B # p \div B => (p + n) \div B = p \div B + 1
        /\ \A q \in Nat : (q * B) \div B = q /\ (q * B + n - 1) \div B = q
    BY <2>3, <2>4, <2>5, NextBlockHolds
  <2>10. CASE Moves(f, r)
    <3>1. Start(f, r) = ((p + n) \div B) * B
      BY <2>8, <2>10, Zenon DEF Start, B
    <3>2. (p + n) \div B = p \div B + 1
      BY <2>8, <2>9, <2>10, Zenon
    <3>3. Start(f, r) \div B = (Start(f, r) + n - 1) \div B
      BY <2>9, <3>1, Zenon
    <3>4. p < (p \div B + 1) * B
      BY <2>4, <2>5
    <3>5. ((p + n) \div B) * B <= p + n
      BY <2>3, <2>4, <2>5
    <3>6. Start(f, r) \in Nat
      BY <2>5, <2>9, <3>1
    <3>. QED
      BY <2>1, <2>2, <2>3, <2>4, <2>10, <3>1, <3>2, <3>3, <3>4, <3>5, <3>6, Zenon
  <2>11. CASE ~Moves(f, r)
    <3>1. Start(f, r) = p
      BY <2>2, <2>11, Zenon DEF Start
    <3>2. (p + n - 1) \div B = p \div B
      BY <2>8, <2>9, <2>11, Zenon
    <3>. QED
      BY <2>1, <2>2, <2>3, <2>4, <2>11, <3>1, <3>2, Zenon
  <2>. QED
    BY <2>10, <2>11, Zenon
(* pt_fwrite_action() adds the record to those that were written *)
<1>FwriteJoins. ASSUME NEW f, DiskTypes(f), NEW r, WriteSize(r) \in Nat \ {0}, Start(f, r) \in Nat
                PROVE  Joined(f, Fwrite(f, r), r, Start(f, r))
  <2>. USE <1>FwriteJoins
  <2>1. PICK S : f.records \in Seq(S)
    BY Zenon DEF DiskTypes
  <2>2. PICK rs : rs = f.records
    BY Zenon
  <2>3. PICK T : T = S \cup {r}
    BY Zenon
  <2>4. rs \in Seq(T) /\ r \in T
    BY <2>1, <2>2, <2>3
  <2>5. PICK ps : ps = f.placed
    BY Zenon
  <2>6. PICK P : P = [at : Nat, len : Nat \ {0}]
    BY Zenon
  <2>7. PICK new \in P : new = [at |-> Start(f, r), len |-> WriteSize(r)]
    BY <2>6, Zenon
  <2>8. ps \in Seq(P) /\ Len(rs) = Len(ps)
    BY <2>2, <2>5, <2>6, Zenon DEF DiskTypes
  <2>9. PICK g : g = Fwrite(f, r)
    BY Zenon
  <2>10. g.records = Append(rs, r) /\ g.placed = Append(ps, new)
    BY <2>2, <2>5, <2>7, <2>9, Zenon DEF Fwrite
  <2>11. /\ Append(rs, r) \in Seq(T) /\ Len(Append(rs, r)) = Len(rs) + 1 /\ Append(rs, r)[Len(rs) + 1] = r
         /\ \A i \in 1..Len(rs) : Append(rs, r)[i] = rs[i]
    BY <2>4
  <2>12. /\ Append(ps, new) \in Seq(P) /\ Len(Append(ps, new)) = Len(ps) + 1 /\ Append(ps, new)[Len(ps) + 1] = new
         /\ \A i \in 1..Len(ps) : Append(ps, new)[i] = ps[i]
    BY <2>8
  <2>13. Joined(f, g, r, Start(f, r))
    BY <2>2, <2>5, <2>6, <2>7, <2>8, <2>10, <2>11, <2>12 DEF Joined
  <2>. QED
    BY <2>9, <2>13, Zenon
(* It appends the bytes of a record that stays in the block *)
<1>FwriteStays. ASSUME NEW f, DiskTypes(f), NEW r, WriteSize(r) \in Nat, ~Moves(f, r)
                PROVE  Stayed(f, Fwrite(f, r), r)
  <2>. USE <1>FwriteStays
  <2>1. PICK g : g = Fwrite(f, r)
    BY Zenon
  <2>2. PICK bytes : bytes = Bytes(Len(f.records) + 1, r)
    BY Zenon
  <2>3. Len(f.records) = Len(f.placed) /\ Len(f.placed) \in Nat /\ f.buf \in Seq(Byte)
    BY DEF DiskTypes
  <2>4. /\ bytes \in Seq(Byte) /\ Len(bytes) = WriteSize(r)
        /\ \A j \in 1..WriteSize(r) : bytes[j] = <<Len(f.placed) + 1, j>>
    BY <2>2, <2>3, <1>BytesAt
  <2>5. g.disk = f.disk /\ g.base = f.base /\ g.buf = f.buf \o bytes
    BY <2>1, <2>2, Zenon DEF Fwrite
  <2>6. PICK buf \in Seq(Byte) : buf = f.buf
    BY <2>3, Zenon
  <2>7. /\ buf \o bytes \in Seq(Byte) /\ Len(buf \o bytes) = Len(buf) + Len(bytes)
        /\ \A i \in 1..(Len(buf) + Len(bytes)) :
             (buf \o bytes)[i] = IF i <= Len(buf) THEN buf[i] ELSE bytes[i - Len(buf)]
    <3>1. bytes \in Seq(Byte)
      BY <2>4, Zenon
    <3>. QED
      BY <3>1, ConcatAt, Zenon
  <2>8. PICK c : c = buf \o bytes
    BY Zenon
  <2>9. /\ c \in Seq(Byte) /\ Len(c) = Len(buf) + WriteSize(r) /\ Len(buf) \in Nat
        /\ \A i \in 1..(Len(buf) + WriteSize(r)) : c[i] = IF i <= Len(buf) THEN buf[i] ELSE bytes[i - Len(buf)]
    BY <2>3, <2>4, <2>6, <2>7, <2>8
  <2>10. \A i \in 1..Len(buf) : c[i] = buf[i]
    BY <2>9
  <2>11. ASSUME NEW j \in 1..WriteSize(r) PROVE c[Len(buf) + j] = <<Len(f.placed) + 1, j>>
    <3>1. Len(buf) + j \in 1..(Len(buf) + WriteSize(r)) /\ ~(Len(buf) + j <= Len(buf)) /\ Len(buf) + j - Len(buf) = j
      BY <2>9
    <3>2. c[Len(buf) + j] = bytes[j]
      BY <2>9, <3>1
    <3>. QED
      BY <2>4, <3>2, Zenon
  <2>12. Stayed(f, g, r)
    BY <2>5, <2>6, <2>8, <2>9, <2>10, <2>11, Zenon DEF Stayed
  <2>. QED
    BY <2>1, <2>12, Zenon
(* It writes a record that leaves the block twice *)
<1>FwriteMoves. ASSUME NEW f, DiskTypes(f), f.base <= Len(f.disk), Len(f.disk) <= ftell(f),
                       NEW r, WriteSize(r) \in Nat, Moves(f, r)
                PROVE  Moved(f, Fwrite(f, r), r, Start(f, r))
  <2>. USE <1>FwriteMoves
  <2>1. PICK g : g = Fwrite(f, r)
    BY Zenon
  <2>2. PICK bytes : bytes = Bytes(Len(f.records) + 1, r)
    BY Zenon
  <2>3. /\ Len(f.records) = Len(f.placed) /\ Len(f.placed) \in Nat /\ f.buf \in Seq(Byte)
        /\ f.disk \in Seq(Byte) /\ f.base \in Nat
    BY DEF DiskTypes
  <2>4. /\ bytes \in Seq(Byte) /\ Len(bytes) = WriteSize(r)
        /\ \A j \in 1..WriteSize(r) : bytes[j] = <<Len(f.placed) + 1, j>>
    BY <2>2, <2>3, <1>BytesAt
  <2>5. PICK buf \in Seq(Byte) : buf = f.buf
    BY <2>3, Zenon
  <2>6. PICK u \in Seq(Byte) : u = <<Undefine>> /\ Len(u) = 1 /\ u[1] = Undefine
    <3>1. PICK e \in Byte : e = Undefine
      BY Zenon DEF Undefine, Byte
    <3>2. <<e>> \in Seq(Byte) /\ Len(<<e>>) = 1 /\ <<e>>[1] = e
      OBVIOUS
    <3>. QED
      BY <3>1, <3>2, Zenon
  <2>7. g.base = Start(f, r) /\ g.buf = bytes /\ g.disk = Overlay(f.disk, f.base, (buf \o u) \o bytes)
    BY <2>1, <2>2, <2>5, <2>6, Zenon DEF Fwrite
  <2>8. PICK n \in Nat : n = WriteSize(r)
    BY Zenon
  <2>9. PICK L \in Nat : L = Len(buf)
    OBVIOUS
  <2>10. PICK c \in Seq(Byte) : c = buf \o u
    BY ConcatAt, Zenon
  <2>11. Len(c) = L + 1 /\ \A i \in 1..(L + 1) : c[i] = IF i <= L THEN buf[i] ELSE u[i - L]
    BY <2>6, <2>9, <2>10, ConcatAt
  <2>12. PICK d \in Seq(Byte) : d = c \o bytes
    BY <2>4, ConcatAt, Zenon
  <2>13. Len(d) = L + 1 + n /\ \A i \in 1..(L + 1 + n) : d[i] = IF i <= L + 1 THEN c[i] ELSE bytes[i - (L + 1)]
    <3>1. bytes \in Seq(Byte) /\ Len(bytes) = n
      BY <2>4, <2>8, Zenon
    <3>2. /\ Len(c \o bytes) = Len(c) + Len(bytes)
          /\ \A i \in 1..(Len(c) + Len(bytes)) : (c \o bytes)[i] = IF i <= Len(c) THEN c[i] ELSE bytes[i - Len(c)]
      BY <3>1, ConcatAt, Zenon
    <3>. QED
      BY <2>11, <2>12, <3>1, <3>2, Zenon
  <2>14. /\ \A i \in 1..L : d[i] = buf[i]
         /\ d[L + 1] = Undefine
    <3>1. ASSUME NEW i \in 1..L PROVE d[i] = buf[i]
      BY <2>11, <2>13
    <3>2. d[L + 1] = c[L + 1]
      BY <2>13
    <3>3. c[L + 1] = u[1]
      BY <2>11
    <3>. QED
      BY <2>6, <3>1, <3>2, <3>3, Zenon
  <2>15. ASSUME NEW j \in 1..n PROVE d[L + 1 + j] = <<Len(f.placed) + 1, j>>
    <3>1. L + 1 + j \in 1..(L + 1 + n) /\ ~(L + 1 + j <= L + 1) /\ L + 1 + j - (L + 1) = j
      OBVIOUS
    <3>2. d[L + 1 + j] = bytes[j]
      BY <2>13, <3>1
    <3>. QED
      BY <2>4, <2>8, <3>2, Zenon
  <2>16. PICK base \in Nat : base = f.base
    BY <2>3, Zenon
  <2>17. PICK disk \in Seq(Byte) : disk = f.disk
    BY <2>3, Zenon
  <2>18. ftell(f) = base + L /\ base <= Len(disk) /\ Len(disk) <= base + L
    BY <2>5, <2>9, <2>16, <2>17, Zenon DEF ftell
  <2>19. PICK o : o = Overlay(disk, base, d)
    BY Zenon
  <2>20. /\ o \in Seq(Byte) /\ Len(o) = base + (L + 1 + n)
         /\ \A i \in 1..Len(o) : o[i] = IF i <= base THEN disk[i] ELSE IF i <= base + (L + 1 + n) THEN d[i - base] ELSE disk[i]
    <3>1. /\ Overlay(disk, base, d) \in Seq(Byte)
          /\ Len(Overlay(disk, base, d)) = IF Len(disk) <= base + Len(d) THEN base + Len(d) ELSE Len(disk)
          /\ \A i \in 1..Len(Overlay(disk, base, d)) : Overlay(disk, base, d)[i] =
                IF i <= base THEN disk[i] ELSE IF i <= base + Len(d) THEN d[i - base] ELSE disk[i]
      BY <2>18, OverlayAt
    <3>2. Len(disk) <= base + Len(d) /\ Len(d) = L + 1 + n
      BY <2>13, <2>18
    <3>. QED
      BY <2>19, <3>1, <3>2, Zenon
  <2>21. \A i \in 1..base : o[i] = disk[i]
    BY <2>20
  <2>22. ASSUME NEW i \in 1..(L + 1 + n) PROVE o[base + i] = d[i]
    <3>1. PICK m \in 1..Len(o) : m = base + i /\ ~(m <= base) /\ m <= base + (L + 1 + n) /\ m - base = i
      BY <2>20
    <3>2. o[m] = IF m <= base THEN disk[m] ELSE IF m <= base + (L + 1 + n) THEN d[m - base] ELSE disk[m]
      BY <2>20, Zenon
    <3>. QED
      BY <3>1, <3>2, Zenon
  <2>23. \A i \in 1..L : o[base + i] = buf[i]
    BY <2>14, <2>22
  <2>24. o[base + L + 1] = Undefine
    <3>1. L + 1 \in 1..(L + 1 + n) /\ base + (L + 1) = base + L + 1
      OBVIOUS
    <3>2. o[base + (L + 1)] = d[L + 1]
      BY <2>22, <3>1, Zenon
    <3>. QED
      BY <2>14, <3>1, <3>2, Zenon
  <2>25. ASSUME NEW j \in 1..n PROVE o[base + L + 1 + j] = <<Len(f.placed) + 1, j>>
    <3>1. L + 1 + j \in 1..(L + 1 + n) /\ base + (L + 1 + j) = base + L + 1 + j
      OBVIOUS
    <3>. QED
      BY <2>15, <2>22, <3>1, Zenon
  <2>26. g.disk = o
    BY <2>7, <2>10, <2>12, <2>16, <2>17, <2>19, Zenon
  <2>27. Len(o) = ftell(f) + 1 + WriteSize(r)
    BY <2>8, <2>18, <2>20
  <2>28. Moved(f, g, r, Start(f, r))
    BY <2>4, <2>5, <2>7, <2>8, <2>9, <2>16, <2>17, <2>18, <2>20, <2>21, <2>23, <2>24, <2>25, <2>26, <2>27, Zenon DEF Moved
  <2>. QED
    BY <2>1, <2>28, Zenon
(* The records before the new one *)
<1>OldRecords. ASSUME NEW f, DiskOK(f), NEW g, NEW r, NEW at, Joined(f, g, r, at), NEW i \in 1..Len(f.placed)
               PROVE  /\ g.placed[i] = f.placed[i] /\ g.records[i] = f.records[i]
                      /\ f.placed[i].at \in Nat /\ f.placed[i].len \in Nat \ {0}
                      /\ End(g, i) = End(f, i) /\ End(g, i - 1) = End(f, i - 1) /\ End(f, i - 1) \in Nat
  <2>. USE <1>OldRecords
  <2>1. g.placed[i] = f.placed[i] /\ g.records[i] = f.records[i]
    BY Zenon DEF Joined
  <2>2. f.placed[i].at \in Nat /\ f.placed[i].len \in Nat \ {0}
    BY PlacedAt, Zenon DEF DiskOK
  <2>3. Len(f.placed) \in Nat
    BY DEF DiskOK, DiskTypes
  <2>4. End(g, i) = End(f, i)
    BY <2>1, Zenon DEF End
  <2>5. CASE i = 1
    BY <2>1, <2>2, <2>4, <2>5 DEF End
  <2>6. CASE i # 1
    <3>1. i - 1 \in 1..Len(f.placed) /\ i - 1 # 0
      BY <2>3, <2>6
    <3>2. g.placed[i - 1] = f.placed[i - 1]
      BY <3>1, Zenon DEF Joined
    <3>3. f.placed[i - 1].at \in Nat /\ f.placed[i - 1].len \in Nat
      BY <3>1, PlacedAt, Zenon DEF DiskOK
    <3>4. End(f, i - 1) = f.placed[i - 1].at + f.placed[i - 1].len /\ End(g, i - 1) = End(f, i - 1)
      BY <3>1, <3>2, Zenon DEF End
    <3>. QED
      BY <2>1, <2>2, <2>4, <3>3, <3>4
  <2>. QED
    BY <2>5, <2>6, Zenon
(* The end of the new record *)
<1>NewRecord. ASSUME NEW f, DiskOK(f), NEW g, NEW r, NEW at \in Nat, WriteSize(r) \in Nat, Joined(f, g, r, at)
              PROVE  /\ Len(f.placed) \in Nat /\ Len(g.placed) = Len(f.placed) + 1
                     /\ g.placed[Len(f.placed) + 1].at = at /\ g.placed[Len(f.placed) + 1].len = WriteSize(r)
                     /\ g.records[Len(f.placed) + 1] = r
                     /\ End(g, Len(f.placed) + 1) = at + WriteSize(r)
                     /\ End(g, Len(f.placed)) = ftell(f) /\ ftell(f) \in Nat
  <2>. USE <1>NewRecord
  <2>1. Len(f.placed) \in Nat /\ Len(g.placed) = Len(f.placed) + 1
    BY DEF DiskOK, DiskTypes, Joined
  <2>2. /\ g.placed[Len(f.placed) + 1].at = at /\ g.placed[Len(f.placed) + 1].len = WriteSize(r)
        /\ g.records[Len(f.placed) + 1] = r
    BY DEF Joined
  <2>3. End(g, Len(f.placed) + 1) = at + WriteSize(r)
    BY <2>1, <2>2 DEF End
  <2>4. ftell(f) \in Nat /\ ftell(f) = End(f, Len(f.placed))
    BY DEF DiskOK, DiskTypes, ftell
  <2>5. CASE Len(f.placed) = 0
    BY <2>1, <2>2, <2>3, <2>4, <2>5, Zenon DEF End
  <2>6. CASE Len(f.placed) # 0
    <3>1. Len(f.placed) \in 1..Len(f.placed)
      BY <2>1, <2>6
    <3>2. End(g, Len(f.placed)) = End(f, Len(f.placed))
      BY <3>1, <1>OldRecords
    <3>. QED
      BY <2>1, <2>2, <2>3, <2>4, <3>2, Zenon
  <2>. QED
    BY <2>5, <2>6, Zenon
(* A record that stays keeps the file well-formed *)
<1>StayKeeps. ASSUME NEW f, DiskOK(f), NEW g, NEW r, FitsAt(r, ftell(f)), Joined(f, g, r, ftell(f)), Stayed(f, g, r)
              PROVE  DiskOK(g)
  <2>. USE <1>StayKeeps
  <2>1. PICK N \in Nat : N = Len(f.placed)
    BY DEF DiskOK, DiskTypes
  <2>2. /\ f.base \in Nat /\ f.buf \in Seq(Byte) /\ f.disk \in Seq(Byte) /\ Len(f.buf) \in Nat /\ Len(f.disk) \in Nat
        /\ ftell(f) = f.base + Len(f.buf) /\ ftell(f) \in Nat /\ f.base <= Len(f.disk) /\ Len(f.disk) <= ftell(f)
    BY DEF DiskOK, DiskTypes, ftell
  <2>n. PICK base \in Nat, L \in Nat, D \in Nat, T \in Nat : 
          base = f.base /\ L = Len(f.buf) /\ D = Len(f.disk) /\ T = ftell(f) /\ T = base + L /\ base <= D /\ D <= T
    BY <2>2, Zenon
  <2>3. PICK n \in Nat : n = WriteSize(r) /\ n # 0
    BY Zenon DEF FitsAt
  <2>4. /\ Len(g.placed) = N + 1 /\ g.placed[N + 1].at = ftell(f) /\ g.placed[N + 1].len = n
        /\ g.records[N + 1] = r /\ End(g, N + 1) = ftell(f) + n /\ End(g, N) = ftell(f)
    <3>1. WriteSize(r) \in Nat
      BY <2>3, Zenon
    <3>2. Joined(f, g, r, T)
      BY <2>n, Zenon
    <3>3. /\ Len(g.placed) = Len(f.placed) + 1
          /\ g.placed[Len(f.placed) + 1].at = T /\ g.placed[Len(f.placed) + 1].len = WriteSize(r)
          /\ g.records[Len(f.placed) + 1] = r
          /\ End(g, Len(f.placed) + 1) = T + WriteSize(r) /\ End(g, Len(f.placed)) = ftell(f)
      BY <3>1, <3>2, <1>NewRecord
    <3>. QED
      BY <2>n, <2>1, <2>3, <3>3, Zenon
  <2>5. g.base = f.base /\ g.disk = f.disk /\ ftell(g) = ftell(f) + n
    BY <2>2, <2>3 DEF Stayed, ftell
  <2>6. DiskTypes(g)
    BY <2>2, <2>5, Zenon DEF DiskTypes, Joined, Stayed
  <2>7. g.base <= Len(g.disk) /\ Len(g.disk) <= ftell(g) /\ ftell(g) = End(g, Len(g.placed))
    BY <2>2, <2>4, <2>5
  <2>8. ASSUME NEW i \in 1..N PROVE Held(g, i) /\ Follows(g, i)
    <3>1. Held(f, i) /\ Follows(f, i)
      BY <2>1, Zenon DEF DiskOK
    <3>2. /\ g.placed[i] = f.placed[i] /\ g.records[i] = f.records[i]
          /\ f.placed[i].at \in Nat /\ f.placed[i].len \in Nat \ {0} /\ End(g, i - 1) = End(f, i - 1)
      BY <2>1, <1>OldRecords
    <3>3. PICK at \in Nat, len \in Nat \ {0} : at = f.placed[i].at /\ len = f.placed[i].len
      BY <3>2, Zenon
    <3>4. /\ len = WriteSize(f.records[i]) /\ at \div B = (at + len - 1) \div B /\ at + len <= ftell(f)
          /\ \/ at + len <= f.base /\ \A j \in 1..len : f.disk[at + j] = <<i, j>>
             \/ f.base <= at /\ \A j \in 1..len : f.buf[at - f.base + j] = <<i, j>>
      BY <3>1, <3>3, Zenon DEF Held
    <3>5. at + len <= ftell(g)
      BY <2>2, <2>5, <3>4
    <3>6. f.base <= at => \A j \in 1..len : g.buf[at - f.base + j] = f.buf[at - f.base + j]
      <4>. SUFFICES ASSUME f.base <= at, NEW j \in 1..len
                    PROVE  g.buf[at - f.base + j] = f.buf[at - f.base + j]
        BY Zenon
      <4>1. base <= at /\ at + len <= T
        BY <2>n, <3>4, Zenon
      <4>2. at - base + j \in 1..L
        <5>1. base <= at /\ at + len <= base + L
          BY <2>n, <4>1, Zenon
        <5>. QED
          BY <5>1, Within, Zenon
      <4>. QED
        BY <2>n, <4>2, Zenon DEF Stayed
    <3>7. Held(g, i)
      BY <2>5, <3>2, <3>3, <3>4, <3>5, <3>6, Zenon DEF Held
    <3>8. Follows(g, i)
      BY <2>5, <3>1, <3>2, Zenon DEF Follows
    <3>. QED
      BY <3>7, <3>8, Zenon
  <2>9. Held(g, N + 1)
    <3>1. ASSUME NEW j \in 1..n PROVE g.buf[ftell(f) - g.base + j] = <<N + 1, j>>
      <4>1. ftell(f) - g.base + j = Len(f.buf) + j
        BY <2>2, <2>5
      <4>. QED
        BY <2>1, <2>3, <4>1, Zenon DEF Stayed
    <3>2. g.base <= ftell(f)
      BY <2>2, <2>5
    <3>. QED
      <4>1. /\ ftell(f) \div B = (ftell(f) + n - 1) \div B /\ ftell(f) + n <= ftell(g)
            /\ n = WriteSize(g.records[N + 1])
        BY <2>2, <2>3, <2>4, <2>5 DEF FitsAt
      <4>. QED
        BY <2>4, <3>1, <3>2, <4>1, Zenon DEF Held
  <2>10. Follows(g, N + 1)
    <3>1. End(g, N + 1 - 1) = ftell(f)
      BY <2>1, <2>4
    <3>. QED
      BY <2>4, <3>1 DEF Follows
  <2>11. ASSUME NEW x \in (g.base + 1)..Len(g.disk) PROVE Leftover(g, x)
    <3>1. x \in (f.base + 1)..Len(f.disk) /\ x \in Nat
      BY <2>2, <2>5
    <3>2. Leftover(f, x)
      BY <3>1, Zenon DEF DiskOK
    <3>3. f.disk[x][1] \in 1..(N + 1)
      BY <2>1, <3>2 DEF Leftover
    <3>4. ASSUME NEW i \in 1..(N + 1), g.placed[i].at = x - 1
          PROVE  i \in 1..N /\ f.placed[i].at = x - 1
      <4>1. i # N + 1
        <5>1. x <= D /\ x \in Nat
          BY <2>n, <3>1
        <5>2. i = N + 1 => T = x - 1
          BY <2>n, <2>4, <3>4, Zenon
        <5>. QED
          BY <2>n, <5>1, <5>2
      <4>2. i \in 1..N
        BY <4>1
      <4>. QED
        BY <2>1, <3>4, <4>2, <1>OldRecords
    <3>. QED
      BY <2>1, <2>4, <2>5, <3>2, <3>3, <3>4, Zenon DEF Leftover
  <2>12. \A i \in 1..Len(g.placed) : Held(g, i) /\ Follows(g, i)
    BY <2>4, <2>8, <2>9, <2>10
  <2>. QED
    BY <2>6, <2>7, <2>11, <2>12, Zenon DEF DiskOK
(* A record that moves keeps the file well-formed: the first copy, of which a part *)
(* may lie where the stream writes on, is no record                         *)
<1>MoveKeeps. ASSUME NEW f, DiskOK(f), NEW g, NEW r, NEW at \in Nat, FitsAt(r, at), NextAt(f, r, at),
                     Joined(f, g, r, at), Moved(f, g, r, at)
              PROVE  DiskOK(g)
  <2>. USE <1>MoveKeeps
  <2>1. PICK N \in Nat : N = Len(f.placed)
    BY DEF DiskOK, DiskTypes
  <2>2. /\ f.base \in Nat /\ f.buf \in Seq(Byte) /\ f.disk \in Seq(Byte) /\ Len(f.buf) \in Nat /\ Len(f.disk) \in Nat
        /\ ftell(f) = f.base + Len(f.buf) /\ ftell(f) \in Nat /\ f.base <= Len(f.disk) /\ Len(f.disk) <= ftell(f)
    BY DEF DiskOK, DiskTypes, ftell
  <2>n. PICK base \in Nat, L \in Nat, D \in Nat, T \in Nat : 
          base = f.base /\ L = Len(f.buf) /\ D = Len(f.disk) /\ T = ftell(f) /\ T = base + L /\ base <= D /\ D <= T
    BY <2>2, Zenon
  <2>3. PICK n \in Nat : n = WriteSize(r) /\ n # 0
    BY Zenon DEF FitsAt
  <2>4. /\ Len(g.placed) = N + 1 /\ g.placed[N + 1].at = at /\ g.placed[N + 1].len = n
        /\ g.records[N + 1] = r /\ End(g, N + 1) = at + n /\ End(g, N) = ftell(f)
    BY <2>1, <2>3, <1>NewRecord
  <2>5. g.base = at /\ Len(g.disk) = T + 1 + n /\ ftell(g) = at + n
    BY <2>3, <2>n, Zenon DEF Moved, ftell
  <2>m. T < at /\ at <= T + n
    BY <2>3, <2>n, Zenon DEF NextAt
  <2>6. DiskTypes(g)
    BY <2>5, Zenon DEF DiskTypes, Joined, Moved
  <2>7. g.base <= Len(g.disk) /\ Len(g.disk) <= ftell(g) /\ ftell(g) = End(g, Len(g.placed))
    BY <2>3, <2>4, <2>5, <2>m
  <2>8. ASSUME NEW i \in 1..N PROVE Held(g, i) /\ Follows(g, i)
    <3>1. Held(f, i) /\ Follows(f, i)
      BY <2>1, Zenon DEF DiskOK
    <3>2. /\ g.placed[i] = f.placed[i] /\ g.records[i] = f.records[i]
          /\ f.placed[i].at \in Nat /\ f.placed[i].len \in Nat \ {0}
          /\ End(g, i - 1) = End(f, i - 1) /\ End(f, i - 1) \in Nat
      BY <2>1, <1>OldRecords
    <3>3. PICK a \in Nat, len \in Nat \ {0} : a = f.placed[i].at /\ len = f.placed[i].len
      BY <3>2, Zenon
    <3>4. /\ len = WriteSize(f.records[i]) /\ a \div B = (a + len - 1) \div B /\ a + len <= ftell(f)
          /\ \/ a + len <= f.base /\ \A j \in 1..len : f.disk[a + j] = <<i, j>>
             \/ f.base <= a /\ \A j \in 1..len : f.buf[a - f.base + j] = <<i, j>>
      BY <3>1, <3>3, Zenon DEF Held
    <3>5. a + len <= ftell(g) /\ a + len <= g.base
      <4>1. a + len <= T
        BY <2>n, <3>4, Zenon
      <4>. QED
        BY <2>5, <2>m, <4>1
    <3>6. \A j \in 1..len : g.disk[a + j] = <<i, j>>
      <4>. TAKE j \in 1..len
      <4>1. CASE a + len <= f.base /\ \A k \in 1..len : f.disk[a + k] = <<i, k>>
        <5>1. a + j \in 1..f.base
          BY <2>2, <4>1
        <5>. QED
          BY <4>1, <5>1, Zenon DEF Moved
      <4>2. CASE f.base <= a /\ \A k \in 1..len : f.buf[a - f.base + k] = <<i, k>>
        <5>1. a - f.base + j \in 1..Len(f.buf) /\ f.base + (a - f.base + j) = a + j
          <6>1. base <= a /\ a + len <= T
            BY <2>n, <3>4, <4>2, Zenon
          <6>2. a - base + j \in 1..L /\ base + (a - base + j) = a + j
            <7>1. base <= a /\ a + len <= base + L
              BY <2>n, <6>1, Zenon
            <7>. QED
              BY <7>1, Within
          <6>. QED
            BY <2>n, <6>2, Zenon
        <5>2. g.disk[f.base + (a - f.base + j)] = f.buf[a - f.base + j]
          BY <5>1, Zenon DEF Moved
        <5>. QED
          BY <4>2, <5>1, <5>2, Zenon
      <4>. QED
        BY <3>4, <4>1, <4>2, Zenon
    <3>7. Held(g, i)
      BY <3>2, <3>3, <3>4, <3>5, <3>6, Zenon DEF Held
    <3>8. Follows(g, i)
      <4>1. CASE f.placed[i].at = End(f, i - 1)
        BY <3>2, <4>1, Zenon DEF Follows
      <4>2. CASE /\ f.placed[i].at = (End(f, i - 1) \div B + 1) * B
                 /\ End(f, i - 1) < f.base /\ f.disk[End(f, i - 1) + 1] = Undefine
        <5>1. End(f, i - 1) + 1 \in 1..f.base /\ End(f, i - 1) < g.base
          <6>1. PICK e \in Nat : e = End(f, i - 1)
            BY <3>2, Zenon
          <6>2. e < base
            BY <2>n, <4>2, <6>1, Zenon
          <6>3. e + 1 \in 1..base /\ e < at
            <7>1. base <= T /\ T < at
              BY <2>n, <2>m
            <7>. QED
              BY <6>2, <7>1
          <6>. QED
            BY <2>n, <2>5, <6>1, <6>3, Zenon
        <5>2. g.disk[End(f, i - 1) + 1] = Undefine
          BY <4>2, <5>1, Zenon DEF Moved
        <5>. QED
          BY <3>2, <4>2, <5>1, <5>2, Zenon DEF Follows
      <4>. QED
        BY <3>1, <4>1, <4>2, Zenon DEF Follows
    <3>. QED
      BY <3>7, <3>8, Zenon
  <2>9. Held(g, N + 1)
    <3>1. ASSUME NEW j \in 1..n PROVE g.buf[at - g.base + j] = <<N + 1, j>>
      <4>1. at - g.base + j = j
        BY <2>5
      <4>. QED
        BY <2>1, <2>3, <4>1, Zenon DEF Moved
    <3>2. g.base <= at
      BY <2>5
    <3>. QED
      <4>1. at \div B = (at + n - 1) \div B /\ at + n <= ftell(g) /\ n = WriteSize(g.records[N + 1])
        BY <2>3, <2>4, <2>5 DEF FitsAt
      <4>. QED
        BY <2>4, <3>1, <3>2, <4>1, Zenon DEF Held
  <2>10. Follows(g, N + 1)
    <3>1. End(g, N + 1 - 1) = ftell(f)
      BY <2>1, <2>4
    <3>2. g.disk[ftell(f) + 1] = Undefine
      BY Zenon DEF Moved
    <3>. QED
      BY <2>4, <2>5, <3>1, <3>2 DEF Follows, NextAt
  <2>11. ASSUME NEW x \in (g.base + 1)..Len(g.disk) PROVE Leftover(g, x)
    <3>1. x \in Nat /\ x - (ftell(f) + 1) \in 1..n /\ ftell(f) + 1 + (x - (ftell(f) + 1)) = x
      <4>1. x \in Nat /\ at + 1 <= x /\ x <= T + 1 + n
        BY <2>5
      <4>2. x - (T + 1) \in 1..n /\ T + 1 + (x - (T + 1)) = x
        BY <2>m, <4>1
      <4>. QED
        BY <2>n, <4>1, <4>2, Zenon
    <3>2. g.disk[x] = <<N + 1, x - (ftell(f) + 1)>>
      BY <2>1, <2>3, <3>1, Zenon DEF Moved
    <3>3. g.disk[x][1] = N + 1 /\ g.disk[x][2] # 0
      BY <3>1, <3>2
    <3>4. ASSUME NEW i \in 1..(N + 1), g.placed[i].at = x - 1
          PROVE  i = N + 1
      <4>0. i \in 1..N \/ i = N + 1
        OBVIOUS
      <4>1. SUFFICES ASSUME i \in 1..N PROVE FALSE
        BY <4>0, Zenon
      <4>2. Held(f, i) /\ f.placed[i].at \in Nat /\ f.placed[i].len \in Nat \ {0} /\ g.placed[i] = f.placed[i]
        <5>1. i \in 1..Len(f.placed)
          BY <2>1, <4>1, Zenon
        <5>2. Held(f, i)
          BY <5>1, Zenon DEF DiskOK
        <5>. QED
          BY <5>1, <5>2, <1>OldRecords
      <4>3. f.placed[i].at + f.placed[i].len <= ftell(f)
        BY <4>2, Zenon DEF Held
      <4>. QED
        <5>1. PICK a \in Nat, len \in Nat \ {0} : a = f.placed[i].at /\ len = f.placed[i].len
          BY <4>2, Zenon
        <5>2. a + len <= T /\ a = x - 1
          BY <2>n, <3>4, <4>2, <4>3, <5>1, Zenon
        <5>3. at + 1 <= x /\ x \in Nat
          BY <2>5, <3>1
        <5>. QED
          BY <2>m, <5>2, <5>3
    <3>. QED
      BY <2>4, <3>3, <3>4 DEF Leftover
  <2>12. \A i \in 1..Len(g.placed) : Held(g, i) /\ Follows(g, i)
    <3>. TAKE i \in 1..Len(g.placed)
    <3>1. i \in 1..N \/ i = N + 1
      BY <2>4
    <3>. QED
      BY <2>8, <2>9, <2>10, <3>1, Zenon
  <2>. QED
    BY <2>6, <2>7, <2>11, <2>12, Zenon DEF DiskOK
<1>. SUFFICES ASSUME NamesFit, NEW f, DiskOK(f), NEW r, Writable(r), ~Fwrite(f, r).wrapped
             PROVE  DiskOK(Fwrite(f, r)) /\ \E at : Joined(f, Fwrite(f, r), r, at)
  BY Zenon
<1>1. /\ ftell(f) \in Nat /\ WriteSize(r) \in Nat \ {0} /\ Start(f, r) \in Nat
      /\ Start(f, r) \div B = (Start(f, r) + WriteSize(r) - 1) \div B
      /\ Moves(f, r) => /\ Start(f, r) = (ftell(f) \div B + 1) * B
                        /\ ftell(f) < Start(f, r) /\ Start(f, r) <= ftell(f) + WriteSize(r)
      /\ ~Moves(f, r) => Start(f, r) = ftell(f)
  BY <1>FwriteNumbers
<1>2. DiskTypes(f) /\ f.base <= Len(f.disk) /\ Len(f.disk) <= ftell(f)
  BY Zenon DEF DiskOK
<1>3. PICK g : g = Fwrite(f, r)
  BY Zenon
<1>4. Joined(f, g, r, Start(f, r))
  BY <1>1, <1>2, <1>3, <1>FwriteJoins, Zenon
<1>5. CASE Moves(f, r)
  <2>1. Moved(f, g, r, Start(f, r))
    BY <1>1, <1>2, <1>3, <1>5, <1>FwriteMoves, Zenon
  <2>2. PICK at \in Nat : at = Start(f, r)
    BY <1>1, Zenon
  <2>3. FitsAt(r, at) /\ NextAt(f, r, at)
    BY <1>1, <1>5, <2>2, Zenon DEF FitsAt, NextAt
  <2>. QED
    BY <1>3, <1>4, <2>1, <2>2, <2>3, <1>MoveKeeps, Zenon
<1>6. CASE ~Moves(f, r)
  <2>1. Stayed(f, g, r)
    BY <1>1, <1>2, <1>3, <1>6, <1>FwriteStays, Zenon
  <2>2. FitsAt(r, ftell(f)) /\ Joined(f, g, r, ftell(f))
    BY <1>1, <1>4, <1>6, Zenon DEF FitsAt
  <2>. QED
    BY <1>3, <1>4, <2>1, <2>2, <1>StayKeeps, Zenon
<1>. QED
  BY <1>5, <1>6, Zenon

-----------------------------------------------------------------------------
(* What the parse job finds in a file of the records of f: where a record   *)
(* should begin there is its first byte or, in an incomplete file, a byte   *)
(* of another record that is not its first; a gap begins with UNDEFINE.     *)
FirstByte(file, f, i) ==
  LET first == file[f.placed[i].at + 1]
  IN  first[1] \in 1..Len(f.placed) /\ first[2] # 0 /\ (first[2] = 1 => first[1] = i)
Gap(file, f, i) ==
  /\ f.placed[i].at = (End(f, i - 1) \div B + 1) * B
  /\ End(f, i - 1) < Len(file) => file[End(f, i - 1) + 1] = Undefine
FileRead(file, f, complete) ==
  /\ file \in Seq(Byte) /\ Len(file) <= ftell(f)
  /\ complete => /\ Len(file) = ftell(f)
                 /\ \A i \in 1..Len(f.placed) : \A j \in 1..f.placed[i].len : file[f.placed[i].at + j] = <<i, j>>
  /\ \A i \in 1..Len(f.placed) :
       /\ f.placed[i].at < Len(file) => FirstByte(file, f, i)
       /\ f.placed[i].at # End(f, i - 1) => Gap(file, f, i)

(* Whatever part of the buffer gets to the disk, the parse job finds this there *)
LEMMA DiskRead ==
  ASSUME NEW f, DiskOK(f), NEW k \in 0..Len(f.buf)
  PROVE  FileRead(OnDisk(f, k), f, k = Len(f.buf))
<1>1. PICK N \in Nat : N = Len(f.placed)
  BY DEF DiskOK, DiskTypes
<1>2. /\ f.base \in Nat /\ f.buf \in Seq(Byte) /\ f.disk \in Seq(Byte) /\ Len(f.buf) \in Nat /\ Len(f.disk) \in Nat
      /\ ftell(f) = f.base + Len(f.buf) /\ ftell(f) \in Nat /\ f.base <= Len(f.disk) /\ Len(f.disk) <= ftell(f)
  BY DEF DiskOK, DiskTypes, ftell
<1>3. PICK base \in Nat, L \in Nat, D \in Nat, T \in Nat :
        base = f.base /\ L = Len(f.buf) /\ D = Len(f.disk) /\ T = ftell(f)
  BY <1>2, Zenon
<1>4. T = base + L /\ base <= D /\ D <= T /\ k \in Nat /\ k <= L
  BY <1>2, <1>3
<1>5. PICK disk \in Seq(Byte), buf \in Seq(Byte) : disk = f.disk /\ buf = f.buf
  BY <1>2, Zenon
<1>6. PICK b \in Seq(Byte) : b = SubSeq(buf, 1, k) /\ Len(b) = k /\ \A i \in 1..k : b[i] = buf[i]
  <2>1. Len(buf) = L
    BY <1>3, <1>5, Zenon
  <2>2. SubSeq(buf, 1, k) \in Seq(Byte) /\ Len(SubSeq(buf, 1, k)) = k /\ \A i \in 1..k : SubSeq(buf, 1, k)[i] = buf[i]
    BY <1>4, <2>1, SubSeqAt
  <2>. QED
    BY <2>2, Zenon
<1>7. PICK o : o = Overlay(disk, base, b)
  BY Zenon
<1>8. /\ o \in Seq(Byte) /\ Len(o) = IF D <= base + k THEN base + k ELSE D
      /\ \A i \in 1..Len(o) : o[i] = IF i <= base THEN disk[i] ELSE IF i <= base + k THEN b[i - base] ELSE disk[i]
  <2>1. base <= Len(disk) /\ Len(disk) = D
    BY <1>3, <1>4, <1>5, Zenon
  <2>. QED
    <3>1. /\ Overlay(disk, base, b) \in Seq(Byte)
          /\ Len(Overlay(disk, base, b)) = IF Len(disk) <= base + Len(b) THEN base + Len(b) ELSE Len(disk)
          /\ \A i \in 1..Len(Overlay(disk, base, b)) : Overlay(disk, base, b)[i] =
               IF i <= base THEN disk[i] ELSE IF i <= base + Len(b) THEN b[i - base] ELSE disk[i]
      BY <2>1, OverlayAt
    <3>2. Len(b) = k
      BY <1>6, Zenon
    <3>. QED
      BY <1>7, <2>1, <3>1, <3>2, Zenon
<1>9. OnDisk(f, k) = o
  BY <1>3, <1>5, <1>6, <1>7, Zenon DEF OnDisk
<1>10. Len(o) \in Nat /\ base <= Len(o) /\ base + k <= Len(o) /\ D <= Len(o) /\ Len(o) <= T
       /\ (Len(o) = base + k \/ Len(o) = D)
  BY <1>4, <1>8
<1>11. \A i \in 1..base : o[i] = disk[i]
  BY <1>8, <1>10
<1>12. ASSUME NEW i \in 1..k PROVE o[base + i] = buf[i]
  <2>1. PICK m \in 1..Len(o) : m = base + i /\ ~(m <= base) /\ m <= base + k /\ m - base = i
    BY <1>4, <1>10
  <2>2. o[m] = IF m <= base THEN disk[m] ELSE IF m <= base + k THEN b[m - base] ELSE disk[m]
    BY <1>8, Zenon
  <2>. QED
    BY <1>6, <2>1, <2>2, Zenon
<1>13. \A x \in (base + k + 1)..Len(o) : o[x] = disk[x] /\ x <= D
  <2>. TAKE x \in (base + k + 1)..Len(o)
  <2>1. x \in 1..Len(o) /\ ~(x <= base) /\ ~(x <= base + k) /\ x <= D
    BY <1>4, <1>10
  <2>. QED
    BY <1>8, <2>1, Zenon
<1>14. ASSUME NEW i \in 1..N
       PROVE  /\ f.placed[i].at < Len(o) => FirstByte(o, f, i)
              /\ f.placed[i].at # End(f, i - 1) => Gap(o, f, i)
              /\ k = L => \A j \in 1..f.placed[i].len : o[f.placed[i].at + j] = <<i, j>>
  <2>1. Held(f, i) /\ Follows(f, i)
    BY <1>1, Zenon DEF DiskOK
  <2>2. PICK at \in Nat, len \in Nat \ {0} : at = f.placed[i].at /\ len = f.placed[i].len
    BY <1>1, PlacedAt, Zenon DEF DiskOK
  <2>3. /\ at + len <= T
        /\ \/ at + len <= base /\ \A j \in 1..len : disk[at + j] = <<i, j>>
           \/ base <= at /\ \A j \in 1..len : buf[at - base + j] = <<i, j>>
    BY <1>3, <1>5, <2>1, <2>2, Zenon DEF Held
  <2>4. ASSUME at < Len(o) PROVE FirstByte(o, f, i)
    <3>1. ASSUME o[at + 1] = <<i, 1>> PROVE FirstByte(o, f, i)
      BY <1>1, <2>2, <3>1 DEF FirstByte
    <3>2. CASE at + len <= base /\ \A j \in 1..len : disk[at + j] = <<i, j>>
      <4>1. at + 1 \in 1..base /\ 1 \in 1..len
        BY <3>2
      <4>. QED
        BY <1>11, <3>1, <3>2, <4>1, Zenon
    <3>3. CASE base <= at /\ (\A j \in 1..len : buf[at - base + j] = <<i, j>>) /\ at + 1 <= base + k
      <4>0. base <= at /\ at + 1 <= base + k
        BY <3>3, Zenon
      <4>1. at - base + 1 \in 1..k /\ base + (at - base + 1) = at + 1 /\ 1 \in 1..len
        BY <1>4, <4>0
      <4>2. buf[at - base + 1] = <<i, 1>>
        BY <3>3, <4>1, Zenon
      <4>3. o[base + (at - base + 1)] = buf[at - base + 1]
        BY <1>12, <4>1, Zenon
      <4>. QED
        BY <3>1, <4>1, <4>2, <4>3, Zenon
    <3>4. CASE base <= at /\ base + k < at + 1
      <4>1. at + 1 \in (base + k + 1)..Len(o)
        BY <1>4, <1>10, <2>4, <3>4
      <4>2. o[at + 1] = disk[at + 1] /\ at + 1 <= D
        BY <1>13, <4>1, Zenon
      <4>3. at + 1 \in (base + 1)..D /\ at + 1 - 1 = at
        BY <3>4, <4>2
      <4>4. Leftover(f, at + 1)
        BY <1>3, <4>3, Zenon DEF DiskOK
      <4>5. disk[at + 1][1] \in 1..N /\ disk[at + 1][2] # 0 /\ (disk[at + 1][2] = 1 => disk[at + 1][1] = i)
        <5>1. disk[at + 1][1] \in 1..N /\ disk[at + 1][2] # 0
          BY <1>1, <1>5, <4>4, Zenon DEF Leftover
        <5>2. f.placed[i].at = at + 1 - 1
          BY <2>2, <4>3, Zenon
        <5>3. disk[at + 1][2] = 1 => disk[at + 1][1] = i
          BY <1>1, <1>5, <4>4, <5>2 DEF Leftover
        <5>. QED
          BY <5>1, <5>3, Zenon
      <4>. QED
        BY <1>1, <2>2, <4>2, <4>5, Zenon DEF FirstByte
    <3>. QED
      <4>1. at + 1 <= base + k \/ base + k < at + 1
        BY <1>4
      <4>. QED
        BY <2>3, <3>2, <3>3, <3>4, <4>1, Zenon
  <2>5. ASSUME at # End(f, i - 1) PROVE Gap(o, f, i)
    <3>1. /\ at = (End(f, i - 1) \div B + 1) * B /\ End(f, i - 1) < base /\ disk[End(f, i - 1) + 1] = Undefine
      BY <1>3, <1>5, <2>1, <2>2, <2>5, Zenon DEF Follows
    <3>2. End(f, i - 1) \in Nat
      <4>1. CASE i = 1
        BY <4>1 DEF End
      <4>2. CASE i # 1
        <5>1. i - 1 \in 1..Len(f.placed) /\ i - 1 # 0
          BY <1>1, <4>2
        <5>2. f.placed[i - 1].at \in Nat /\ f.placed[i - 1].len \in Nat
          BY <5>1, PlacedAt, Zenon DEF DiskOK
        <5>. QED
          <6>1. End(f, i - 1) = f.placed[i - 1].at + f.placed[i - 1].len
            BY <5>1, Zenon DEF End
          <6>. QED
            BY <5>2, <6>1
      <4>. QED
        BY <4>1, <4>2, Zenon
    <3>3. End(f, i - 1) + 1 \in 1..base
      BY <3>1, <3>2
    <3>4. o[End(f, i - 1) + 1] = Undefine
      BY <1>11, <3>1, <3>3, Zenon
    <3>. QED
      BY <2>2, <3>1, <3>4, Zenon DEF Gap
  <2>6. ASSUME k = L, NEW j \in 1..len PROVE o[at + j] = <<i, j>>
    <3>1. CASE at + len <= base /\ \A m \in 1..len : disk[at + m] = <<i, m>>
      <4>1. at + j \in 1..base
        BY <3>1
      <4>. QED
        BY <1>11, <3>1, <4>1, Zenon
    <3>2. CASE base <= at /\ \A m \in 1..len : buf[at - base + m] = <<i, m>>
      <4>1. at - base + j \in 1..L /\ base + (at - base + j) = at + j
        <5>1. at + len <= base + L
          BY <1>4, <2>3, Zenon
        <5>. QED
          BY <3>2, <5>1, Within
      <4>2. o[base + (at - base + j)] = buf[at - base + j]
        BY <1>12, <2>6, <4>1, Zenon
      <4>. QED
        BY <3>2, <4>1, <4>2, Zenon
    <3>. QED
      BY <2>3, <3>1, <3>2, Zenon
  <2>. QED
    BY <2>2, <2>4, <2>5, <2>6, Zenon
<1>15. k = L => Len(o) = T
  BY <1>4, <1>10
<1>16. FileRead(o, f, k = Len(f.buf))
  BY <1>1, <1>3, <1>8, <1>10, <1>14, <1>15, Zenon DEF FileRead
<1>. QED
  BY <1>9, <1>16, Zenon

-----------------------------------------------------------------------------
(* The walk over the blocks *)

(* The parse job has read n records: it is behind the last of them, or at   *)
(* the next one; blk is its block.                                          *)
Pos(f, blk, p, n) ==
  /\ n \in 0..Len(f.placed) /\ blk \in Nat /\ p \in Nat
  /\ blk * B <= p /\ p <= (blk + 1) * B
  /\ p = End(f, n) \/ (n < Len(f.placed) /\ p = f.placed[n + 1].at)

(* The loop over a block goes on *)
At(file, blk, p) == p < BlockEnd(file, blk) /\ file[p + 1] # Undefine

(* A block ends at its size or with the file *)
LEMMA BlockEndIs ==
  ASSUME NEW file \in Seq(Byte), NEW blk \in Nat
  PROVE  /\ BlockEnd(file, blk) \in Nat /\ (blk + 1) * B \in Nat
         /\ BlockEnd(file, blk) <= Len(file) /\ BlockEnd(file, blk) <= (blk + 1) * B
         /\ BlockEnd(file, blk) = Len(file) \/ BlockEnd(file, blk) = (blk + 1) * B
<1>1. PICK e \in Nat : e = (blk + 1) * B
  BY BlockPositive
<1>2. BlockEnd(file, blk) = IF Len(file) < e THEN Len(file) ELSE e
  BY <1>1, Zenon DEF BlockEnd, B
<1>3. Len(file) \in Nat
  OBVIOUS
<1>. QED
  BY <1>1, <1>2, <1>3

(* The records of a file *)
LEMMA RecordIs ==
  ASSUME NEW f, DiskOK(f), NEW i \in 1..Len(f.placed)
  PROVE  /\ f.placed[i].at \in Nat /\ f.placed[i].len \in Nat \ {0} /\ ftell(f) \in Nat
         /\ f.placed[i].at + f.placed[i].len <= ftell(f) /\ End(f, i) = f.placed[i].at + f.placed[i].len
         /\ f.placed[i].len = WriteSize(f.records[i])
         /\ f.placed[i].at \div B = (f.placed[i].at + f.placed[i].len - 1) \div B
         /\ Follows(f, i) /\ End(f, i - 1) \in Nat
<1>1. f.placed[i].at \in Nat /\ f.placed[i].len \in Nat \ {0}
  BY PlacedAt, Zenon DEF DiskOK
<1>2. Held(f, i) /\ Follows(f, i)
  BY Zenon DEF DiskOK
<1>3. End(f, i) = f.placed[i].at + f.placed[i].len
  BY DEF End
<1>4. ftell(f) \in Nat
  BY DEF DiskOK, DiskTypes, ftell
<1>5. End(f, i - 1) \in Nat
  <2>1. CASE i = 1
    BY <2>1 DEF End
  <2>2. CASE i # 1
    <3>1. Len(f.placed) \in Nat
      BY DEF DiskOK, DiskTypes
    <3>2. i - 1 \in 1..Len(f.placed) /\ i - 1 # 0
      BY <2>2, <3>1
    <3>3. f.placed[i - 1].at \in Nat /\ f.placed[i - 1].len \in Nat
      BY <3>2, PlacedAt, Zenon DEF DiskOK
    <3>4. End(f, i - 1) = f.placed[i - 1].at + f.placed[i - 1].len
      BY <3>2, Zenon DEF End
    <3>. QED
      BY <3>3, <3>4
  <2>. QED
    BY <2>1, <2>2, Zenon
<1>6. /\ f.placed[i].at + f.placed[i].len <= ftell(f) /\ f.placed[i].len = WriteSize(f.records[i])
      /\ f.placed[i].at \div B = (f.placed[i].at + f.placed[i].len - 1) \div B
  BY <1>2, Zenon DEF Held
<1>. QED
  BY <1>1, <1>2, <1>3, <1>4, <1>5, <1>6, Zenon

(* The position in numbers: e is the end of record n, a the start of the next *)
LEMMA PosIs ==
  ASSUME NEW f, DiskOK(f), NEW file, NEW complete, FileRead(file, f, complete), NEW blk, NEW p, NEW n, Pos(f, blk, p, n)
  PROVE  /\ Len(f.placed) \in Nat /\ file \in Seq(Byte) /\ Len(file) \in Nat /\ Len(file) <= ftell(f) /\ ftell(f) \in Nat
         /\ blk \in Nat /\ p \in Nat /\ n \in Nat
         /\ n = Len(f.placed) => p = ftell(f)
         /\ n < Len(f.placed) => n + 1 \in 1..Len(f.placed) /\ n + 1 - 1 = n
<1>1. Len(f.placed) \in Nat /\ ftell(f) \in Nat /\ ftell(f) = End(f, Len(f.placed))
  BY DEF DiskOK, DiskTypes, ftell
<1>2. file \in Seq(Byte) /\ Len(file) \in Nat /\ Len(file) <= ftell(f)
  BY DEF FileRead
<1>3. n \in Nat /\ n <= Len(f.placed) /\ blk \in Nat /\ p \in Nat
  BY <1>1 DEF Pos
<1>4. n = Len(f.placed) => p = ftell(f)
  BY <1>1, <1>3 DEF Pos
<1>. QED
  BY <1>1, <1>2, <1>3, <1>4

(* Where the next record is not right behind record n *)
LEMMA GapAt ==
  ASSUME NEW f, NEW file, NEW complete, FileRead(file, f, complete), NEW n \in Nat, n + 1 \in 1..Len(f.placed),
         NEW p, p = End(f, n), p # f.placed[n + 1].at
  PROVE  f.placed[n + 1].at = (p \div B + 1) * B /\ (p < Len(file) => file[p + 1] = Undefine)
<1>1. PICK m \in 1..Len(f.placed) : m = n + 1 /\ m - 1 = n
  OBVIOUS
<1>2. End(f, m - 1) = p /\ f.placed[m].at # p
  BY <1>1, Zenon
<1>3. Gap(file, f, m)
  BY <1>2, Zenon DEF FileRead
<1>. QED
  BY <1>1, <1>2, <1>3, Zenon DEF Gap

(* The byte at the position is the first one of the place of the next record *)
LEMMA AtNext ==
  ASSUME NEW f, DiskOK(f), NEW file, NEW complete, FileRead(file, f, complete), NEW blk, NEW p, NEW n, Pos(f, blk, p, n),
         At(file, blk, p)
  PROVE  /\ n \in Nat /\ n + 1 \in 1..Len(f.placed) /\ p = f.placed[n + 1].at
         /\ p < Len(file) /\ p < (blk + 1) * B /\ FirstByte(file, f, n + 1)
<1>1. /\ Len(f.placed) \in Nat /\ file \in Seq(Byte) /\ Len(file) \in Nat /\ Len(file) <= ftell(f) /\ ftell(f) \in Nat
      /\ blk \in Nat /\ p \in Nat /\ n \in Nat
      /\ n = Len(f.placed) => p = ftell(f)
      /\ n < Len(f.placed) => n + 1 \in 1..Len(f.placed) /\ n + 1 - 1 = n
  BY PosIs, Zenon
<1>2. p < BlockEnd(file, blk) /\ file[p + 1] # Undefine
  BY Zenon DEF At
<1>3. p < Len(file) /\ p < (blk + 1) * B
  <2>1. PICK be \in Nat, e \in Nat : be = BlockEnd(file, blk) /\ e = (blk + 1) * B /\ be <= Len(file) /\ be <= e
    BY <1>1, BlockEndIs, Zenon
  <2>2. p < be
    BY <1>2, <2>1, Zenon
  <2>3. p < Len(file) /\ p < e
    BY <1>1, <2>1, <2>2
  <2>. QED
    BY <2>1, <2>3, Zenon
<1>4. n # Len(f.placed)
  BY <1>1, <1>3
<1>5. n < Len(f.placed)
  BY <1>1, <1>4 DEF Pos
<1>6. n + 1 \in 1..Len(f.placed) /\ n + 1 - 1 = n
  BY <1>1, <1>5, Zenon
<1>7. p = f.placed[n + 1].at
  <2>. SUFFICES ASSUME p # f.placed[n + 1].at PROVE FALSE
    BY Zenon
  <2>1. p = End(f, n)
    BY Zenon DEF Pos
  <2>3. file[p + 1] = Undefine
    BY <1>1, <1>3, <1>6, <2>1, GapAt
  <2>. QED
    BY <1>2, <2>3, Zenon
<1>8. FirstByte(file, f, n + 1)
  BY <1>3, <1>6, <1>7, Zenon DEF FileRead
<1>. QED
  BY <1>1, <1>3, <1>6, <1>7, <1>8, Zenon

(* A record does not begin with UNDEFINE *)
LEMMA FirstIsNot ==
  ASSUME NEW f, NEW file, NEW i, FirstByte(file, f, i)
  PROVE  file[f.placed[i].at + 1] # Undefine
BY DEF FirstByte, Undefine

(* blocks of B bytes *)
LEMMA InBlock ==
  ASSUME NEW blk \in Nat, NEW p \in Nat, blk * B <= p, p < (blk + 1) * B
  PROVE  p \div B = blk
<1>1. PICK b \in Nat : b = B /\ 0 < b
  BY BlockPositive, Zenon
<1>2. (blk + 1) * b = blk * b + b
  OBVIOUS
<1>3. blk * b <= p /\ p < blk * b + b
  BY <1>1, <1>2, Zenon
<1>. QED
  BY <1>1, <1>3, SMTT(20)

(* An offset lies before the next block *)
LEMMA BelowNext ==
  ASSUME NEW x \in Nat
  PROVE  x < (x \div B + 1) * B
BY BlockPositive

(* The start of a block and of the next ones *)
LEMMA BlocksGrow ==
  ASSUME NEW blk \in Nat
  PROVE  /\ (blk + 1) * B \in Nat /\ (blk + 1) * B <= (blk + 1 + 1) * B
         /\ blk * B \in Nat /\ blk * B < (blk + 1) * B /\ (blk + 1) * B = blk * B + B
<1>1. PICK b \in Nat : b = B /\ 0 < b
  BY BlockPositive, Zenon
<1>2. blk * b \in Nat /\ (blk + 1) * b = blk * b + b /\ (blk + 1 + 1) * b = blk * b + b + b
  OBVIOUS
<1>. QED
  BY <1>1, <1>2

(* The first byte of the next block is the next position *)
LEMMA BlockOn ==
  ASSUME NEW f, DiskOK(f), NEW file, NEW complete, FileRead(file, f, complete), NEW blk, NEW p, NEW n, Pos(f, blk, p, n),
         ~At(file, blk, p), (blk + 1) * B < Len(file)
  PROVE  Pos(f, blk + 1, (blk + 1) * B, n)
<1>1. /\ Len(f.placed) \in Nat /\ file \in Seq(Byte) /\ Len(file) \in Nat /\ Len(file) <= ftell(f) /\ ftell(f) \in Nat
      /\ blk \in Nat /\ p \in Nat /\ n \in Nat
      /\ n = Len(f.placed) => p = ftell(f)
      /\ n < Len(f.placed) => n + 1 \in 1..Len(f.placed) /\ n + 1 - 1 = n
  BY PosIs, Zenon
<1>2. PICK e \in Nat : e = (blk + 1) * B
  BY <1>1, BlocksGrow, Zenon
<1>3. p <= e /\ e < Len(file) /\ p < Len(file)
  BY <1>1, <1>2 DEF Pos
<1>4. n < Len(f.placed)
  BY <1>1, <1>3 DEF Pos
<1>5. n + 1 \in 1..Len(f.placed) /\ n + 1 - 1 = n
  BY <1>1, <1>4, Zenon
<1>6. e = End(f, n) \/ e = f.placed[n + 1].at
  <2>1. CASE p = f.placed[n + 1].at
    <3>1. FirstByte(file, f, n + 1)
      BY <1>3, <1>5, <2>1, Zenon DEF FileRead
    <3>2. file[p + 1] # Undefine
      BY <2>1, <3>1, FirstIsNot, Zenon
    <3>3. ~(p < BlockEnd(file, blk))
      BY <3>2, Zenon DEF At
    <3>4. p = e
      <4>1. PICK be \in Nat : be = BlockEnd(file, blk) /\ (be = Len(file) \/ be = e)
        BY <1>1, <1>2, BlockEndIs, Zenon
      <4>2. ~(p < be)
        BY <3>3, <4>1, Zenon
      <4>. QED
        BY <1>1, <1>3, <4>1, <4>2
    <3>. QED
      BY <2>1, <3>4, Zenon
  <2>2. CASE p = End(f, n) /\ p # f.placed[n + 1].at
    <3>1. CASE p = e
      BY <2>2, <3>1, Zenon
    <3>2. CASE p # e
      <4>1. p \div B = blk
        <5>1. p < (blk + 1) * B /\ blk * B <= p
          BY <1>1, <1>2, <1>3, <3>2 DEF Pos
        <5>. QED
          BY <1>1, <5>1, InBlock, Zenon
      <4>3. f.placed[n + 1].at = (p \div B + 1) * B
        BY <1>1, <1>5, <2>2, GapAt
      <4>. QED
        BY <1>2, <4>1, <4>3, Zenon
    <3>. QED
      BY <3>1, <3>2, Zenon
  <2>. QED
    BY <2>1, <2>2, Zenon DEF Pos
<1>7. (blk + 1) * B <= (blk + 1 + 1) * B /\ blk + 1 \in Nat
  BY <1>1, BlocksGrow
<1>8. n \in 0..Len(f.placed)
  BY Zenon DEF Pos
<1>9. e <= e
  OBVIOUS
<1>. QED
  BY <1>2, <1>4, <1>6, <1>7, <1>8, <1>9, Zenon DEF Pos

(* In a complete file the last block ends behind the last record *)
LEMMA AtEnd ==
  ASSUME NEW f, DiskOK(f), NEW file, FileRead(file, f, TRUE), NEW blk, NEW p, NEW n, Pos(f, blk, p, n),
         ~At(file, blk, p), ~((blk + 1) * B < Len(file))
  PROVE  n = Len(f.placed)
<1>. SUFFICES ASSUME n # Len(f.placed) PROVE FALSE
  BY Zenon
<1>1. /\ Len(f.placed) \in Nat /\ file \in Seq(Byte) /\ Len(file) \in Nat /\ ftell(f) \in Nat
      /\ blk \in Nat /\ p \in Nat /\ n \in Nat
      /\ n < Len(f.placed) => n + 1 \in 1..Len(f.placed) /\ n + 1 - 1 = n
  BY PosIs, Zenon
<1>2. PICK e \in Nat : e = (blk + 1) * B
  BY <1>1, BlocksGrow, Zenon
<1>3. n + 1 \in 1..Len(f.placed) /\ n + 1 - 1 = n
  BY <1>1 DEF Pos
<1>4. Len(file) = ftell(f)
  BY Zenon DEF FileRead
<1>5. PICK a \in Nat, len \in Nat \ {0} : a = f.placed[n + 1].at /\ len = f.placed[n + 1].len
  BY <1>3, RecordIs, Zenon
<1>6. a + len <= ftell(f)
  BY <1>3, <1>5, RecordIs, Zenon
<1>7. a < Len(file) /\ Len(file) <= e
  <2>1. PICK T \in Nat : T = Len(file) /\ T = ftell(f) /\ ~(e < T)
    BY <1>1, <1>2, <1>4, Zenon
  <2>2. a + len <= T
    BY <1>6, <2>1, Zenon
  <2>3. a < T /\ T <= e
    BY <2>1, <2>2
  <2>. QED
    BY <2>1, <2>3, Zenon
<1>8. p # a
  <2>. SUFFICES ASSUME p = a PROVE FALSE
    BY Zenon
  <2>1. FirstByte(file, f, n + 1)
    BY <1>3, <1>5, <1>7, Zenon DEF FileRead
  <2>2. file[p + 1] # Undefine
    BY <1>5, <2>1, FirstIsNot, Zenon
  <2>3. ~(p < BlockEnd(file, blk))
    BY <2>2, Zenon DEF At
  <2>4. BlockEnd(file, blk) = Len(file)
    BY <1>1, <1>2, <1>7, BlockEndIs
  <2>. QED
    BY <1>1, <1>7, <2>3, <2>4, Zenon
<1>9. p = End(f, n) /\ blk * B <= p /\ p <= e
  BY <1>2, <1>5, <1>8, Zenon DEF Pos
<1>10. a = (p \div B + 1) * B
  <2>1. PICK complete : FileRead(file, f, complete)
    BY Zenon
  <2>2. p # f.placed[n + 1].at
    BY <1>5, <1>8, Zenon
  <2>3. f.placed[n + 1].at = (p \div B + 1) * B
    BY <1>1, <1>3, <1>9, <2>1, <2>2, GapAt, Zenon
  <2>. QED
    BY <1>5, <2>3, Zenon
<1>11. p < e
  <2>1. p < (p \div B + 1) * B
    BY <1>1, BelowNext, Zenon
  <2>. QED
    BY <1>1, <1>7, <1>9, <1>10, <2>1
<1>12. p \div B = blk
  BY <1>1, <1>2, <1>9, <1>11, InBlock, Zenon
<1>. QED
  BY <1>2, <1>7, <1>10, <1>12, Zenon

(* All records have numbers of 32 bits; the byte at p is one of record k, r *)
AllNumbered(f) == \A i \in 1..Len(f.placed) : Numbered(f.records[i])
Here(file, p, f, k, r) == k = file[p + 1][1] /\ r = f.records[k]

(* The reader skips a record *)
LEMMA Skips ==
  ASSUME NEW f, DiskOK(f), AllNumbered(f), NEW k \in 1..Len(f.placed)
  PROVE  ReadSize(f.records[k]) = f.placed[k].len /\ f.placed[k].len \in Nat \ {0}
<1>1. PICK r : r = f.records[k] /\ Numbered(r)
  BY Zenon DEF AllNumbered
<1>2. f.placed[k].len = WriteSize(r) /\ f.placed[k].len \in Nat \ {0}
  BY <1>1, RecordIs, Zenon
<1>3. ReadSize(r) = WriteSize(r)
  BY <1>1, ReadsWhatWasWritten, Zenon
<1>. QED
  BY <1>1, <1>2, <1>3, Zenon

(* A whole record at the position is the next one *)
LEMMA ReadOn ==
  ASSUME NEW f, DiskOK(f), NEW file, NEW complete, FileRead(file, f, complete), NEW blk, NEW p, NEW n, Pos(f, blk, p, n),
         At(file, blk, p), AllNumbered(f), NEW k, NEW r, Here(file, p, f, k, r), Whole(file, blk, p, k, r)
  PROVE  k = n + 1 /\ Pos(f, blk, p + ReadSize(r), n + 1)
<1>1. /\ n \in Nat /\ n + 1 \in 1..Len(f.placed) /\ p = f.placed[n + 1].at
      /\ p < Len(file) /\ p < (blk + 1) * B /\ FirstByte(file, f, n + 1)
  BY AtNext, Zenon
<1>2. PICK first : first = file[p + 1] /\ first[1] = k /\ k \in 1..Len(f.placed) /\ (first[2] = 1 => k = n + 1)
  BY <1>1, Zenon DEF FirstByte, Here
<1>3. r = f.records[k]
  BY Zenon DEF Here
<1>4. PICK R \in Nat \ {0} : R = ReadSize(r) /\ R = f.placed[k].len
  BY <1>2, <1>3, Skips, Zenon
<1>5. k = n + 1
  <2>1. 1 \in 1..R
    OBVIOUS
  <2>2. first = <<k, 1>>
    BY <1>2, <1>4, <2>1, Zenon DEF Whole
  <2>. QED
    BY <1>2, <2>2
<1>6. p + R = End(f, n + 1)
  BY <1>1, <1>4, <1>5 DEF End
<1>7. PICK e \in Nat, s \in Nat, N \in Nat : e = (blk + 1) * B /\ s = blk * B /\ N = Len(f.placed)
  <2>1. blk \in Nat /\ Len(f.placed) \in Nat
    BY PosIs, Zenon
  <2>. QED
    BY <2>1, BlocksGrow, Zenon
<1>8. blk \in Nat /\ p \in Nat /\ file \in Seq(Byte)
  BY PosIs, Zenon
<1>9. p + R <= e
  <2>1. PICK be \in Nat : be = BlockEnd(file, blk) /\ be <= e
    BY <1>7, <1>8, BlockEndIs, Zenon
  <2>2. p + R <= be
    BY <1>4, <2>1, Zenon DEF Whole
  <2>. QED
    BY <1>8, <2>1, <2>2
<1>10. s <= p
  BY <1>7, Zenon DEF Pos
<1>11. PICK q \in Nat : q = p + R /\ s <= q /\ q <= e
  BY <1>8, <1>9, <1>10
<1>12. n + 1 \in 0..N
  BY <1>1, <1>7
<1>13. Pos(f, blk, q, n + 1)
  BY <1>6, <1>7, <1>8, <1>11, <1>12, Zenon DEF Pos
<1>. QED
  BY <1>4, <1>5, <1>11, <1>13, Zenon

(* In a complete file every record is whole *)
LEMMA WholeThere ==
  ASSUME NEW f, DiskOK(f), NEW file, FileRead(file, f, TRUE), NEW blk, NEW p, NEW n, Pos(f, blk, p, n),
         At(file, blk, p), AllNumbered(f), NEW k, NEW r, Here(file, p, f, k, r)
  PROVE  k = n + 1 /\ n + 1 \in 1..Len(f.placed) /\ Whole(file, blk, p, k, r)
<1>1. /\ n \in Nat /\ n + 1 \in 1..Len(f.placed) /\ p = f.placed[n + 1].at
      /\ p < Len(file) /\ p < (blk + 1) * B
  <2>1. PICK complete : FileRead(file, f, complete)
    BY Zenon
  <2>. QED
    BY <2>1, AtNext
<1>2. PICK m : m = n + 1 /\ m \in 1..Len(f.placed) /\ p = f.placed[m].at
  BY <1>1, Zenon
<1>3. PICK len \in Nat \ {0} : len = f.placed[m].len
  BY <1>2, RecordIs, Zenon
<1>4. \A j \in 1..len : file[p + j] = <<m, j>>
  BY <1>2, <1>3, Zenon DEF FileRead
<1>5. k = m
  <2>1. 1 \in 1..len
    OBVIOUS
  <2>2. file[p + 1] = <<m, 1>>
    BY <1>4, <2>1, Zenon
  <2>. QED
    BY <2>2 DEF Here
<1>6. ReadSize(r) = len
  <2>1. r = f.records[m]
    BY <1>5, Zenon DEF Here
  <2>. QED
    BY <1>2, <1>3, <2>1, Skips, Zenon
<1>7. PICK T \in Nat, e \in Nat : T = Len(file) /\ e = (blk + 1) * B /\ p \in Nat /\ blk \in Nat /\ file \in Seq(Byte)
  <2>1. /\ p \in Nat /\ file \in Seq(Byte) /\ blk \in Nat /\ Len(file) \in Nat
    BY PosIs, Zenon
  <2>. QED
    BY <2>1, BlocksGrow, Zenon
<1>8. p + len <= T
  <2>1. T = ftell(f)
    BY <1>7, Zenon DEF FileRead
  <2>2. p + len <= ftell(f)
    BY <1>2, <1>3, RecordIs, Zenon
  <2>. QED
    BY <2>1, <2>2, Zenon
<1>9. p + len <= e
  <2>1. blk * B <= p /\ p < (blk + 1) * B
    BY <1>1, Zenon DEF Pos
  <2>2. p \div B = blk
    BY <1>7, <2>1, InBlock, Zenon
  <2>3. p \div B = (p + len - 1) \div B
    BY <1>2, <1>3, RecordIs, Zenon
  <2>4. PICK x \in Nat : x = p + len - 1
    BY <1>7
  <2>5. x \div B = blk
    BY <2>2, <2>3, <2>4, Zenon
  <2>6. x < (x \div B + 1) * B
    BY BelowNext, Zenon
  <2>7. x < e
    BY <1>7, <2>5, <2>6, Zenon
  <2>. QED
    BY <1>7, <2>4, <2>7
<1>10. p + len <= BlockEnd(file, blk)
  BY <1>7, <1>8, <1>9, BlockEndIs, Zenon
<1>11. Whole(file, blk, p, k, r)
  BY <1>4, <1>5, <1>6, <1>10, Zenon DEF Whole
<1>. QED
  BY <1>1, <1>2, <1>5, <1>11, Zenon
=============================================================================
