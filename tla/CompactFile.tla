----------------------------- MODULE CompactFile -----------------------------
(***************************************************************************)
(* The file format between perf and func_latency                           *)
(* (tools/perf/include/perf/pt_compact_format.h): three kinds of records,   *)
(* each with a type byte, fields of fixed width and compressed integers,    *)
(* packed into blocks of PT_FILE_BLOCK_SIZE bytes.  The reader loads the    *)
(* file block by block and walks each block from its first byte, so no      *)
(* record may cross a block and a gap must begin with an UNDEFINE byte.     *)
(* A byte of the file is <<k, i>>, byte i of the k-th record that perf      *)
(* wrote, or Undefine.                                                      *)
(***************************************************************************)
EXTENDS CompressedInt

CONSTANTS
  PT_FILE_BLOCK_SIZE,  \* 65536
  OffSpace,            \* 2^32: file offsets are kept in a uint32_t
  NameLen              \* [symbol name -> its length]

ASSUME FileAssumption ==
  /\ PT_FILE_BLOCK_SIZE \in Nat /\ PT_FILE_BLOCK_SIZE >= 25  \* the longest branch record
  /\ OffSpace \in Nat /\ PT_FILE_BLOCK_SIZE < OffSpace
  /\ \A n \in DOMAIN NameLen : NameLen[n] \in Nat

Undefine == <<0, 0>>

-----------------------------------------------------------------------------
(* The bytes a record takes when it is written, and those the reader skips  *)

Wsize(v) == Len(write_compressed(v))
Rvalue(v) == read_compressed(write_compressed(v))
Rsize(v) == get_compressed_size(Rvalue(v))

(* pt_fwrite_branch_action(): type, tid, flag, 8 bytes of time, from, to;   *)
(* pt_fwrite_symbol_action(): type, id, 8 bytes of address, offset, length, *)
(* name; pt_fwrite_error_action(): type, tid, 8 bytes of time, code         *)
BranchSize(r) == 1 + Wsize(r.tid) + 1 + 8 + Wsize(r.from) + Wsize(r.to)
SymbolSize(r) == 1 + 4 + 8 + 4 + 4 + NameLen[r.name]
ErrorSize(r) == 1 + Wsize(r.tid) + 8 + 1

WriteSize(r) == CASE r.type = "branch" -> BranchSize(r)
                  [] r.type = "symbol" -> SymbolSize(r)
                  [] r.type = "error"  -> ErrorSize(r)

(* pt_read_branch_action(), pt_read_symbol_action(), pt_read_error_action() *)
ReadSize(r) == CASE r.type = "branch" -> 1 + Rsize(r.tid) + 1 + 8 + Rsize(r.from) + Rsize(r.to)
                 [] r.type = "symbol" -> 1 + 4 + 8 + 4 + 4 + NameLen[r.name]
                 [] r.type = "error"  -> 1 + Rsize(r.tid) + 8 + 1

(* The check of pt_fwrite_symbol_action(): p - b is 17 when it is made      *)
TooLong(name) == 17 - 2 + 4 + NameLen[name] >= PT_FILE_BLOCK_SIZE

-----------------------------------------------------------------------------
(* pt_fwrite_action() on a stdio stream [disk, base, buf]: what the last    *)
(* fseek() flushed, its position, and the bytes written since.  `records'   *)
(* are the records, `placed' and `marks' tell where they and the UNDEFINE   *)
(* bytes went, `wrapped' that an offset did not fit in 32 bits.             *)

NewFile == [disk |-> <<>>, base |-> 0, buf |-> <<>>, records |-> <<>>,
            placed |-> <<>>, marks |-> {}, wrapped |-> FALSE]

ftell(f) == f.base + Len(f.buf)

Bytes(k, r) == [i \in 1..WriteSize(r) |-> <<k, i>>]

(* The file after the bytes b are written at offset at, at most its length  *)
Overlay(disk, at, b) ==
  SubSeq(disk, 1, at) \o b \o SubSeq(disk, at + Len(b) + 1, Len(disk))

BlockOf(off) == off \div PT_FILE_BLOCK_SIZE

(* The block after the record, in 32 bits *)
NewBlock(f, r) == BlockOf((ftell(f) + WriteSize(r)) % OffSpace)

(* Mutant: the last two bytes of the record are not counted *)
MovesLate(f, r) == BlockOf((ftell(f) + WriteSize(r) - 2) % OffSpace) # BlockOf(ftell(f) % OffSpace)

(* A record whose end, or the byte behind it, is in another block moves     *)
Moves(f, r) == NewBlock(f, r) # BlockOf(ftell(f) % OffSpace)

Start(f, r) == IF Moves(f, r) THEN NewBlock(f, r) * PT_FILE_BLOCK_SIZE ELSE ftell(f)

(* Where it moves from, there is an UNDEFINE byte and the record once, to   *)
(* extend the file; fseek() to the new block flushes that.                  *)
Fwrite(f, r) ==
  LET bytes == Bytes(Len(f.records) + 1, r)
  IN  [disk |-> IF Moves(f, r) THEN Overlay(f.disk, f.base, f.buf \o <<Undefine>> \o bytes) ELSE f.disk,
       base |-> IF Moves(f, r) THEN Start(f, r) ELSE f.base,
       buf |-> IF Moves(f, r) THEN bytes ELSE f.buf \o bytes,
       records |-> Append(f.records, r),
       placed |-> Append(f.placed, [at |-> Start(f, r), len |-> WriteSize(r)]),
       marks |-> IF Moves(f, r) THEN f.marks \cup {ftell(f)} ELSE f.marks,
       wrapped |-> f.wrapped \/ ftell(f) + WriteSize(r) >= OffSpace]

(* What is in the file when k of the bytes since the last flush got there   *)
OnDisk(f, k) == Overlay(f.disk, f.base, SubSeq(f.buf, 1, k))

-----------------------------------------------------------------------------
(* read_actions_from_compact_file(): the block `b' of a file, and whether   *)
(* the bytes of r, record k, are all in it from offset p                    *)

BlockEnd(file, b) ==
  LET last == (b + 1) * PT_FILE_BLOCK_SIZE
  IN  IF Len(file) < last THEN Len(file) ELSE last

Whole(file, b, p, k, r) ==
  /\ p + ReadSize(r) <= BlockEnd(file, b)
  /\ \A i \in 1..ReadSize(r) : file[p + i] = <<k, i>>

-----------------------------------------------------------------------------
(* Record i of the file f is in one block, which is the block of the record *)
(* before it, right behind that, or the next one, behind an UNDEFINE byte.  *)
Sits(f, i) ==
  /\ BlockOf(f.placed[i].at) = BlockOf(f.placed[i].at + f.placed[i].len - 1)
  /\ i > 1 => LET behind == f.placed[i-1].at + f.placed[i-1].len
              IN  \/ f.placed[i].at = behind
                  \/ /\ f.placed[i].at = (BlockOf(behind) + 1) * PT_FILE_BLOCK_SIZE
                     /\ behind \in f.marks

PlacedWell(f) == \A i \in 1..Len(f.placed) : Sits(f, i)

(* TooLong() lets one length of names pass that does not fit into a block *)
NamesFit == \A n \in DOMAIN NameLen : NameLen[n] # PT_FILE_BLOCK_SIZE - 20
=============================================================================
