---------------------------- MODULE CompressedInt ----------------------------
(***************************************************************************)
(* The compressed integers of the compact script format                    *)
(* (tools/perf/include/perf/pt_compact_format.h): one to five bytes, the    *)
(* number of leading ones of the first byte tells how many.  perf writes    *)
(* the thread and symbol numbers with write_compressed(); the reader takes  *)
(* the value with read_compressed() and skips get_compressed_size() of the  *)
(* VALUE, not of the bytes it read, so the two must agree.                  *)
(***************************************************************************)
EXTENDS Integers, Sequences

UINT32 == {v \in Nat : v \div 65536 < 65536}  \* two halves of 16 bits

(* write1bytes() ... write4bytes(): the low n bytes of v, high byte first   *)
ByteAt(v, unit) == (v \div unit) % 256
write1bytes(v) == <<ByteAt(v, 1)>>
write2bytes(v) == <<ByteAt(v, 256), ByteAt(v, 1)>>
write3bytes(v) == <<ByteAt(v, 65536), ByteAt(v, 256), ByteAt(v, 1)>>
write4bytes(v) == <<ByteAt(v, 16777216), ByteAt(v, 65536), ByteAt(v, 256), ByteAt(v, 1)>>

(* The prefix bits are or-ed into the bits above the value, which are zero *)
OrHigh(b, prefix) == [b EXCEPT ![1] = @ + prefix]

write_compressed(v) ==
  IF v < 128 THEN write1bytes(v)
  ELSE IF v < 16384 THEN OrHigh(write2bytes(v), 128)
  ELSE IF v < 2097152 THEN OrHigh(write3bytes(v), 192)
  ELSE IF v < 268435456 THEN OrHigh(write4bytes(v), 224)
  ELSE <<240, ByteAt(v, 16777216), ByteAt(v, 65536), ByteAt(v, 256), ByteAt(v, 1)>>

read4bytes(b, i) == b[i] * 16777216 + b[i+1] * 65536 + b[i+2] * 256 + b[i+3]

(* The mask of each form leaves the bits below its prefix *)
read_compressed(b) ==
  IF b[1] < 128 THEN b[1]
  ELSE IF b[1] < 192 THEN (b[1] * 256 + b[2]) % 16384
  ELSE IF b[1] < 224 THEN (b[1] * 65536 + b[2] * 256 + b[3]) % 2097152
  ELSE IF b[1] < 240 THEN (b[1] % 16) * 16777216 + b[2] * 65536 + b[3] * 256 + b[4]
  ELSE read4bytes(b, 2)

get_compressed_size(v) ==
  IF v < 128 THEN 1
  ELSE IF v < 16384 THEN 2
  ELSE IF v < 2097152 THEN 3
  ELSE IF v < 268435456 THEN 4
  ELSE 5
=============================================================================
