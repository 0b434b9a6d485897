---------------------------- MODULE CompactScript ----------------------------
(***************************************************************************)
(* One worker of the parallel `perf script --compact_format' and the parse  *)
(* job that reads its file: the decoder's branches pass the filters         *)
(* (BranchFilter), get symbol numbers from a cache, are written to the file *)
(* (CompactFile) and are read back into actions.  func_latency reads when   *)
(* perf has ended, and does not ask how the worker ended.                   *)
(***************************************************************************)
EXTENDS CompactFile, BranchFilter

CONSTANTS
  Params,      \* parameters of func_latency
  Branches,    \* what the decoder may find: [tid, type, from, to]
  Errors,      \* and its errors: [tid, code]
  MaxDecoded,  \* bound on both
  KeySpace,    \* 2^32: the keys of an auxtrace_cache are u32
  CacheLimit,  \* 409600 entries of the cache output_symbols
  MaxKilled,   \* the worker may be killed in its first MaxKilled events
  MaxStray     \* bound on what bytes that are no record are taken for

ASSUME ScriptAssumption ==
  /\ \A b \in Branches : b.tid \in Nat
  /\ \A e \in Errors : e.tid \in Nat
  /\ \A s \in Symbols : s.name \in DOMAIN NameLen
  /\ Unknown.name \in DOMAIN NameLen
  /\ \A s \in Symbols : s.start \in Nat /\ s.end \in Nat
  /\ \A a \in DOMAIN Code : Code[a].addr \in Nat
  /\ MaxStray \in Nat

LOST == 8  \* INTEL_PT_ERR_LOST, the error code of "Lost trace data"

(* symbols: the cache, [key -> sym_id]; cnt: its count; sym_id:             *)
(* global_sym_id; id: of the last look-up; gone: exit(1) was called;        *)
(* freed: an entry was used after the cache had been dropped                *)
VARIABLES
  param,    \* of this run
  now,      \* the number of events the decoder has found, the time of the next
  wanted,   \* the actions that the analysis should get for them
  perf,     \* the worker: [file, symbols, cnt, sym_id, id, gone, freed]
  phase,    \* "write", "read", "done", "crashed" (func_latency itself)
  broken,   \* the worker did not end as it should
  file,     \* the file that the parse job reads
  block, ptr,  \* its block, and the offset of the next byte
  m_vec,    \* SymbolMgr::m_vec
  actions,  \* added by init_action()
  off       \* history: something was read that perf did not mean

readVars == <<file, block, ptr, m_vec, actions, off>>
vars == <<param, now, wanted, perf, phase, broken, readVars>>

Init ==
  /\ param \in Params
  /\ now = 0 /\ wanted = <<>> /\ phase = "write" /\ broken = FALSE
  /\ perf = [file |-> NewFile, symbols |-> <<>>, cnt |-> 0, sym_id |-> 0,
             id |-> 0, gone |-> FALSE, freed |-> FALSE]
  /\ file = <<>> /\ block = 0 /\ ptr = 0 /\ m_vec = <<>> /\ actions = <<>> /\ off = FALSE

-----------------------------------------------------------------------------
(* perf: the handlers of a branch and of an error *)

(* auxtrace_cache__add(): at the limit the cache is dropped first *)
Full(w) == w.cnt + 1 > CacheLimit
CacheAdd(w, key, id) ==
  IF Full(w) THEN [k \in {key} |-> id]
  ELSE [k \in DOMAIN w.symbols \cup {key} |-> IF k = key THEN id ELSE w.symbols[k]]

(* A new symbol takes the next number, is cached and written *)
AddSymbol(w, sym) ==
  LET record == [type |-> "symbol", id |-> w.sym_id, addr |-> sym.addr,
                 offset |-> sym.offset, name |-> sym.name]
  IN  [w EXCEPT !.symbols = CacheAdd(w, sym.addr % KeySpace, w.sym_id),
                !.cnt = IF Full(w) THEN 0 ELSE @ + 1,
                !.id = w.sym_id,
                !.sym_id = @ + 1,
                !.gone = TooLong(sym.name),
                !.file = IF TooLong(sym.name) THEN @ ELSE Fwrite(@, record)]

Cached(w, sym) == sym.addr % KeySpace \in DOMAIN w.symbols
Lookup(w, sym) == [w EXCEPT !.id = w.symbols[sym.addr % KeySpace]]

(* output_symbols_lookup_and_add(); the key is the address, cut to 32 bits  *)
LookupAndAdd(w, sym) ==
  CASE w.gone -> w
    [] ~w.gone /\ Cached(w, sym) -> Lookup(w, sym)
    [] OTHER -> AddSymbol(w, sym)

(* exit(1) writes out what is in the buffer *)
Write(w) ==
  /\ perf' = w
  /\ broken' = w.gone
  /\ phase' = IF w.gone THEN "read" ELSE "write"
  /\ file' = IF w.gone THEN OnDisk(w.file, Len(w.file.buf)) ELSE file

(* perf_sample__fprint_compact().  The entry of the first symbol is freed   *)
(* when adding the second one drops the cache; its number is read after     *)
(* that: still there, or overwritten by another symbol's number or by one   *)
(* that no symbol has (Junk).  `stale' tells that the number is wrong; it   *)
(* is not in the file.                                                      *)
Junk == 2^28
BranchRecord(b, from, to, stale) ==
  [type |-> "branch", tid |-> b.tid, ts |-> b.ts, flag |-> b.type, from |-> from, to |-> to, stale |-> stale]

FprintCompact(b) ==
  \E w1 \in {LookupAndAdd(perf, Output(b.from))} :
  \E w2 \in {LookupAndAdd(w1, Output(b.to))} :
  LET freed == Full(w1) /\ w2.sym_id # w1.sym_id
  IN  \E from \in {w1.id} \cup (IF freed THEN 0..w2.sym_id - 1 \cup {Junk} ELSE {}) :
        Write(IF w2.gone THEN w2
              ELSE [w2 EXCEPT !.file = Fwrite(@, BranchRecord(b, from, w2.id, from # w1.id)),
                              !.freed = @ \/ freed])

Branch(b) ==
  LET found == [tid |-> b.tid, ts |-> now, type |-> b.type, from |-> b.from, to |-> b.to]
  IN  /\ phase = "write" /\ now < MaxDecoded
      /\ now' = now + 1
      /\ wanted' = IF Needed(param, found) THEN Append(wanted, ActionOf(found)) ELSE wanted
      /\ IF Printed(param, found) THEN FprintCompact(found)
         ELSE UNCHANGED <<perf, phase, broken, file>>
      /\ UNCHANGED <<param, block, ptr, m_vec, actions, off>>

(* perf_event__fprintf_auxtrace_error() *)
ErrorAction(tid, ts) == [tid |-> tid, ts |-> ts, type |-> "error"]

Error(e) ==
  LET record == [type |-> "error", tid |-> e.tid, ts |-> now, code |-> e.code]
  IN  /\ phase = "write" /\ now < MaxDecoded
      /\ now' = now + 1
      /\ wanted' = IF e.code = LOST THEN Append(wanted, ErrorAction(e.tid, now)) ELSE wanted
      /\ Write([perf EXCEPT !.file = Fwrite(@, record)])
      /\ UNCHANGED <<param, block, ptr, m_vec, actions, off>>

(* The worker ends: everything is written out *)
Close ==
  /\ phase = "write" /\ phase' = "read"
  /\ file' = OnDisk(perf.file, Len(perf.file.buf))
  /\ UNCHANGED <<param, now, wanted, perf, broken, block, ptr, m_vec, actions, off>>

(* The worker is killed: the bytes after some point never reach the file *)
Killed ==
  /\ now <= MaxKilled /\ phase = "write" /\ phase' = "read" /\ broken' = TRUE
  /\ \E k \in 0..Len(perf.file.buf) : file' = OnDisk(perf.file, k)
  /\ UNCHANGED <<param, now, wanted, perf, block, ptr, m_vec, actions, off>>

-----------------------------------------------------------------------------
(* func_latency: ParseJob::decode_to_actions() *)

AtRecord == ptr < BlockEnd(file, block) /\ file[ptr + 1] # Undefine

(* Mutant: a read that finds nothing does not end the loop *)
NextBlockForever ==
  /\ phase = "read" /\ ~AtRecord /\ (block + 1) * PT_FILE_BLOCK_SIZE < Len(file)
  /\ block' = block + 1 /\ ptr' = (block + 1) * PT_FILE_BLOCK_SIZE
  /\ UNCHANGED <<param, now, wanted, phase, perf, broken, file, m_vec, actions, off>>

(* The next block, from its first byte; with the last one the file is read *)
NextBlock ==
  /\ phase = "read" /\ ~AtRecord
  /\ block' = block + 1 /\ ptr' = (block + 1) * PT_FILE_BLOCK_SIZE
  /\ phase' = IF ptr' >= Len(file) THEN "done" ELSE "read"
  /\ UNCHANGED <<param, now, wanted, perf, broken, file, m_vec, actions, off>>

(* create_action_from_binary() and init_action() on the record at ptr.      *)
(* SymbolMgr::create() asserts that symbol numbers come in order.           *)
ReadSymbol(r) ==
  /\ r.type = "symbol" /\ r.id = Len(m_vec)
  /\ m_vec' = Append(m_vec, [name |-> r.name, addr |-> r.addr, offset |-> r.offset])
  /\ UNCHANGED actions

KnownIds(r) == Rvalue(r.from) < Len(m_vec) /\ Rvalue(r.to) < Len(m_vec)
ReadBranch(r) ==
  LET action == [tid |-> Rvalue(r.tid), ts |-> r.ts, type |-> r.flag,
                 from |-> m_vec[Rvalue(r.from) + 1], to |-> m_vec[Rvalue(r.to) + 1]]
  IN  /\ r.type = "branch" /\ KnownIds(r)
      /\ actions' = IF Added(param, action) THEN Append(actions, action) ELSE actions
      /\ UNCHANGED m_vec

ReadError(r) ==
  /\ r.type = "error"
  /\ actions' = IF r.code = LOST THEN Append(actions, ErrorAction(Rvalue(r.tid), r.ts))
                ELSE actions
  /\ UNCHANGED m_vec

(* A record that names the wrong symbol; where offsets wrapped, records are *)
(* out of order or overwritten as well                                      *)
Misnumbered(r) == r.type = "branch" /\ r.stale

Number == file[ptr + 1][1]
Record == perf.file.records[Number]

ReadRecord ==
  /\ phase = "read" /\ AtRecord /\ Whole(file, block, ptr, Number, Record)
  /\ ReadSymbol(Record) \/ ReadBranch(Record) \/ ReadError(Record)
  /\ ptr' = ptr + ReadSize(Record)
  /\ off' = (off \/ perf.file.wrapped \/ Misnumbered(Record))
  /\ UNCHANGED <<param, now, wanted, perf, phase, broken, file, block>>

(* Anything else is no record.  The reader does not notice: it takes these  *)
(* bytes, and those that an earlier block left in the buffer, for records,  *)
(* adds symbols and actions that perf never wrote, and goes on from any     *)
(* later place of the block; or it crashes, as it does when the assertion   *)
(* of SymbolMgr::create() fails.                                            *)
Stray == [tid |-> 0, ts |-> 0, type |-> "stray"]
StraySymbol == [name |-> "stray", addr |-> 0, offset |-> 0]
Strays(n, x) == [i \in 1..n |-> x]
Landings ==
  {q \in ptr + 1..BlockEnd(file, block) :
     q = BlockEnd(file, block) \/ file[q + 1] = Undefine \/ file[q + 1][2] = 1}

Garbled ==
  /\ phase = "read" /\ AtRecord
  /\ \/ ~Whole(file, block, ptr, Number, Record)
     \/ Record.type = "symbol" /\ Record.id # Len(m_vec)
     \/ Record.type = "branch" /\ ~KnownIds(Record)
  /\ off' = TRUE
  /\ \/ phase' = "crashed" /\ UNCHANGED <<ptr, m_vec, actions>>
     \/ /\ ~(Whole(file, block, ptr, Number, Record) /\ Record.type = "symbol")
        /\ \E m, n \in 0..MaxStray :
             m_vec' = m_vec \o Strays(m, StraySymbol) /\ actions' = actions \o Strays(n, Stray)
        /\ ptr' \in Landings
        /\ UNCHANGED phase
  /\ UNCHANGED <<param, now, wanted, perf, broken, file, block>>

-----------------------------------------------------------------------------
Read == NextBlock \/ ReadRecord \/ Garbled
Next == (\E b \in Branches : Branch(b)) \/ (\E e \in Errors : Error(e)) \/ Close \/ Killed \/ Read
Spec == Init /\ [][Next]_vars /\ WF_vars(Read)

-----------------------------------------------------------------------------
(* What the code takes for granted of the program and of the recording.     *)

(* The low 32 bits of an address tell the printed symbols apart, so that a  *)
(* look-up in the cache finds the symbol it is for                          *)
Syms == {Output(b.from) : b \in Branches} \cup {Output(b.to) : b \in Branches}
KeysTell == \A s, t \in Syms : s.addr % KeySpace = t.addr % KeySpace => s = t

(* Threads have 32-bit numbers; symbols have numbers of at most 28 bits *)
NumbersFit ==
  /\ \A b \in Branches : b.tid \in UINT32
  /\ \A e \in Errors : e.tid \in UINT32
  /\ MaxDecoded \in Nat /\ 2 * MaxDecoded <= Junk

(* The filters look for the functions of the analysis where they are: all   *)
(* symbols of the target and of the ancestor are among those of --binary    *)
(* that the filter by address takes, the schedule function is in the kernel *)
(* and returns to it, and where the dlfilter is used the ancestor and the   *)
(* schedule function do not call themselves.                                *)
ScheduleNames == {"__schedule", "__sched_text_start"}
FiltersMatch(p) ==
  /\ p.target # "" /\ Unknown.name \notin {p.target, p.ancestor}
  /\ \A s \in Symbols : s.name \in func_filter(p) => s \in fil_syms(p)
  /\ \A s \in Symbols : s.name \in ScheduleNames => s.dso = Kernel
  /\ \A b \in Branches : is_schedule_func(b.from) /\ b.type \in {"return", "tr end return"}
       => b.to \in DOMAIN Code /\ Code[b.to].dso = Kernel
  /\ p.dlfilter => \A b \in Branches :
       Name(b.from) = Name(b.to) /\ Name(b.to) \in (ScheduleNames \cup {p.ancestor}) \ {p.target}
       => b.type \notin {"call", "tr strt", "return", "tr end return"}

Assumed == NamesFit /\ KeysTell /\ NumbersFit /\ \A p \in Params : FiltersMatch(p)

-----------------------------------------------------------------------------
Faulty == broken \/ perf.freed \/ perf.file.wrapped

(* What of the stream of branches the analysis is at.  A crash after a      *)
(* fault ends the stream there; without one, "crashed" is none of the modes *)
(* of a BranchStream, and the refinement would fail.                        *)
Mode == CASE phase = "write" -> "tracing"
          [] phase = "read"  -> IF off THEN "stray" ELSE IF Faulty THEN "broken" ELSE "intact"
          [] phase = "crashed" /\ ~Faulty -> "crashed"
          [] OTHER           -> "done"

Stream == INSTANCE BranchStream WITH seen <- actions, mode <- Mode

(* The pipeline of filters, symbol numbers, blocks and compressed integers  *)
(* gives the analysis exactly the branches it needs, in their order.        *)
(* Without a fault the parse job meets only whole records, and the symbol   *)
(* numbers in order.  After a fault (the worker was killed or gave up, or   *)
(* used a freed number) what it gets is exact up to the first torn record   *)
(* or wrong number; only from there on, and in a file whose offsets         *)
(* wrapped, it may be anything.                                             *)
StreamImplemented == Stream!Stream

(* Without a fault, all of them arrive *)
AllArrive == (phase = "read" /\ ~Faulty) ~> (phase = "done" /\ actions = wanted)

(* The records lie in the order they were written, each in one block, and   *)
(* each begins where the walk over its block gets to: at the first byte of  *)
(* a block or right behind the record before it; the walk leaves a block    *)
(* early only at an UNDEFINE byte.                                          *)
WellPlaced == ~perf.file.wrapped => PlacedWell(perf.file)
=============================================================================
