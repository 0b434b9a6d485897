------------------------- MODULE CompactScriptProofs -------------------------
(***************************************************************************)
(* Theorems about the compact script: the records are well placed, and the  *)
(* pipeline implements BranchStream: the analysis gets exactly the actions  *)
(* it needs, in their order, and after a fault an exact first part of them. *)
(*                                                                          *)
(* The invariant ties the file to what its records mean: there are the      *)
(* symbols V in the order of their numbers and, for every record i, the     *)
(* number c[i] of symbols and d[i] of wanted actions that the parse job     *)
(* knows when it has read it (Hist).  While perf writes, Worker says so of  *)
(* all its records and of its cache; while the parse job reads, ReadAt says *)
(* that it stands behind some record n and has got V up to c[n] and wanted  *)
(* up to d[n].                                                              *)
(***************************************************************************)
EXTENDS CompactScript, CompactFileProofs

-----------------------------------------------------------------------------
(* The worker, between two of its steps *)
WorkerFields == {"file", "symbols", "cnt", "sym_id", "id", "gone", "freed"}

(* What perf_sample__fprint_compact() writes once the two names are looked up *)
Wrote(b, w1, w2) ==
  LET freed == Full(w1) /\ w2.sym_id # w1.sym_id
  IN  \E from \in {w1.id} \cup (IF freed THEN 0..w2.sym_id - 1 \cup {Junk} ELSE {}) :
        Write(IF w2.gone THEN w2
              ELSE [w2 EXCEPT !.file = Fwrite(@, BranchRecord(b, from, w2.id, from # w1.id)),
                              !.freed = @ \/ freed])

WorkerOK(w) ==
  /\ DOMAIN w = WorkerFields
  /\ w.sym_id \in Nat /\ w.id \in Nat
  /\ \A k \in DOMAIN w.symbols : w.symbols[k] \in Nat
  /\ FileOK(w.file)

(* What is printed for an address has a name of known length *)
LEMMA OutputNamed ==
  ASSUME NEW a
  PROVE  Output(a).name \in DOMAIN NameLen
<1>1. CASE HasSymbol(a)
  <2>1. SymbolOf(a) \in Symbols
    BY Zenon, <1>1 DEF HasSymbol, SymbolOf, Covering
  <2>2. Output(a).name = SymbolOf(a).name
    BY SMT, <1>1 DEF Output
  <2> QED
    BY Zenon, <2>1, <2>2, ScriptAssumption
<1>2. CASE ~HasSymbol(a)
  <2>1. Output(a) = Unknown
    BY Zenon, <1>2 DEF Output
  <2> QED
    BY Zenon, <2>1, ScriptAssumption
<1> QED
  BY Zenon, <1>1, <1>2

-----------------------------------------------------------------------------
(* Whatever branches and errors perf decodes, and whenever it is stopped,    *)
(* every record it has written lies in one block, right behind the one       *)
(* before it or at the start of the next block behind an UNDEFINE byte, as   *)
(* long as the offsets fit into 32 bits.                                     *)
THEOREM RecordsWellPlaced ==
  ASSUME NamesFit
  PROVE  Spec => []WellPlaced
(* output_symbols_lookup_and_add() keeps the worker as it should be *)
<1>LookupOK. ASSUME NamesFit, NEW w, WorkerOK(w), NEW sym, sym.name \in DOMAIN NameLen
             PROVE  WorkerOK(LookupAndAdd(w, sym))
  <2>. USE <1>LookupOK
  <2> DEFINE key == sym.addr % KeySpace
  <2>1. CASE w.gone
    BY Zenon, <2>1 DEF LookupAndAdd
  <2>2. CASE ~w.gone /\ Cached(w, sym)
    <3>1. LookupAndAdd(w, sym) = [w EXCEPT !.id = w.symbols[key]]
      BY SMT, <2>2 DEF LookupAndAdd, Lookup
    <3>2. w.symbols[key] \in Nat
      BY Zenon, <2>2 DEF Cached, WorkerOK
    <3> HIDE DEF key
    <3> DEFINE v == LookupAndAdd(w, sym)
    <3>3. /\ DOMAIN v = WorkerFields
          /\ v.sym_id = w.sym_id /\ v.id = w.symbols[key]
          /\ v.symbols = w.symbols /\ v.file = w.file
      BY SMT, <3>1 DEF WorkerOK, WorkerFields
    <3> HIDE DEF v
    <3>4. WorkerOK(v)
      BY Zenon, <3>2, <3>3 DEF WorkerOK
    <3> QED
      BY Zenon, <3>4 DEF v
  <2>3. CASE ~w.gone /\ ~Cached(w, sym)
    <3> DEFINE record == [type |-> "symbol", id |-> w.sym_id, addr |-> sym.addr,
                          offset |-> sym.offset, name |-> sym.name]
               file2 == IF TooLong(sym.name) THEN w.file ELSE Fwrite(w.file, record)
               symbols2 == CacheAdd(w, key, w.sym_id)
               cnt2 == IF Full(w) THEN 0 ELSE w.cnt + 1
    <3>1. LookupAndAdd(w, sym)
            = [w EXCEPT !.symbols = symbols2, !.cnt = cnt2, !.id = w.sym_id,
                        !.sym_id = w.sym_id + 1, !.gone = TooLong(sym.name), !.file = file2]
      BY SMT, <2>3 DEF LookupAndAdd, AddSymbol
    <3>2. FileOK(file2)
      <4>1. CASE TooLong(sym.name)
        BY Zenon, <4>1 DEF WorkerOK
      <4>2. CASE ~TooLong(sym.name)
        <5>1. Writable(record)
          BY SMT, <4>2 DEF Writable
        <5>2. FileOK(w.file)
          BY Zenon DEF WorkerOK
        <5> HIDE DEF record
        <5> QED
          BY Zenon, <4>2, <5>1, <5>2, FwriteOK
      <4> QED
        BY Zenon, <4>1, <4>2
    <3>3. \A k \in DOMAIN symbols2 : symbols2[k] \in Nat
      BY SMT DEF WorkerOK, CacheAdd
    <3> HIDE DEF file2, symbols2, cnt2
    <3> DEFINE v == LookupAndAdd(w, sym)
    <3>4. /\ DOMAIN v = WorkerFields
          /\ v.sym_id = w.sym_id + 1 /\ v.id = w.sym_id
          /\ v.symbols = symbols2 /\ v.file = file2
      BY SMT, <3>1 DEF WorkerOK, WorkerFields
    <3>5. w.sym_id \in Nat /\ w.sym_id + 1 \in Nat
      BY SMT DEF WorkerOK
    <3> HIDE DEF v
    <3>6. WorkerOK(v)
      BY Zenon, <3>2, <3>3, <3>4, <3>5 DEF WorkerOK
    <3> QED
      BY Zenon, <3>6 DEF v
  <2> QED
    BY Zenon, <2>1, <2>2, <2>3
(* Appending a record keeps the worker as it should be *)
<1>AppendOK. ASSUME NamesFit, NEW w, WorkerOK(w), NEW r, Writable(r), NEW x
             PROVE  /\ WorkerOK([w EXCEPT !.file = Fwrite(@, r)])
                    /\ WorkerOK([w EXCEPT !.file = Fwrite(@, r), !.freed = x])
  <2>. USE <1>AppendOK
  <2> DEFINE v == [w EXCEPT !.file = Fwrite(@, r)]
             u == [w EXCEPT !.file = Fwrite(@, r), !.freed = x]
  <2>1. FileOK(Fwrite(w.file, r))
    BY Zenon, FwriteOK DEF WorkerOK
  <2>2. /\ DOMAIN v = WorkerFields
        /\ v.sym_id = w.sym_id /\ v.id = w.id /\ v.symbols = w.symbols /\ v.file = Fwrite(w.file, r)
    BY SMT DEF WorkerOK, WorkerFields
  <2>3. /\ DOMAIN u = WorkerFields
        /\ u.sym_id = w.sym_id /\ u.id = w.id /\ u.symbols = w.symbols /\ u.file = Fwrite(w.file, r)
    BY SMT DEF WorkerOK, WorkerFields
  <2> HIDE DEF v, u
  <2>4. WorkerOK(v) /\ WorkerOK(u)
    BY Zenon, <2>1, <2>2, <2>3 DEF WorkerOK
  <2> QED
    BY Zenon, <2>4 DEF v, u
(* A step leaves the worker alone or makes it one that is as it should be *)
<1>StepOK. ASSUME NamesFit, WorkerOK(perf), [Next]_vars
           PROVE  WorkerOK(perf')
  <2>. USE <1>StepOK
  <2>1. ASSUME NEW b \in Branches, Branch(b)
        PROVE  WorkerOK(perf')
    <3> DEFINE found == [tid |-> b.tid, ts |-> now, type |-> b.type, from |-> b.from, to |-> b.to]
    <3>1. CASE Printed(param, found)
      <4>1. FprintCompact(found)
        BY Zenon, <2>1, <3>1 DEF Branch
      <4> HIDE DEF found
      <4> DEFINE w1 == LookupAndAdd(perf, Output(found.from))
                 w2 == LookupAndAdd(w1, Output(found.to))
      <4>2. WorkerOK(w1)
        BY Zenon, <1>LookupOK, OutputNamed
      <4>3. WorkerOK(w2)
        <5> HIDE DEF w1
        <5> QED
          BY Zenon, <4>2, <1>LookupOK, OutputNamed
      <4> HIDE DEF w1, w2
      <4>4. PICK from \in {w1.id} \cup 0..w2.sym_id - 1 \cup {Junk}, freed \in BOOLEAN :
              perf' = IF w2.gone THEN w2
                      ELSE [w2 EXCEPT !.file = Fwrite(@, BranchRecord(found, from, w2.id, from # w1.id)),
                                      !.freed = @ \/ freed]
        <5> DEFINE freed == Full(w1) /\ w2.sym_id # w1.sym_id
        <5>1. \E from \in {w1.id} \cup (IF freed THEN 0..w2.sym_id - 1 \cup {Junk} ELSE {}) :
                perf' = IF w2.gone THEN w2
                        ELSE [w2 EXCEPT !.file = Fwrite(@, BranchRecord(found, from, w2.id, from # w1.id)),
                                        !.freed = @ \/ freed]
          <6>1. \E a \in {LookupAndAdd(perf, Output(found.from))} :
                \E c \in {LookupAndAdd(a, Output(found.to))} : Wrote(found, a, c)
            BY Zenon, <4>1 DEF FprintCompact, Wrote
          <6>2. \E c \in {LookupAndAdd(w1, Output(found.to))} : Wrote(found, w1, c)
            BY Zenon, <6>1 DEF w1
          <6>3. Wrote(found, w1, w2)
            BY Zenon, <6>2 DEF w2
          <6> QED
            BY Zenon, <6>3 DEF Wrote, Write
        <5>2. freed \in BOOLEAN
          BY Zenon
        <5> HIDE DEF freed
        <5> QED
          BY Zenon, <5>1, <5>2
      <4>5. CASE w2.gone
        BY Zenon, <4>3, <4>4, <4>5
      <4>6. CASE ~w2.gone
        <5> DEFINE record == BranchRecord(found, from, w2.id, from # w1.id)
        <5>1. b.tid \in Nat
          BY Zenon, ScriptAssumption
        <5>2. from \in Nat /\ w2.id \in Nat
          <6>1. Junk \in Nat
            BY SMT DEF Junk
          <6>2. w1.id \in Nat /\ w2.id \in Nat /\ w2.sym_id \in Nat
            BY Zenon, <4>2, <4>3 DEF WorkerOK
          <6> QED
            BY SMT, <6>1, <6>2
        <5>3. Writable(record)
          BY SMT, <5>1, <5>2 DEF Writable, BranchRecord, found
        <5> HIDE DEF record
        <5>4. WorkerOK([w2 EXCEPT !.file = Fwrite(@, record), !.freed = @ \/ freed])
          BY Zenon, <4>3, <5>3, <1>AppendOK
        <5> QED
          BY Zenon, <4>4, <4>6, <5>4 DEF record
      <4> QED
        BY Zenon, <4>5, <4>6
    <3>2. CASE ~Printed(param, found)
      <4>1. perf' = perf
        BY Zenon, <2>1, <3>2 DEF Branch
      <4> QED
        BY Zenon, <4>1
    <3> QED
      BY Zenon, <3>1, <3>2
  <2>2. ASSUME NEW e \in Errors, Error(e)
        PROVE  WorkerOK(perf')
    <3> DEFINE record == [type |-> "error", tid |-> e.tid, ts |-> now, code |-> e.code]
    <3>1. perf' = [perf EXCEPT !.file = Fwrite(@, record)]
      BY Zenon, <2>2 DEF Error, Write
    <3>2. e.tid \in Nat
      BY Zenon, ScriptAssumption
    <3>3. Writable(record)
      BY SMT, <3>2 DEF Writable
    <3> HIDE DEF record
    <3> QED
      BY Zenon, <3>1, <3>3, <1>AppendOK
  <2>3. CASE Close \/ Killed \/ Read \/ UNCHANGED vars
    <3>1. perf' = perf
      BY SMT, <2>3 DEF Close, Killed, Read, NextBlock, ReadRecord, Garbled, vars
    <3> QED
      BY Zenon, <3>1
  <2> QED
    BY Zenon, <2>1, <2>2, <2>3 DEF Next
<1>1. Init => WorkerOK(perf)
  <2> SUFFICES ASSUME Init PROVE WorkerOK(perf)
    BY Zenon
  <2>1. /\ DOMAIN perf = WorkerFields /\ perf.sym_id = 0 /\ perf.id = 0
        /\ perf.symbols = <<>> /\ perf.file = NewFile
    BY SMT DEF Init, WorkerFields
  <2>2. FileOK(NewFile)
    BY SMT DEF FileOK, NewFile, PlacedWell
  <2> QED
    BY SMT, <2>1, <2>2 DEF WorkerOK
<1>2. WorkerOK(perf) /\ [Next]_vars => WorkerOK(perf')
  BY Zenon, <1>StepOK
<1>3. WorkerOK(perf) => WellPlaced
  BY Zenon DEF WorkerOK, FileOK, WellPlaced
<1> QED
  <2> DEFINE OK == WorkerOK(perf)
  <2>1. Init => OK
    BY Zenon, <1>1
  <2>2. OK /\ [Next]_vars => OK'
    BY Zenon, <1>2
  <2>3. OK => WellPlaced
    BY Zenon, <1>3
  <2> HIDE DEF OK
  <2> QED
    BY <2>1, <2>2, <2>3, PTL DEF Spec

-----------------------------------------------------------------------------
IsSeq(s) == \E S : s \in Seq(S)

(* A sequence and one more element *)
LEMMA SeqAppend ==
  ASSUME NEW s, IsSeq(s), NEW e
  PROVE  /\ Len(s) \in Nat /\ IsSeq(Append(s, e)) /\ Len(Append(s, e)) = Len(s) + 1
         /\ Append(s, e)[Len(s) + 1] = e /\ \A i \in 1..Len(s) : Append(s, e)[i] = s[i]
<1>1. PICK S : s \in Seq(S)
  BY Zenon DEF IsSeq
<1>2. PICK T : T = S \cup {e}
  BY Zenon
<1>3. s \in Seq(T) /\ e \in T
  BY <1>1, <1>2
<1>4. Append(s, e) \in Seq(T)
  BY <1>3
<1>5. /\ Len(s) \in Nat /\ Len(Append(s, e)) = Len(s) + 1
      /\ Append(s, e)[Len(s) + 1] = e /\ \A i \in 1..Len(s) : Append(s, e)[i] = s[i]
  BY <1>3
<1>. QED
  BY <1>4, <1>5, Zenon DEF IsSeq

(* Sequences of the same elements are the same *)
LEMMA SeqEqual ==
  ASSUME NEW s, IsSeq(s), NEW t, IsSeq(t), Len(s) = Len(t), \A i \in 1..Len(s) : s[i] = t[i]
  PROVE  s = t
<1>1. PICK S : s \in Seq(S)
  BY Zenon DEF IsSeq
<1>2. PICK T : t \in Seq(T)
  BY Zenon DEF IsSeq
<1>3. PICK U : U = S \cup T
  BY Zenon
<1>4. s \in Seq(U) /\ t \in Seq(U)
  BY <1>1, <1>2, <1>3
<1>5. PICK n \in Nat : n = Len(s)
  BY <1>4
<1>6. s \in [1..n -> U] /\ t \in [1..n -> U]
  BY <1>4, <1>5
<1>. QED
  BY <1>5, <1>6

(* A sequence is the first part of a longer one *)
LEMMA SeqPrefix ==
  ASSUME NEW s, IsSeq(s), NEW a, IsSeq(a), Len(s) <= Len(a), \A i \in 1..Len(s) : a[i] = s[i]
  PROVE  SubSeq(a, 1, Len(s)) = s
<1>1. Len(s) \in Nat /\ Len(a) \in Nat
  BY SeqAppend, Zenon
<1>3. PICK S : a \in Seq(S)
  BY Zenon DEF IsSeq
<1>4. PICK n \in Nat : n = Len(s)
  BY <1>1, Zenon
<1>5. n <= Len(a)
  BY <1>4, Zenon
<1>6. /\ SubSeq(a, 1, n) \in Seq(S) /\ Len(SubSeq(a, 1, n)) = n + 1 - 1
      /\ \A i \in 1..(n + 1 - 1) : SubSeq(a, 1, n)[i] = a[1 + i - 1]
  BY <1>3, <1>5, SubSeqAt
<1>7. PICK b : b = SubSeq(a, 1, n)
  BY Zenon
<1>8. IsSeq(b) /\ Len(b) = n /\ \A i \in 1..n : b[i] = s[i]
  <2>1. b \in Seq(S) /\ n + 1 - 1 = n /\ Len(b) = n
    BY <1>6, <1>7
  <2>2. ASSUME NEW i \in 1..n PROVE b[i] = s[i]
    <3>1. 1 + i - 1 = i
      OBVIOUS
    <3>2. b[i] = a[i]
      BY <1>6, <1>7, <2>1, <3>1, Zenon
    <3>. QED
      BY <1>4, <3>2, Zenon
  <2>. QED
    BY <2>1, <2>2, Zenon DEF IsSeq
<1>9. b = s
  BY <1>4, <1>8, SeqEqual
<1>. QED
  BY <1>4, <1>7, <1>9, Zenon

(* An appended element leaves what was there *)
LEMMA SeqExtends ==
  ASSUME NEW s, IsSeq(s), NEW e
  PROVE  SubSeq(Append(s, e), 1, Len(s)) = s
<1>1. PICK a : a = Append(s, e)
  BY Zenon
<1>2. IsSeq(a) /\ Len(s) \in Nat /\ Len(a) = Len(s) + 1 /\ \A i \in 1..Len(s) : a[i] = s[i]
  BY <1>1, SeqAppend
<1>3. Len(s) <= Len(a)
  BY <1>2
<1>. QED
  BY <1>1, <1>2, <1>3, SeqPrefix, Zenon

LEMMA ConcatIs ==
  ASSUME NEW T, NEW s \in Seq(T), NEW t \in Seq(T)
  PROVE  /\ s \o t \in Seq(T) /\ Len(s \o t) = Len(s) + Len(t) /\ Len(s) \in Nat
         /\ \A i \in 1..Len(s) : (s \o t)[i] = s[i]
<1>1. s \o t \in Seq(T)
  OBVIOUS
<1>2. Len(s \o t) = Len(s) + Len(t)
  OBVIOUS
<1>3. Len(s) \in Nat /\ \A i \in 1..Len(s) : (s \o t)[i] = s[i]
  OBVIOUS
<1>. QED
  BY <1>1, <1>2, <1>3, Zenon

(* So does anything put behind it *)
LEMMA SeqStrays ==
  ASSUME NEW s, IsSeq(s), NEW n \in Nat, NEW x
  PROVE  LET a == s \o Strays(n, x)
         IN  IsSeq(a) /\ Len(a) >= Len(s) /\ SubSeq(a, 1, Len(s)) = s
<1>1. PICK S : s \in Seq(S)
  BY Zenon DEF IsSeq
<1>2. PICK T, t : T = S \cup {x} /\ t = Strays(n, x)
  BY Zenon
<1>3. s \in Seq(T)
  BY <1>1, <1>2
<1>4. t \in Seq(T) /\ Len(t) = n
  BY <1>2 DEF Strays
<1>5. PICK a : a = s \o t
  BY Zenon
<1>6. a \in Seq(T) /\ Len(a) = Len(s) + n /\ \A i \in 1..Len(s) : a[i] = s[i]
  BY <1>3, <1>4, <1>5, ConcatIs, Zenon
<1>7. IsSeq(a) /\ Len(s) <= Len(a) /\ Len(a) >= Len(s)
  BY <1>3, <1>6 DEF IsSeq
<1>8. SubSeq(a, 1, Len(s)) = s
  BY <1>6, <1>7, SeqPrefix, Zenon
<1>. QED
  BY <1>2, <1>5, <1>7, <1>8, Zenon

(* The number that stands for overwritten memory *)
LEMMA JunkIs == Junk = 268435456
BY DEF Junk

-----------------------------------------------------------------------------
(* What the records mean to the parse job.  V are the symbols in the order  *)
(* of their numbers; when record i is read, c[i] of them and d[i] of the    *)
(* wanted actions are known.                                                *)
SymbolIn(r) == [name |-> r.name, addr |-> r.addr, offset |-> r.offset]
ActionIn(r, V) == [tid |-> r.tid, ts |-> r.ts, type |-> r.flag, from |-> V[r.from + 1], to |-> V[r.to + 1]]

(* One more of the wanted actions is known, this one *)
Step(want, d0, d1, action) == d1 = d0 + 1 /\ want[d1] = action

SymbolMeans(r, c0, c1, d0, d1, V) ==
  r.type = "symbol" /\ r.id = c0 /\ c1 = c0 + 1 /\ d1 = d0 /\ V[c1] = SymbolIn(r)
BranchMeans(r, c0, c1, d0, d1, V, want, p, freed) ==
  /\ r.type = "branch" /\ c1 = c0 /\ r.to < c0
  /\ \/ /\ r.stale = FALSE /\ r.from < c0
        /\ Added(p, ActionIn(r, V)) => Step(want, d0, d1, ActionIn(r, V))
        /\ ~Added(p, ActionIn(r, V)) => d1 = d0
     \/ r.stale = TRUE /\ freed = TRUE
ErrorMeans(r, c0, c1, d0, d1, want) ==
  /\ r.type = "error" /\ c1 = c0
  /\ r.code = LOST => Step(want, d0, d1, ErrorAction(r.tid, r.ts))
  /\ r.code # LOST => d1 = d0

Means(r, c0, c1, d0, d1, V, want, p, freed) ==
  /\ Numbered(r)
  /\ \/ SymbolMeans(r, c0, c1, d0, d1, V)
     \/ BranchMeans(r, c0, c1, d0, d1, V, want, p, freed)
     \/ ErrorMeans(r, c0, c1, d0, d1, want)

(* The records of f mean the symbols V and the wanted actions *)
Hist(f, V, c, d, want, p, freed) ==
  LET N == Len(f.placed)
  IN  /\ IsSeq(V) /\ IsSeq(want) /\ N \in Nat
      /\ \A j \in 1..Len(V) : V[j] \in Syms
      /\ c \in [0..N -> Nat] /\ d \in [0..N -> Nat] /\ c[0] = 0 /\ d[0] = 0 /\ c[N] = Len(V)
      /\ \A i \in 0..N : c[i] <= Len(V) /\ d[i] <= Len(want)
      /\ \A i \in 1..N : Means(f.records[i], c[i - 1], c[i], d[i - 1], d[i], V, want, p, freed)

(* W begins with V *)
Extends(V, W) == IsSeq(W) /\ Len(V) <= Len(W) /\ \A j \in 1..Len(V) : W[j] = V[j]

(* A fault does not go away *)
Still(freed, freed2) == freed = TRUE => freed2 = TRUE
SymsOnly(V) == \A j \in 1..Len(V) : V[j] \in Syms

(* More symbols and more wanted actions do not change what a record means *)
LEMMA MeansStill ==
  ASSUME NEW r, NEW c0 \in Nat, NEW c1 \in Nat, NEW d0 \in Nat, NEW d1 \in Nat, NEW V, NEW W, NEW want, NEW more,
         NEW p, NEW freed, NEW freed2, Still(freed, freed2),
         Means(r, c0, c1, d0, d1, V, want, p, freed),
         IsSeq(V), IsSeq(want), c0 <= Len(V), c1 <= Len(V), d1 <= Len(want),
         \A j \in 1..Len(V) : W[j] = V[j], \A j \in 1..Len(want) : more[j] = want[j]
  PROVE  Means(r, c0, c1, d0, d1, W, more, p, freed2)
<1>1. PICK L \in Nat, M \in Nat : L = Len(V) /\ M = Len(want)
  BY SeqAppend, Zenon
<1>2. ASSUME NEW a, Step(want, d0, d1, a) PROVE Step(more, d0, d1, a)
  <2>1. d1 \in 1..Len(want)
    BY <1>1, <1>2 DEF Step
  <2>. QED
    BY <1>2, <2>1, Zenon DEF Step
<1>3. CASE SymbolMeans(r, c0, c1, d0, d1, V)
  <2>1. c1 \in 1..Len(V)
    BY <1>1, <1>3 DEF SymbolMeans
  <2>2. SymbolMeans(r, c0, c1, d0, d1, W)
    BY <1>3, <2>1, Zenon DEF SymbolMeans
  <2>. QED
    BY <2>2, Zenon DEF Means
<1>4. CASE BranchMeans(r, c0, c1, d0, d1, V, want, p, freed)
  <2>1. CASE /\ r.stale = FALSE /\ r.from < c0
             /\ Added(p, ActionIn(r, V)) => Step(want, d0, d1, ActionIn(r, V))
             /\ ~Added(p, ActionIn(r, V)) => d1 = d0
    <3>1. r.from \in Nat /\ r.to \in Nat
      BY <1>4 DEF BranchMeans, Means, Numbered, UINT32
    <3>2. r.from + 1 \in 1..L /\ r.to + 1 \in 1..L
      <4>1. r.to < c0 /\ r.from < c0 /\ c0 <= L /\ c0 \in Nat /\ L \in Nat
        BY <1>1, <1>4, <2>1, Zenon DEF BranchMeans
      <4>2. PICK x \in Nat, y \in Nat : x = r.from /\ y = r.to /\ x < c0 /\ y < c0
        BY <3>1, <4>1, Zenon
      <4>3. x + 1 \in 1..L /\ y + 1 \in 1..L
        BY <4>1, <4>2
      <4>. QED
        BY <4>2, <4>3, Zenon
    <3>3. PICK a : a = ActionIn(r, V) /\ a = ActionIn(r, W)
      BY <1>1, <3>2, Zenon DEF ActionIn
    <3>4. Step(want, d0, d1, a) => Step(more, d0, d1, a)
      BY <1>2, Zenon
    <3>5. BranchMeans(r, c0, c1, d0, d1, W, more, p, freed2)
      BY <1>4, <2>1, <3>3, <3>4, Zenon DEF BranchMeans
    <3>. QED
      BY <3>5 DEF Means
  <2>2. CASE r.stale = TRUE /\ freed = TRUE
    <3>1. BranchMeans(r, c0, c1, d0, d1, W, more, p, freed2)
      BY <1>4, <2>2, Zenon DEF BranchMeans, Still
    <3>. QED
      BY <3>1 DEF Means
  <2>. QED
    BY <1>4, <2>1, <2>2, Zenon DEF BranchMeans
<1>5. CASE ErrorMeans(r, c0, c1, d0, d1, want)
  <2>1. ErrorMeans(r, c0, c1, d0, d1, more)
    BY <1>2, <1>5, Zenon DEF ErrorMeans
  <2>. QED
    BY <2>1, Zenon DEF Means
<1>. QED
  BY <1>3, <1>4, <1>5, Zenon DEF Means

(* When all records are read, n of the wanted actions are known *)
Known(f, d, n) == d[Len(f.placed)] = n

(* The history goes on with a record *)
Adds(r, V, W, want, more, d0, d1, p, freed, freed2) ==
  /\ Extends(V, W) /\ SymsOnly(W) /\ Extends(want, more) /\ Still(freed, freed2)
  /\ d1 \in Nat /\ d1 <= Len(more) /\ Means(r, Len(V), Len(W), d0, d1, W, more, p, freed2)

(* A record that goes on with the history makes one of all records *)
GoesOn(f, g, V, c, d, want, p, freed, r, at, W, more, freed2, d0, d1) ==
  /\ Hist(f, V, c, d, want, p, freed) /\ Known(f, d, d0) /\ Joined(f, g, r, at)
  /\ Adds(r, V, W, want, more, d0, d1, p, freed, freed2)

LEMMA HistGoesOn ==
  ASSUME NEW f, NEW g, NEW V, NEW c, NEW d, NEW want, NEW p, NEW freed,
         NEW r, NEW at, NEW W, NEW more, NEW freed2, NEW d0, NEW d1,
         GoesOn(f, g, V, c, d, want, p, freed, r, at, W, more, freed2, d0, d1)
  PROVE  \E c2, d2 : Hist(g, W, c2, d2, more, p, freed2) /\ Known(g, d2, d1)
<1>0. /\ Hist(f, V, c, d, want, p, freed) /\ Known(f, d, d0) /\ Joined(f, g, r, at)
      /\ Adds(r, V, W, want, more, d0, d1, p, freed, freed2)
  BY Zenon DEF GoesOn
<1>. USE <1>0
<1>1. PICK N \in Nat : N = Len(f.placed)
  BY Zenon DEF Hist
<1>2. /\ c \in [0..N -> Nat] /\ d \in [0..N -> Nat] /\ c[0] = 0 /\ d[0] = 0 /\ c[N] = Len(V)
      /\ \A i \in 0..N : c[i] <= Len(V) /\ d[i] <= Len(want)
      /\ \A i \in 1..N : Means(f.records[i], c[i - 1], c[i], d[i - 1], d[i], V, want, p, freed)
      /\ IsSeq(V) /\ IsSeq(want)
  BY <1>1, Zenon DEF Hist
<1>3. /\ Len(V) \in Nat /\ Len(want) \in Nat /\ Len(W) \in Nat /\ Len(more) \in Nat
      /\ Len(V) <= Len(W) /\ Len(want) <= Len(more)
  BY <1>2, SeqAppend, Zenon DEF Extends, Adds
<1>4. PICK c2 : c2 = [i \in 0..(N + 1) |-> IF i = N + 1 THEN Len(W) ELSE c[i]]
  BY Zenon
<1>5. PICK d2 : d2 = [i \in 0..(N + 1) |-> IF i = N + 1 THEN d1 ELSE d[i]]
  BY Zenon
<1>6. /\ c2 \in [0..(N + 1) -> Nat] /\ d2 \in [0..(N + 1) -> Nat] /\ c2[N + 1] = Len(W) /\ d2[N + 1] = d1
      /\ \A i \in 0..N : c2[i] = c[i] /\ d2[i] = d[i]
  BY <1>2, <1>3, <1>4, <1>5 DEF Adds
<1>7. /\ Len(g.placed) = N + 1 /\ g.records[N + 1] = r /\ \A i \in 1..N : g.records[i] = f.records[i]
  BY <1>1, Zenon DEF Joined
<1>8. \A i \in 0..(N + 1) : c2[i] <= Len(W) /\ d2[i] <= Len(more)
  <2>. TAKE i \in 0..(N + 1)
  <2>1. CASE i = N + 1
    BY <1>3, <1>6, <2>1 DEF Adds
  <2>2. CASE i \in 0..N
    <3>1. c2[i] = c[i] /\ d2[i] = d[i] /\ c[i] \in Nat /\ d[i] \in Nat
      BY <1>2, <1>6, <2>2, Zenon
    <3>2. c[i] <= Len(V) /\ d[i] <= Len(want)
      BY <1>2, <2>2, Zenon
    <3>. QED
      BY <1>3, <3>1, <3>2
  <2>. QED
    BY <2>1, <2>2
<1>9. ASSUME NEW i \in 1..(N + 1)
      PROVE  Means(g.records[i], c2[i - 1], c2[i], d2[i - 1], d2[i], W, more, p, freed2)
  <2>1. CASE i = N + 1
    <3>1. i - 1 = N /\ N \in 0..N
      BY <2>1
    <3>2. c2[i - 1] = Len(V) /\ d2[i - 1] = d[N] /\ c2[i] = Len(W) /\ d2[i] = d1 /\ g.records[i] = r
      BY <1>2, <1>6, <1>7, <2>1, <3>1, Zenon
    <3>. QED
      BY <1>1, <3>2, Zenon DEF Adds, Known
  <2>2. CASE i \in 1..N
    <3>1. i - 1 \in 0..N /\ i \in 0..N
      BY <2>2
    <3>2. c2[i - 1] = c[i - 1] /\ d2[i - 1] = d[i - 1] /\ c2[i] = c[i] /\ d2[i] = d[i] /\ g.records[i] = f.records[i]
      BY <1>6, <1>7, <2>2, <3>1, Zenon
    <3>3. /\ c[i - 1] \in Nat /\ c[i] \in Nat /\ d[i - 1] \in Nat /\ d[i] \in Nat
          /\ c[i - 1] <= Len(V) /\ c[i] <= Len(V) /\ d[i] <= Len(want)
      BY <1>2, <3>1, Zenon
    <3>4. Means(f.records[i], c[i - 1], c[i], d[i - 1], d[i], V, want, p, freed)
      BY <1>2, <2>2, Zenon
    <3>5. Means(f.records[i], c[i - 1], c[i], d[i - 1], d[i], W, more, p, freed2)
      BY <1>2, <3>3, <3>4, MeansStill, Zenon DEF Extends, Adds
    <3>. QED
      BY <3>2, <3>5, Zenon
  <2>. QED
    BY <2>1, <2>2
<1>10. c2[0] = 0 /\ d2[0] = 0
  <2>1. 0 \in 0..N
    OBVIOUS
  <2>. QED
    BY <1>2, <1>6, <2>1, Zenon
<1>11. Hist(g, W, c2, d2, more, p, freed2)
  <2>1. PICK M \in Nat : M = N + 1
    OBVIOUS
  <2>2. IsSeq(W) /\ IsSeq(more) /\ \A j \in 1..Len(W) : W[j] \in Syms
    BY Zenon DEF Extends, SymsOnly, Adds
  <2>3. /\ c2 \in [0..M -> Nat] /\ d2 \in [0..M -> Nat] /\ c2[M] = Len(W) /\ Len(g.placed) = M
        /\ \A i \in 0..M : c2[i] <= Len(W) /\ d2[i] <= Len(more)
        /\ \A i \in 1..M : Means(g.records[i], c2[i - 1], c2[i], d2[i - 1], d2[i], W, more, p, freed2)
    BY <1>6, <1>7, <1>8, <1>9, <2>1, Zenon
  <2>. QED
    BY <1>10, <2>1, <2>2, <2>3, Zenon DEF Hist
<1>. QED
  BY <1>6, <1>7, <1>11, Zenon DEF Known

-----------------------------------------------------------------------------
(* The cache tells the number of a symbol from the low bits of its address *)
CacheSound(symbols, V) ==
  \A k \in DOMAIN symbols : /\ symbols[k] \in Nat /\ symbols[k] < Len(V)
                            /\ V[symbols[k] + 1].addr % KeySpace = k

(* The worker and what its records mean *)
Worker(w, V, c, d, want, p) ==
  /\ DOMAIN w = WorkerFields /\ w.gone \in BOOLEAN /\ w.freed \in BOOLEAN
  /\ DiskOK(w.file) /\ Hist(w.file, V, c, d, want, p, w.freed)
  /\ ~w.gone => Known(w.file, d, Len(want)) /\ w.sym_id = Len(V) /\ CacheSound(w.symbols, V)

(* The last look-up gave the number of sym *)
Numbers(w, sym, W) == w.id \in Nat /\ w.id < Len(W) /\ W[w.id + 1] = sym

(* A record that goes on with the history keeps the worker *)
Written(w, v, r) ==
  /\ DOMAIN v = WorkerFields /\ v.file = Fwrite(w.file, r) /\ ~v.file.wrapped
  /\ v.gone = w.gone /\ v.symbols = w.symbols /\ v.sym_id = w.sym_id /\ v.freed \in BOOLEAN
AddsTo(w, v, r, V, want, more, p) ==
  Adds(r, V, V, want, more, Len(want), Len(more), p, w.freed, v.freed)

(* A record that goes on with the history keeps the worker *)
LEMMA RecordKeeps ==
  ASSUME NamesFit, NEW w, NEW V, NEW c, NEW d, NEW want, NEW p, NEW r, NEW v, NEW more,
         Worker(w, V, c, d, want, p), ~w.gone, Writable(r), Written(w, v, r),
         AddsTo(w, v, r, V, want, more, p)
  PROVE  \E c2, d2 : Worker(v, V, c2, d2, more, p)
<1>1. /\ DiskOK(w.file) /\ Hist(w.file, V, c, d, want, p, w.freed) /\ Known(w.file, d, Len(want))
      /\ w.sym_id = Len(V) /\ CacheSound(w.symbols, V) /\ w.gone \in BOOLEAN
  BY Zenon DEF Worker
<1>2. DiskOK(v.file) /\ \E at : Joined(w.file, v.file, r, at)
  BY <1>1, FwriteKeeps, Zenon DEF Written
<1>3. PICK at : Joined(w.file, v.file, r, at)
  BY <1>2, Zenon
<1>4. PICK c2, d2 : Hist(v.file, V, c2, d2, more, p, v.freed) /\ Known(v.file, d2, Len(more))
  <2>1. Adds(r, V, V, want, more, Len(want), Len(more), p, w.freed, v.freed)
    BY Zenon DEF AddsTo
  <2>2. GoesOn(w.file, v.file, V, c, d, want, p, w.freed, r, at, V, more, v.freed, Len(want), Len(more))
    BY <1>1, <1>3, <2>1, Zenon DEF GoesOn
  <2>. QED
    BY <2>2, HistGoesOn, Zenon
<1>5. Worker(v, V, c2, d2, more, p)
  BY <1>1, <1>2, <1>4, Zenon DEF Worker, Written
<1>. QED
  BY <1>5, Zenon

(* perf_event__fprintf_auxtrace_error() *)
LEMMA ErrorKeeps ==
  ASSUME NamesFit, NumbersFit, NEW w, NEW V, NEW c, NEW d, NEW want, NEW p, NEW e \in Errors, NEW t, NEW more, NEW record,
         Worker(w, V, c, d, want, p), ~w.gone,
         record = [type |-> "error", tid |-> e.tid, ts |-> t, code |-> e.code],
         more = IF e.code = LOST THEN Append(want, ErrorAction(e.tid, t)) ELSE want,
         ~[w EXCEPT !.file = Fwrite(@, record)].file.wrapped
  PROVE  \E c2, d2 : Worker([w EXCEPT !.file = Fwrite(@, record)], V, c2, d2, more, p)
<1>1. PICK v : v = [w EXCEPT !.file = Fwrite(@, record)]
  BY Zenon
<1>2. /\ DOMAIN w = WorkerFields /\ w.freed \in BOOLEAN /\ Hist(w.file, V, c, d, want, p, w.freed)
  BY Zenon DEF Worker
<1>3. /\ DOMAIN v = WorkerFields /\ v.file = Fwrite(w.file, record) /\ v.gone = w.gone
      /\ v.symbols = w.symbols /\ v.sym_id = w.sym_id /\ v.freed = w.freed
  BY <1>1, <1>2, Zenon DEF WorkerFields
<1>4. IsSeq(V) /\ IsSeq(want) /\ SymsOnly(V) /\ Len(V) \in Nat /\ Len(want) \in Nat
  BY <1>2, SeqAppend DEF Hist, SymsOnly
<1>5. e.tid \in UINT32 /\ e.tid \in Nat
  BY DEF NumbersFit, UINT32
<1>6. Writable(record) /\ Numbered(record)
  BY <1>5, Zenon DEF Writable, Numbered
<1>7. /\ Extends(want, more) /\ Len(more) \in Nat
      /\ e.code = LOST => Step(more, Len(want), Len(more), ErrorAction(e.tid, t))
      /\ e.code # LOST => Len(more) = Len(want)
  <2>1. CASE e.code = LOST
    <3>1. more = Append(want, ErrorAction(e.tid, t))
      BY <2>1, Zenon
    <3>2. /\ IsSeq(more) /\ Len(more) = Len(want) + 1 /\ more[Len(want) + 1] = ErrorAction(e.tid, t)
          /\ \A j \in 1..Len(want) : more[j] = want[j]
      BY <1>4, <3>1, SeqAppend
    <3>. QED
      BY <1>4, <2>1, <3>2 DEF Extends, Step
  <2>2. CASE e.code # LOST
    <3>1. more = want
      BY <2>2, Zenon
    <3>. QED
      BY <1>4, <2>2, <3>1 DEF Extends
  <2>. QED
    BY <2>1, <2>2, Zenon
<1>8. ErrorMeans(record, Len(V), Len(V), Len(want), Len(more), more)
  BY <1>7, Zenon DEF ErrorMeans
<1>9. AddsTo(w, v, record, V, want, more, p)
  <2>1. Extends(V, V) /\ Still(w.freed, v.freed)
    BY <1>3, <1>4 DEF Extends, Still
  <2>2. Means(record, Len(V), Len(V), Len(want), Len(more), V, more, p, v.freed)
    BY <1>6, <1>8, Zenon DEF Means
  <2>. QED
    BY <1>4, <1>7, <2>1, <2>2 DEF Adds, AddsTo
<1>10. \E c2, d2 : Worker(v, V, c2, d2, more, p)
  <2>1. Written(w, v, record)
    BY <1>1, <1>2, <1>3, Zenon DEF Written
  <2>. QED
    BY <1>6, <1>9, <2>1, RecordKeeps
<1>. QED
  BY <1>1, <1>10, Zenon

(* perf_sample__fprint_compact() *)
(* The decoder finds the branch b at t; the filters let it pass *)
BranchIs(b, t, p, found, want, more) ==
  /\ found = [tid |-> b.tid, ts |-> t, type |-> b.type, from |-> b.from, to |-> b.to]
  /\ more = IF Needed(p, found) THEN Append(want, ActionOf(found)) ELSE want
  /\ Printed(p, found)

(* The steps of perf_sample__fprint_compact() *)
BranchWrites(w, found, w1, w2, from, freed, v) ==
  /\ freed \in BOOLEAN
  /\ w1 = LookupAndAdd(w, Output(found.from)) /\ w2 = LookupAndAdd(w1, Output(found.to))
  /\ from = w1.id \/ (freed = TRUE /\ from \in 0..w2.sym_id - 1 \cup {Junk})
  /\ v = IF w2.gone THEN w2
         ELSE [w2 EXCEPT !.file = Fwrite(@, BranchRecord(found, from, w2.id, from # w1.id)), !.freed = @ \/ freed]
  /\ ~v.file.wrapped

(* The number `from' is that of sym, or a freed entry of the cache gave a wrong one *)
FromIs(V, from, sym, stale, freed) ==
  /\ from \in Nat /\ from <= Junk
  /\ \/ stale = FALSE /\ from < Len(V) /\ V[from + 1] = sym
     \/ stale = TRUE /\ freed = TRUE

(* perf_sample__fprint_compact() keeps the worker; its record means the branch *)
LEMMA BranchKeeps ==
  \A b \in Branches : \A w, V, c, d, want, p, t, found, more, w1, w2, v, from, freed :
    (   NamesFit /\ KeysTell /\ NumbersFit /\ Worker(w, V, c, d, want, p) /\ ~w.gone /\ Len(V) + 2 <= Junk
        /\ BranchIs(b, t, p, found, want, more) /\ BranchWrites(w, found, w1, w2, from, freed, v)
    ) => (
      \E W, c2, d2 : Worker(v, W, c2, d2, more, p) /\ Len(W) <= Len(V) + 2)
(* The numbers of symbols have 32 bits *)
<1>SmallNumber. ASSUME NEW v \in Nat, v <= Junk
                PROVE  v \in UINT32
  BY <1>SmallNumber, JunkIs DEF UINT32
(* Without a record, the decoder may still find more *)
<1>HistMore. ASSUME NEW f, NEW V, NEW c, NEW d, NEW want, NEW p, NEW freed, Hist(f, V, c, d, want, p, freed),
                    NEW more, Extends(want, more)
             PROVE  Hist(f, V, c, d, more, p, freed)
  <2>. USE <1>HistMore
  <2>1. PICK N \in Nat : N = Len(f.placed)
    BY Zenon DEF Hist
  <2>2. /\ c \in [0..N -> Nat] /\ d \in [0..N -> Nat] /\ c[0] = 0 /\ d[0] = 0 /\ c[N] = Len(V)
        /\ \A i \in 0..N : c[i] <= Len(V) /\ d[i] <= Len(want)
        /\ \A i \in 1..N : Means(f.records[i], c[i - 1], c[i], d[i - 1], d[i], V, want, p, freed)
        /\ IsSeq(V) /\ IsSeq(want) /\ \A j \in 1..Len(V) : V[j] \in Syms
    BY <2>1, Zenon DEF Hist
  <2>3. Len(V) \in Nat /\ Len(want) \in Nat /\ Len(more) \in Nat /\ Len(want) <= Len(more)
    BY <2>2, SeqAppend, Zenon DEF Extends
  <2>4. \A i \in 0..N : c[i] <= Len(V) /\ d[i] <= Len(more)
    <3>. TAKE i \in 0..N
    <3>1. d[i] \in Nat /\ d[i] <= Len(want) /\ c[i] <= Len(V)
      BY <2>2, Zenon
    <3>. QED
      BY <2>3, <3>1
  <2>5. ASSUME NEW i \in 1..N PROVE Means(f.records[i], c[i - 1], c[i], d[i - 1], d[i], V, more, p, freed)
    <3>1. i - 1 \in 0..N /\ i \in 0..N
      OBVIOUS
    <3>2. /\ c[i - 1] \in Nat /\ c[i] \in Nat /\ d[i - 1] \in Nat /\ d[i] \in Nat
          /\ c[i - 1] <= Len(V) /\ c[i] <= Len(V) /\ d[i] <= Len(want)
      BY <2>2, <3>1, Zenon
    <3>3. Means(f.records[i], c[i - 1], c[i], d[i - 1], d[i], V, want, p, freed)
      BY <2>2, Zenon
    <3>. QED
      BY <2>2, <3>2, <3>3, MeansStill, Zenon DEF Extends, Still
  <2>. QED
    BY <2>1, <2>2, <2>4, <2>5, Zenon DEF Hist, Extends
(* What is printed for an address *)
<1>SymsAre. ASSUME NEW s \in Syms
            PROVE  s.name \in DOMAIN NameLen /\ s = [name |-> s.name, addr |-> s.addr, offset |-> s.offset]
  <2>. USE <1>SymsAre
  <2>1. PICK a : s = Output(a)
    BY Zenon DEF Syms
  <2>2. s.name \in DOMAIN NameLen
    BY <2>1, OutputNamed, Zenon
  <2>3. CASE HasSymbol(a)
    <3>1. s = [name |-> SymbolOf(a).name, addr |-> a, offset |-> Code[a].addr - SymbolOf(a).start]
      BY <2>1, <2>3, Zenon DEF Output
    <3>. QED
      BY <2>2, <3>1, Zenon
  <2>4. CASE ~HasSymbol(a)
    <3>1. s = [name |-> "[unknown]", addr |-> 0, offset |-> 0]
      BY <2>1, <2>4, Zenon DEF Output, Unknown
    <3>. QED
      BY <2>2, <3>1, Zenon
  <2>. QED
    BY <2>3, <2>4, Zenon
(* A symbol that is not in the cache gets the next number *)
<1>AddNumbers. ASSUME NamesFit, NEW w, NEW V, NEW c, NEW d, NEW want, NEW p, Worker(w, V, c, d, want, p), ~w.gone,
                      NEW sym \in Syms, ~AddSymbol(w, sym).file.wrapped
               PROVE  \E W, c2, d2 : /\ Worker(AddSymbol(w, sym), W, c2, d2, want, p)
                                     /\ Extends(V, W) /\ Len(W) <= Len(V) + 1
                                     /\ ~AddSymbol(w, sym).gone => Numbers(AddSymbol(w, sym), sym, W)
                                     /\ AddSymbol(w, sym).freed = w.freed
  <2>. USE <1>AddNumbers
  <2>1. PICK key : key = sym.addr % KeySpace
    BY Zenon
  <2>2. PICK record : record = [type |-> "symbol", id |-> w.sym_id, addr |-> sym.addr,
                                offset |-> sym.offset, name |-> sym.name]
    BY Zenon
  <2>3. PICK v : v = AddSymbol(w, sym)
    BY Zenon
  <2>4. /\ DOMAIN v = WorkerFields /\ v.freed = w.freed /\ v.id = w.sym_id /\ v.sym_id = w.sym_id + 1
        /\ v.symbols = CacheAdd(w, key, w.sym_id) /\ v.gone = TooLong(sym.name)
        /\ v.file = IF TooLong(sym.name) THEN w.file ELSE Fwrite(w.file, record)
    <3>1. DOMAIN w = WorkerFields
      BY Zenon DEF Worker
    <3>2. PICK symbols2, cnt2, id2, gone2, file2 :
            /\ symbols2 = CacheAdd(w, key, w.sym_id) /\ cnt2 = (IF Full(w) THEN 0 ELSE w.cnt + 1)
            /\ gone2 = TooLong(sym.name) /\ id2 = w.sym_id
            /\ file2 = IF TooLong(sym.name) THEN w.file ELSE Fwrite(w.file, record)
      BY Zenon
    <3>3. v = [w EXCEPT !.symbols = symbols2, !.cnt = cnt2, !.id = id2,
                        !.sym_id = id2 + 1, !.gone = gone2, !.file = file2]
      BY Zenon, <2>1, <2>2, <2>3, <3>2 DEF AddSymbol
    <3>4. /\ DOMAIN v = WorkerFields /\ v.freed = w.freed /\ v.id = id2 /\ v.sym_id = id2 + 1
          /\ v.symbols = symbols2 /\ v.gone = gone2 /\ v.file = file2
      BY <3>1, <3>3, Zenon DEF WorkerFields
    <3>. QED
      BY Zenon, <3>2, <3>4
  <2>5. /\ w.freed \in BOOLEAN /\ DiskOK(w.file) /\ Hist(w.file, V, c, d, want, p, w.freed)
        /\ Known(w.file, d, Len(want)) /\ w.sym_id = Len(V) /\ CacheSound(w.symbols, V)
    BY Zenon DEF Worker
  <2>6. IsSeq(V) /\ IsSeq(want) /\ (\A j \in 1..Len(V) : V[j] \in Syms) /\ Len(V) \in Nat /\ Len(want) \in Nat
    BY <2>5, SeqAppend, Zenon DEF Hist
  <2>7. v.gone \in BOOLEAN /\ v.freed \in BOOLEAN
    BY <2>4, <2>5 DEF TooLong
  <2>8. CASE TooLong(sym.name)
    <3>1. v.gone /\ v.file = w.file
      BY <2>4, <2>8, Zenon
    <3>2. Worker(v, V, c, d, want, p)
      BY <2>4, <2>5, <2>7, <3>1, Zenon DEF Worker
    <3>3. Extends(V, V) /\ Len(V) <= Len(V) + 1
      BY <2>6 DEF Extends
    <3>. QED
      BY <2>3, <2>4, <3>1, <3>2, <3>3, Zenon
  <2>9. CASE ~TooLong(sym.name)
    <3>1. ~v.gone /\ v.file = Fwrite(w.file, record)
      BY <2>4, <2>9, Zenon
    <3>2. /\ sym.name \in DOMAIN NameLen /\ sym = [name |-> sym.name, addr |-> sym.addr, offset |-> sym.offset]
      BY <1>SymsAre, Zenon
    <3>3. Writable(record) /\ Numbered(record)
      BY <2>2, <2>9, <3>2, Zenon DEF Writable, Numbered
    <3>4. ~Fwrite(w.file, record).wrapped
      BY <2>3, <3>1, Zenon
    <3>5. DiskOK(v.file) /\ \E at : Joined(w.file, v.file, record, at)
      BY <2>5, <3>1, <3>3, <3>4, FwriteKeeps, Zenon
    <3>6. PICK W : W = Append(V, sym)
      BY Zenon
    <3>7. IsSeq(W) /\ Len(W) = Len(V) + 1 /\ W[Len(V) + 1] = sym /\ \A j \in 1..Len(V) : W[j] = V[j]
      BY <2>6, <3>6, SeqAppend
    <3>8. Extends(V, W) /\ Len(W) <= Len(V) + 1
      BY <2>6, <3>7 DEF Extends
    <3>9. SymbolMeans(record, Len(V), Len(W), Len(want), Len(want), W)
      <4>1. SymbolIn(record) = sym
        BY <2>2, <3>2, Zenon DEF SymbolIn
      <4>. QED
        BY <2>2, <2>5, <3>7, <4>1, Zenon DEF SymbolMeans
    <3>10. Means(record, Len(V), Len(W), Len(want), Len(want), W, want, p, w.freed)
      BY <2>5, <3>3, <3>9, Zenon DEF Means
    <3>11. \A j \in 1..Len(W) : W[j] \in Syms
      BY <2>6, <3>7
    <3>12. PICK c2, d2 : Hist(v.file, W, c2, d2, want, p, w.freed) /\ Known(v.file, d2, Len(want))
      <4>1. PICK at : Joined(w.file, v.file, record, at)
        BY <3>5, Zenon
      <4>2. Extends(V, W) /\ Extends(want, want) /\ SymsOnly(W)
        BY <2>6, <3>8, <3>11 DEF Extends, SymsOnly
      <4>3. Hist(w.file, V, c, d, want, p, w.freed) /\ Len(want) \in Nat /\ Len(want) <= Len(want)
        BY <2>5, <2>6
      <4>4. Adds(record, V, W, want, want, Len(want), Len(want), p, w.freed, w.freed)
        BY <3>10, <4>2, <4>3, Zenon DEF Adds, Still
      <4>5. GoesOn(w.file, v.file, V, c, d, want, p, w.freed, record, at, W, want, w.freed, Len(want), Len(want))
        BY <2>5, <4>1, <4>4, Zenon DEF GoesOn
      <4>. QED
        BY <4>5, HistGoesOn, Zenon
    <3>13. CacheSound(v.symbols, W)
      <4>1. v.symbols = CacheAdd(w, key, Len(V))
        BY <2>4, <2>5, Zenon
      <4>2. PICK old, new : old = w.symbols /\ new = v.symbols
        BY Zenon
      <4>3. \A k \in DOMAIN new : (new[k] = Len(V) /\ k = key) \/ (k \in DOMAIN old /\ new[k] = old[k])
        <5>1. CASE Full(w)
          <6>0. new = [k \in {key} |-> Len(V)]
            BY <4>1, <4>2, <5>1, Zenon DEF CacheAdd
          <6>1. DOMAIN new = {key} /\ new[key] = Len(V)
            BY <6>0, Zenon
          <6>. QED
            BY <6>1, Zenon
        <5>2. CASE ~Full(w)
          <6>0. new = [k \in DOMAIN old \cup {key} |-> IF k = key THEN Len(V) ELSE old[k]]
            BY <4>1, <4>2, <5>2, Zenon DEF CacheAdd
          <6>1. DOMAIN new = DOMAIN old \cup {key} /\ \A k \in DOMAIN new : new[k] = IF k = key THEN Len(V) ELSE old[k]
            BY <6>0, Zenon
          <6>. QED
            BY <6>1, Zenon
        <5>. QED
          BY <5>1, <5>2, Zenon
      <4>. SUFFICES ASSUME NEW k \in DOMAIN new
                    PROVE  new[k] \in Nat /\ new[k] < Len(W) /\ W[new[k] + 1].addr % KeySpace = k
        BY <4>2, Zenon DEF CacheSound
      <4>4. CASE new[k] = Len(V) /\ k = key
        BY <2>1, <2>6, <3>7, <4>4
      <4>5. CASE k \in DOMAIN old /\ new[k] = old[k]
        <5>1. old[k] \in Nat /\ old[k] < Len(V) /\ V[old[k] + 1].addr % KeySpace = k
          BY <2>5, <4>2, <4>5, Zenon DEF CacheSound
        <5>2. old[k] + 1 \in 1..Len(V) /\ old[k] < Len(W)
          BY <2>6, <3>7, <5>1
        <5>. QED
          BY <3>7, <4>5, <5>1, <5>2, Zenon
      <4>. QED
        BY <4>3, <4>4, <4>5, Zenon
    <3>14. v.sym_id = Len(W)
      BY <2>4, <2>5, <3>7, Zenon
    <3>15. Worker(v, W, c2, d2, want, p)
      BY <2>4, <2>7, <3>5, <3>12, <3>13, <3>14, Zenon DEF Worker
    <3>16. Numbers(v, sym, W)
      BY <2>4, <2>5, <2>6, <3>7 DEF Numbers
    <3>. QED
      BY <2>3, <2>4, <3>8, <3>15, <3>16, Zenon
  <2>. QED
    BY <2>8, <2>9, Zenon
(* output_symbols_lookup_and_add() gives the symbol its number *)
<1>LookupNumbers. ASSUME NamesFit, KeysTell, NEW w, NEW V, NEW c, NEW d, NEW want, NEW p, Worker(w, V, c, d, want, p),
                         NEW sym \in Syms, ~LookupAndAdd(w, sym).file.wrapped
                  PROVE  \E W, c2, d2 : /\ Worker(LookupAndAdd(w, sym), W, c2, d2, want, p)
                                        /\ Extends(V, W) /\ Len(W) <= Len(V) + 1
                                        /\ ~LookupAndAdd(w, sym).gone => ~w.gone /\ Numbers(LookupAndAdd(w, sym), sym, W)
                                        /\ LookupAndAdd(w, sym).freed = w.freed
  <2>. USE <1>LookupNumbers
  <2>1. Hist(w.file, V, c, d, want, p, w.freed) /\ DiskOK(w.file) /\ DOMAIN w = WorkerFields
    BY Zenon DEF Worker
  <2>2. IsSeq(V) /\ (\A j \in 1..Len(V) : V[j] \in Syms) /\ Len(V) \in Nat
    BY <2>1, SeqAppend, Zenon DEF Hist
  <2>3. Extends(V, V) /\ Len(V) <= Len(V) + 1
    BY <2>2 DEF Extends
  <2>4. CASE w.gone
    <3>1. LookupAndAdd(w, sym) = w
      BY <2>4, Zenon DEF LookupAndAdd
    <3>. QED
      BY <2>3, <2>4, <3>1, Zenon
  <2>5. CASE ~w.gone /\ Cached(w, sym)
    <3>1. PICK key : key = sym.addr % KeySpace
      BY Zenon
    <3>2. PICK n : n = w.symbols[key]
      BY Zenon
    <3>3. LookupAndAdd(w, sym) = [w EXCEPT !.id = n]
      BY <2>5, <3>1, <3>2, Zenon DEF LookupAndAdd, Lookup
    <3>4. PICK v : v = [w EXCEPT !.id = n]
      BY Zenon
    <3>5. /\ DOMAIN v = WorkerFields /\ v.gone = w.gone /\ v.freed = w.freed /\ v.file = w.file
          /\ v.sym_id = w.sym_id /\ v.symbols = w.symbols /\ v.id = n
      BY <2>1, <3>4, Zenon DEF WorkerFields
    <3>6. n \in Nat /\ n < Len(V) /\ V[n + 1].addr % KeySpace = key
      BY <2>5, <3>1, <3>2, Zenon DEF Worker, CacheSound, Cached
    <3>7. V[n + 1] = sym
      <4>1. V[n + 1] \in Syms
        BY <2>2, <3>6
      <4>. QED
        BY <3>1, <3>6, <4>1, Zenon DEF KeysTell
    <3>8. Worker(v, V, c, d, want, p)
      BY <3>5, Zenon DEF Worker
    <3>9. Numbers(v, sym, V)
      BY <3>5, <3>6, <3>7, Zenon DEF Numbers
    <3>. QED
      BY <2>3, <2>5, <3>3, <3>4, <3>5, <3>8, <3>9, Zenon
  <2>6. CASE ~w.gone /\ ~Cached(w, sym)
    <3>1. LookupAndAdd(w, sym) = AddSymbol(w, sym)
      BY <2>6, Zenon DEF LookupAndAdd
    <3>. QED
      BY <2>6, <3>1, <1>AddNumbers
  <2>. QED
    BY <2>4, <2>5, <2>6, Zenon
(* A look-up leaves a worker *)
<1>LookupDomain. ASSUME NEW w, NEW sym, DOMAIN w = WorkerFields
                 PROVE  DOMAIN LookupAndAdd(w, sym) = WorkerFields
  <2>. USE <1>LookupDomain
  <2>1. CASE w.gone
    BY <2>1, Zenon DEF LookupAndAdd
  <2>2. CASE ~w.gone /\ Cached(w, sym)
    BY <2>2, Zenon DEF LookupAndAdd, Lookup
  <2>3. CASE ~w.gone /\ ~Cached(w, sym)
    BY <2>3, Zenon DEF LookupAndAdd, AddSymbol
  <2>. QED
    BY <2>1, <2>2, <2>3, Zenon
(* Offsets that fit after a look-up did so before it *)
<1>LookupWrapped. ASSUME NEW w, NEW sym, DOMAIN w = WorkerFields, ~LookupAndAdd(w, sym).file.wrapped
                  PROVE  ~w.file.wrapped
  <2>. USE <1>LookupWrapped
  <2>1. PICK record : record = [type |-> "symbol", id |-> w.sym_id, addr |-> sym.addr,
                                offset |-> sym.offset, name |-> sym.name]
    BY Zenon
  <2>2. \/ LookupAndAdd(w, sym).file = w.file
        \/ LookupAndAdd(w, sym).file = Fwrite(w.file, record)
    <3>1. CASE w.gone
      BY <3>1, Zenon DEF LookupAndAdd
    <3>2. CASE ~w.gone /\ Cached(w, sym)
      <4>1. PICK n : LookupAndAdd(w, sym) = [w EXCEPT !.id = n]
        BY <3>2, Zenon DEF LookupAndAdd, Lookup
      <4>. QED
        BY <4>1, Zenon DEF WorkerFields
    <3>3. CASE ~w.gone /\ ~Cached(w, sym)
      <4>1. PICK symbols2, cnt2, id2, gone2, file2 :
              /\ symbols2 = CacheAdd(w, sym.addr % KeySpace, w.sym_id) /\ cnt2 = (IF Full(w) THEN 0 ELSE w.cnt + 1)
              /\ gone2 = TooLong(sym.name) /\ id2 = w.sym_id
              /\ file2 = IF TooLong(sym.name) THEN w.file ELSE Fwrite(w.file, record)
        BY Zenon
      <4>2. LookupAndAdd(w, sym) = [w EXCEPT !.symbols = symbols2, !.cnt = cnt2, !.id = id2,
                                             !.sym_id = id2 + 1, !.gone = gone2, !.file = file2]
        BY Zenon, <2>1, <3>3, <4>1 DEF AddSymbol, LookupAndAdd
      <4>3. LookupAndAdd(w, sym).file = file2
        BY <4>2, Zenon DEF WorkerFields
      <4>. QED
        BY <4>1, <4>3, Zenon
    <3>. QED
      BY <3>1, <3>2, <3>3, Zenon
  <2>3. Fwrite(w.file, record).wrapped = (w.file.wrapped \/ ftell(w.file) + WriteSize(record) >= OffSpace)
    BY Zenon DEF Fwrite
  <2>. QED
    BY <2>2, <2>3, Zenon
(* perf_sample__fprint_compact() on a branch whose symbols have numbers *)
<1>BranchMeant. ASSUME NumbersFit, NEW V, NEW want, NEW p, NEW b \in Branches, NEW t, NEW found, NEW more,
                       NEW from, NEW to, NEW stale, NEW freed, NEW record,
                       IsSeq(V), SymsOnly(V), IsSeq(want), Len(V) <= Junk,
                       BranchIs(b, t, p, found, want, more), record = BranchRecord(found, from, to, stale),
                       FromIs(V, from, Output(found.from), stale, freed),
                       to \in Nat, to < Len(V), V[to + 1] = Output(found.to)
                PROVE  /\ Writable(record) /\ Means(record, Len(V), Len(V), Len(want), Len(more), V, more, p, freed)
                       /\ Extends(want, more) /\ Len(more) \in Nat
  <2>. USE <1>BranchMeant DEF BranchIs, FromIs
  <2>1. Len(V) \in Nat /\ Len(want) \in Nat
    BY SeqAppend, Zenon
  <2>2. b.tid \in UINT32 /\ b.tid \in Nat
    BY DEF NumbersFit, UINT32
  <2>3. to \in UINT32 /\ from \in UINT32 /\ from \in Nat
    <3>1. Junk \in Nat
      BY JunkIs
    <3>2. to <= Junk
      BY <2>1, <3>1
    <3>3. to \in UINT32
      BY <3>2, <1>SmallNumber, Zenon
    <3>4. from \in UINT32
      BY <1>SmallNumber, Zenon
    <3>. QED
      BY <3>3, <3>4, Zenon
  <2>4. /\ record.type = "branch" /\ record.tid = b.tid /\ record.from = from /\ record.to = to
        /\ record.ts = found.ts /\ record.flag = found.type /\ found.tid = b.tid /\ record.stale = stale
    BY Zenon DEF BranchRecord
  <2>5. Writable(record) /\ Numbered(record)
    BY <2>2, <2>3, <2>4, Zenon DEF Writable, Numbered
  <2>6. Needed(p, found) <=> Added(p, ActionOf(found))
    BY Zenon DEF Needed, Printed, Synthesized
  <2>7. /\ Extends(want, more) /\ Len(more) \in Nat
        /\ Added(p, ActionOf(found)) => Step(more, Len(want), Len(more), ActionOf(found))
        /\ ~Added(p, ActionOf(found)) => Len(more) = Len(want)
    <3>1. CASE Added(p, ActionOf(found))
      <4>1. more = Append(want, ActionOf(found))
        BY <2>6, <3>1, Zenon
      <4>2. /\ IsSeq(more) /\ Len(more) = Len(want) + 1 /\ more[Len(want) + 1] = ActionOf(found)
            /\ \A j \in 1..Len(want) : more[j] = want[j]
        BY <4>1, SeqAppend
      <4>. QED
        BY <2>1, <3>1, <4>2 DEF Extends, Step
    <3>2. CASE ~Added(p, ActionOf(found))
      <4>1. more = want
        BY <2>6, <3>2, Zenon
      <4>. QED
        BY <2>1, <3>2, <4>1 DEF Extends
    <3>. QED
      BY <3>1, <3>2, Zenon
  <2>8. CASE stale = FALSE /\ from < Len(V) /\ V[from + 1] = Output(found.from)
    <3>1. ActionIn(record, V) = ActionOf(found)
      BY <2>4, <2>8, Zenon DEF ActionIn, ActionOf
    <3>2. BranchMeans(record, Len(V), Len(V), Len(want), Len(more), V, more, p, freed)
      BY <2>4, <2>7, <2>8, <3>1, Zenon DEF BranchMeans
    <3>. QED
      BY <2>5, <2>7, <3>2, Zenon DEF Means
  <2>9. CASE stale = TRUE /\ freed = TRUE
    <3>1. BranchMeans(record, Len(V), Len(V), Len(want), Len(more), V, more, p, freed)
      BY <2>4, <2>9, Zenon DEF BranchMeans
    <3>. QED
      BY <2>5, <2>7, <3>1, Zenon DEF Means
  <2>. QED
    BY <2>8, <2>9, Zenon
<1>. TAKE b \in Branches
<1>. TAKE w, V, c, d, want, p, t, found, more, w1, w2, v, from, freed
<1>. SUFFICES ASSUME NamesFit, KeysTell, NumbersFit, Worker(w, V, c, d, want, p), ~w.gone, Len(V) + 2 <= Junk,
                    BranchIs(b, t, p, found, want, more), BranchWrites(w, found, w1, w2, from, freed, v)
             PROVE  \E W, c2, d2 : Worker(v, W, c2, d2, more, p) /\ Len(W) <= Len(V) + 2
  BY Zenon
<1>. USE DEF BranchIs, BranchWrites
<1>0. PICK L \in Nat : L = Len(V) /\ L + 2 <= Junk /\ Junk \in Nat
  BY SeqAppend, JunkIs DEF Worker, Hist
<1>1. Output(found.from) \in Syms /\ Output(found.to) \in Syms
  BY Zenon DEF Syms
<1>2. DOMAIN w = WorkerFields
  BY Zenon DEF Worker
<1>3. PICK stale, record : stale = (from # w1.id) /\ record = BranchRecord(found, from, w2.id, stale)
  BY Zenon
<1>4. ASSUME DOMAIN w2 = WorkerFields PROVE ~w2.file.wrapped
  <2>1. CASE w2.gone
    BY <2>1, Zenon
  <2>2. CASE ~w2.gone
    <3>1. v.file = Fwrite(w2.file, record)
      BY <1>3, <1>4, <2>2, Zenon DEF WorkerFields
    <3>2. Fwrite(w2.file, record).wrapped = (w2.file.wrapped \/ ftell(w2.file) + WriteSize(record) >= OffSpace)
      BY Zenon DEF Fwrite
    <3>. QED
      BY <3>1, <3>2, Zenon
  <2>. QED
    BY <2>1, <2>2, Zenon
<1>5. DOMAIN w1 = WorkerFields /\ DOMAIN w2 = WorkerFields
  BY <1>2, <1>LookupDomain
<1>6. ~w2.file.wrapped /\ ~w1.file.wrapped
  BY <1>4, <1>5, <1>LookupWrapped, Zenon
<1>7. PICK V1, c1, d1 : /\ Worker(w1, V1, c1, d1, want, p) /\ Extends(V, V1) /\ Len(V1) <= L + 1
                        /\ ~w1.gone => Numbers(w1, Output(found.from), V1)
                        /\ w1.freed = w.freed
  BY <1>0, <1>1, <1>6, <1>LookupNumbers, Zenon
<1>8. PICK V2, c2, d2 : /\ Worker(w2, V2, c2, d2, want, p) /\ Extends(V1, V2) /\ Len(V2) <= Len(V1) + 1
                        /\ ~w2.gone => ~w1.gone /\ Numbers(w2, Output(found.to), V2)
                        /\ w2.freed = w1.freed
  BY <1>1, <1>6, <1>7, <1>LookupNumbers
<1>9. /\ Hist(w2.file, V2, c2, d2, want, p, w2.freed) /\ IsSeq(V1) /\ IsSeq(V2) /\ IsSeq(want) /\ SymsOnly(V2)
      /\ Len(V1) \in Nat /\ Len(V2) \in Nat /\ Len(want) \in Nat /\ w2.freed \in BOOLEAN
  BY <1>7, <1>8, SeqAppend, Zenon DEF Worker, Hist, SymsOnly
<1>10. Len(V2) <= Len(V) + 2 /\ Len(V2) <= Junk
  BY <1>0, <1>7, <1>8, <1>9
<1>11. CASE w2.gone
  <2>1. v = w2
    BY <1>11, Zenon
  <2>2. Extends(want, more)
    <3>1. CASE Needed(p, found)
      BY <1>9, <3>1, SeqAppend DEF Extends
    <3>2. CASE ~Needed(p, found)
      BY <1>9, <3>2 DEF Extends
    <3>. QED
      BY <3>1, <3>2, Zenon
  <2>3. Hist(w2.file, V2, c2, d2, more, p, w2.freed)
    BY <1>9, <2>2, <1>HistMore, Zenon
  <2>4. Worker(w2, V2, c2, d2, more, p)
    BY <1>8, <1>11, <2>3, Zenon DEF Worker
  <2>. QED
    BY <1>10, <2>1, <2>4
<1>12. CASE ~w2.gone
  <2>0. Worker(w2, V2, c2, d2, want, p)
    BY <1>8, Zenon
  <2>1. v = [w2 EXCEPT !.file = Fwrite(@, record), !.freed = @ \/ freed]
    BY <1>3, <1>12, Zenon
  <2>2. PICK fr \in BOOLEAN : fr = (w2.freed \/ freed)
    BY <1>9, Zenon
  <2>3. /\ DOMAIN v = WorkerFields /\ v.file = Fwrite(w2.file, record) /\ v.gone = w2.gone
        /\ v.symbols = w2.symbols /\ v.sym_id = w2.sym_id /\ v.freed = fr
    <3>1. v = [w2 EXCEPT !.file = Fwrite(w2.file, record), !.freed = fr]
      BY Zenon, <2>1, <2>2
    <3>. QED
      BY <1>5, <3>1, Zenon DEF WorkerFields
  <2>4. Written(w2, v, record)
    BY <2>3, Zenon DEF Written
  <2>5. Numbers(w2, Output(found.to), V2) /\ Numbers(w1, Output(found.from), V1)
    BY <1>7, <1>8, <1>12, Zenon
  <2>6. w2.id \in Nat /\ w2.id < Len(V2) /\ V2[w2.id + 1] = Output(found.to)
    BY <2>5, Zenon DEF Numbers
  <2>7. w1.id \in Nat /\ w1.id < Len(V2) /\ V2[w1.id + 1] = Output(found.from)
    <3>1. w1.id \in Nat /\ w1.id < Len(V1) /\ V1[w1.id + 1] = Output(found.from)
      BY <2>5, Zenon DEF Numbers
    <3>2. Len(V1) <= Len(V2) /\ \A j \in 1..Len(V1) : V2[j] = V1[j]
      BY <1>8, Zenon DEF Extends
    <3>3. w1.id + 1 \in 1..Len(V1) /\ w1.id < Len(V2)
      BY <1>9, <3>1, <3>2
    <3>. QED
      BY <3>1, <3>2, <3>3, Zenon
  <2>8. FromIs(V2, from, Output(found.from), stale, fr)
    <3>1. CASE from = w1.id
      <4>1. stale = FALSE /\ from \in Nat /\ from < Len(V2) /\ V2[from + 1] = Output(found.from)
        BY <1>3, <2>7, <3>1, Zenon
      <4>2. from <= Junk
        BY <1>0, <1>9, <1>10, <4>1
      <4>. QED
        BY <4>1, <4>2, Zenon DEF FromIs
    <3>2. CASE from # w1.id
      <4>1. stale = TRUE /\ fr = TRUE /\ from \in 0..w2.sym_id - 1 \cup {Junk}
        BY <1>3, <2>2, <3>2, Zenon
      <4>2. w2.sym_id = Len(V2)
        BY <1>12, <2>0, Zenon DEF Worker
      <4>3. from \in Nat /\ from <= Junk
        BY <1>0, <1>9, <1>10, <4>1, <4>2
      <4>. QED
        BY <4>1, <4>3, Zenon DEF FromIs
    <3>. QED
      BY <3>1, <3>2, Zenon
  <2>9. /\ Writable(record) /\ Means(record, Len(V2), Len(V2), Len(want), Len(more), V2, more, p, fr)
        /\ Extends(want, more) /\ Len(more) \in Nat
    <3> HIDE DEF BranchIs, BranchWrites
    <3>1. IsSeq(V2) /\ SymsOnly(V2) /\ IsSeq(want) /\ Len(V2) <= Junk
      BY <1>9, <1>10, Zenon
    <3>2. PICK to : to = w2.id
      BY Zenon
    <3>3. record = BranchRecord(found, from, to, stale)
      BY <1>3, <3>2, Zenon
    <3>4. to \in Nat /\ to < Len(V2) /\ V2[to + 1] = Output(found.to)
      BY <2>6, <3>2, Zenon
    <3>. QED
      BY <2>8, <3>1, <3>3, <3>4, <1>BranchMeant, Zenon
  <2>10. Adds(record, V2, V2, want, more, Len(want), Len(more), p, w2.freed, v.freed)
    <3>1. Extends(V2, V2) /\ Still(w2.freed, v.freed)
      BY <1>9, <2>2, <2>3 DEF Extends, Still
    <3>. QED
      BY <1>9, <2>3, <2>9, <3>1 DEF Adds
  <2>11. \E c3, d3 : Worker(v, V2, c3, d3, more, p)
    <3>1. AddsTo(w2, v, record, V2, want, more, p)
      BY <2>10, Zenon DEF AddsTo
    <3>. QED
      BY <1>12, <2>0, <2>4, <2>9, <3>1, RecordKeeps
  <2>. QED
    BY <1>10, <2>11, Zenon
<1>. QED
  BY <1>11, <1>12, Zenon

-----------------------------------------------------------------------------
(* The filters *)

(* perf prints every branch that the analysis needs *)
LEMMA FiltersKeep ==
  \A b \in Branches : \A p, t, found :
    (   FiltersMatch(p) /\ found = [tid |-> b.tid, ts |-> t, type |-> b.type, from |-> b.from, to |-> b.to]
        /\ Needed(p, found)
    ) => (
      Printed(p, found))
(* What is printed for an address with a symbol *)
<1>Covers. ASSUME NEW a, HasSymbol(a)
           PROVE  /\ a \in DOMAIN Code /\ SymbolOf(a) \in Symbols /\ Name(a) = SymbolOf(a).name
                  /\ SymbolOf(a).dso = Code[a].dso
                  /\ SymbolOf(a).start <= Code[a].addr /\ Code[a].addr <= SymbolOf(a).end
  <2>. USE <1>Covers
  <2>1. SymbolOf(a) \in Covering(a)
    BY Zenon DEF HasSymbol, SymbolOf
  <2>2. /\ a \in DOMAIN Code /\ SymbolOf(a) \in Symbols /\ SymbolOf(a).dso = Code[a].dso
        /\ SymbolOf(a).start <= Code[a].addr /\ Code[a].addr < SymbolOf(a).end
    BY <2>1, Zenon DEF Covering
  <2>3. Code[a].addr \in Nat /\ SymbolOf(a).end \in Nat
    BY <2>2, ScriptAssumption, Zenon
  <2>4. Name(a) = SymbolOf(a).name
    BY Zenon DEF Name, Output
  <2>. QED
    BY <2>2, <2>3, <2>4
(* What is printed for an address without a symbol *)
<1>NoSymbol. ASSUME NEW a, ~HasSymbol(a)
             PROVE  Name(a) = Unknown.name
  BY <1>NoSymbol, Zenon DEF Name, Output
(* An address in a function that the filter is given *)
<1>InFilter. ASSUME NEW p, FiltersMatch(p), NEW a, Name(a) \in func_filter(p)
             PROVE  is_target_func_name(p, a) /\ is_target_func_ip(p, a)
  <2>. USE <1>InFilter
  <2>1. HasSymbol(a)
    BY <1>NoSymbol, Zenon DEF FiltersMatch, func_filter
  <2>2. SymbolOf(a) \in fil_syms(p)
    BY <2>1, <1>Covers, Zenon DEF FiltersMatch
  <2>. QED
    BY <2>1, <2>2, <1>Covers, Zenon DEF is_target_func_name, is_target_func_ip
(* An address in the schedule function *)
<1>InKernel. ASSUME NEW p, FiltersMatch(p), NEW a, Name(a) \in ScheduleNames
             PROVE  a \in DOMAIN Code /\ Code[a].dso = Kernel
  <2>. USE <1>InKernel
  <2>1. HasSymbol(a)
    BY <1>NoSymbol, Zenon DEF ScheduleNames, Unknown
  <2>. QED
    BY <2>1, <1>Covers, Zenon DEF FiltersMatch
<1>. SUFFICES ASSUME NEW p, FiltersMatch(p), NEW b \in Branches, NEW t, NEW found, found = [tid |-> b.tid, ts |-> t,
                    type |-> b.type, from |-> b.from, to |-> b.to], Needed(p, found)
             PROVE  Printed(p, found)
  BY Zenon
<1>1. PICK act : act = ActionOf(found)
  BY Zenon
<1>2. /\ found.tid = b.tid /\ found.type = b.type /\ found.from = b.from /\ found.to = b.to
      /\ act.type = b.type /\ act.from.name = Name(b.from) /\ act.to.name = Name(b.to)
  BY <1>1, Zenon DEF ActionOf, Name
<1>3. /\ ~thread__is_filter_by_tid(p, found.tid)
      /\ \/ Name(b.from) = p.target \/ Name(b.to) = p.target
         \/ init_for_sched(act)
         \/ p.ancestor # "" /\ init_for_ancestor(p, act)
      /\ p.code_block \/ ~(Name(b.from) = p.target /\ Name(b.to) = p.target)
  BY <1>1, <1>2, Zenon DEF Needed, Added
<1>4. CASE Name(b.from) \in func_filter(p) \/ Name(b.to) \in func_filter(p)
  <2>1. ~func_filter_by_ip(p, found) /\ ~func_filter_by_sym(p, found)
    BY <1>2, <1>4, <1>InFilter, Zenon DEF func_filter_by_ip, func_filter_by_sym
  <2>2. ~dlfilter(p, found)
    <3>. SUFFICES ASSUME p.dlfilter, ~p.code_block, Name(b.from) = Name(b.to) PROVE FALSE
      BY <1>2, Zenon DEF dlfilter
    <3>1. Name(b.to) # p.target
      BY <1>3, Zenon
    <3>2. init_for_sched(act) \/ init_for_ancestor(p, act)
      BY <1>3, <3>1, Zenon
    <3>3. /\ Name(b.to) \in (ScheduleNames \cup {p.ancestor}) \ {p.target}
          /\ b.type \in {"call", "tr strt", "return", "tr end return"}
      BY <1>2, <3>1, <3>2, Zenon DEF init_for_sched, init_for_ancestor, Begins, Ends, ScheduleNames
    <3>. QED
      BY <3>3, Zenon DEF FiltersMatch
  <2>. QED
    BY <1>3, <2>1, <2>2, Zenon DEF Printed, Synthesized
<1>5. CASE ~(Name(b.from) \in func_filter(p) \/ Name(b.to) \in func_filter(p))
  <2>1. p.target \in func_filter(p) /\ (p.ancestor # "" => p.ancestor \in func_filter(p))
    BY Zenon DEF FiltersMatch, func_filter
  <2>2. init_for_sched(act)
    BY <1>2, <1>3, <1>5, <2>1, Zenon DEF init_for_ancestor, Begins, Ends
  <2>3. ScheduleBranch(found)
    <3>1. CASE Name(b.to) \in ScheduleNames
      BY <1>2, <3>1, <1>InKernel DEF ScheduleBranch, is_schedule_func, ScheduleNames
    <3>2. CASE Name(b.from) \in ScheduleNames /\ b.type \in {"return", "tr end return"}
      BY <1>2, <3>2, Zenon DEF ScheduleBranch, is_schedule_func, ScheduleNames, FiltersMatch
    <3>. QED
      BY <1>2, <2>2, <3>1, <3>2, Zenon DEF init_for_sched, Begins, Ends, ScheduleNames
  <2>4. ~func_filter_by_ip(p, found) /\ ~func_filter_by_sym(p, found)
    BY <2>3, Zenon DEF func_filter_by_ip, func_filter_by_sym
  <2>5. ~dlfilter(p, found)
    <3>. SUFFICES ASSUME p.dlfilter, Name(b.from) = Name(b.to) PROVE FALSE
      BY <1>2, Zenon DEF dlfilter
    <3>1. /\ Name(b.to) \in (ScheduleNames \cup {p.ancestor}) \ {p.target}
          /\ b.type \in {"call", "tr strt", "return", "tr end return"}
      BY <1>2, <1>5, <2>1, <2>2, Zenon DEF init_for_sched, Begins, Ends, ScheduleNames
    <3>. QED
      BY <3>1, Zenon DEF FiltersMatch
  <2>. QED
    BY <1>3, <2>4, <2>5, Zenon DEF Printed, Synthesized
<1>. QED
  BY <1>4, <1>5, Zenon

(* While perf writes: at most two symbols per event have numbers *)
Writing ==
  /\ off = FALSE /\ broken = FALSE /\ perf.gone = FALSE /\ block = 0 /\ ptr = 0 /\ m_vec = <<>> /\ actions = <<>>
  /\ \E V, c, d : Worker(perf, V, c, d, wanted, param) /\ Len(V) <= 2 * now

(* The first n elements of W were read *)
Got(s, n, W) == IsSeq(s) /\ Len(s) = n /\ \A j \in 1..n : s[j] = W[j]

(* While the parse job reads: it is behind record n *)
ReadAt(V, c, d, n) ==
  /\ DiskOK(perf.file) /\ Hist(perf.file, V, c, d, wanted, param, perf.freed)
  /\ (\E complete : FileRead(file, perf.file, complete))
  /\ broken = FALSE => FileRead(file, perf.file, TRUE) /\ Known(perf.file, d, Len(wanted))
  /\ Pos(perf.file, block, ptr, n)
  /\ Got(m_vec, c[n], V) /\ Got(actions, d[n], wanted)

(* The reader has lost its way: only after a fault *)
Lost == (broken = TRUE \/ perf.freed = TRUE) /\ IsSeq(actions)

(* The inductive invariant *)
StreamInv ==
  /\ param \in Params /\ now \in Nat /\ now <= MaxDecoded
  /\ broken \in BOOLEAN /\ perf.freed \in BOOLEAN /\ off \in BOOLEAN
  /\ phase = "write" => Writing
  /\ phase = "read" /\ off = FALSE => \E V, c, d, n : ReadAt(V, c, d, n)
  /\ phase = "read" /\ off = TRUE => Lost

(* The phases and the modes of the stream *)
LEMMA ModeIs ==
  /\ phase = "write" => Mode = "tracing"
  /\ phase = "read" /\ off = TRUE => Mode = "stray"
  /\ phase = "read" /\ off = FALSE /\ Faulty => Mode = "broken"
  /\ phase = "read" /\ off = FALSE /\ ~Faulty => Mode = "intact"
  /\ phase = "crashed" /\ Faulty => Mode = "done"
  /\ phase = "done" => Mode = "done"
BY Zenon DEF Mode

(* The same after a step *)
LEMMA ModeWas ==
  /\ phase' = "write" => Mode' = "tracing"
  /\ phase' = "read" /\ off' = TRUE => Mode' = "stray"
  /\ phase' = "read" /\ off' = FALSE /\ Faulty' => Mode' = "broken"
  /\ phase' = "read" /\ off' = FALSE /\ ~Faulty' => Mode' = "intact"
  /\ phase' = "crashed" /\ Faulty' => Mode' = "done"
  /\ phase' = "done" => Mode' = "done"
BY Zenon DEF Mode

(* A wanted action that the worker prints is found *)
LEMMA FindMaps ==
  ASSUME phase = "write", phase' = "write", IsSeq(wanted), NEW x, wanted' = Append(wanted, x), actions' = actions
  PROVE  Stream!StreamNext
<1>1. Stream!Extended
  BY SeqAppend, SeqExtends, Zenon DEF Stream!Extended
<1>2. Mode = "tracing" /\ Mode' = "tracing"
  BY ModeIs, ModeWas, Zenon
<1>. QED
  BY <1>1, <1>2, Zenon DEF Stream!StreamNext, Stream!Find

(* When the worker ends, the stream is closed *)
LEMMA CloseMaps ==
  ASSUME phase = "write", phase' = "read", off' = FALSE, wanted' = wanted, actions' = actions
  PROVE  Stream!StreamNext
<1>1. Mode = "tracing" /\ Mode' \in {"intact", "broken"}
  BY ModeIs, ModeWas, Zenon
<1>. QED
  BY <1>1, Zenon DEF Stream!StreamNext, Stream!Close

(* When it ends over a wanted action, the stream is given up *)
LEMMA GiveUpMaps ==
  ASSUME phase = "write", phase' = "read", off' = FALSE, broken' = TRUE, IsSeq(wanted), NEW x, wanted' = Append(wanted, x),
         actions' = actions
  PROVE  Stream!StreamNext
<1>1. Stream!Extended
  BY SeqAppend, SeqExtends, Zenon DEF Stream!Extended
<1>2. Mode = "tracing" /\ Mode' = "broken"
  BY ModeIs, ModeWas, Zenon DEF Faulty
<1>. QED
  BY <1>1, <1>2, Zenon DEF Stream!StreamNext, Stream!GiveUp

(* The stream does nothing *)
StreamSame == UNCHANGED <<wanted, actions, Mode>>

(* Begin of the reading *)
LEMMA ReadsFromStart ==
  ASSUME NEW w, NEW V, NEW c, NEW d, NEW want, NEW p, Worker(w, V, c, d, want, p), NEW k \in 0..Len(w.file.buf)
  PROVE  /\ DiskOK(w.file) /\ Hist(w.file, V, c, d, want, p, w.freed) /\ Pos(w.file, 0, 0, 0)
         /\ \E complete : FileRead(OnDisk(w.file, k), w.file, complete)
         /\ k = Len(w.file.buf) => FileRead(OnDisk(w.file, k), w.file, TRUE)
         /\ ~w.gone => Known(w.file, d, Len(want))
         /\ c[0] = 0 /\ d[0] = 0 /\ w.freed \in BOOLEAN
<1>1. /\ DiskOK(w.file) /\ Hist(w.file, V, c, d, want, p, w.freed) /\ (~w.gone => Known(w.file, d, Len(want)))
      /\ w.freed \in BOOLEAN
  BY Zenon DEF Worker
<1>2. FileRead(OnDisk(w.file, k), w.file, k = Len(w.file.buf))
  BY <1>1, DiskRead, Zenon
<1>3. k = Len(w.file.buf) => FileRead(OnDisk(w.file, k), w.file, TRUE)
  BY <1>2, Zenon DEF FileRead
<1>4. Pos(w.file, 0, 0, 0)
  <2>1. 0 * B = 0 /\ (0 + 1) * B = B /\ 0 <= B
    BY BlockPositive
  <2>2. Len(w.file.placed) \in Nat
    BY <1>1, Zenon DEF Hist
  <2>3. End(w.file, 0) = 0
    BY Zenon DEF End
  <2>. QED
    BY <2>1, <2>2, <2>3 DEF Pos
<1>5. c[0] = 0 /\ d[0] = 0
  BY <1>1, Zenon DEF Hist
<1>6. \E complete : FileRead(OnDisk(w.file, k), w.file, complete)
  <2>1. PICK complete : complete = (k = Len(w.file.buf))
    BY Zenon
  <2>. QED
    BY Zenon, <1>2
<1>. QED
  BY <1>1, <1>3, <1>4, <1>5, <1>6, Zenon

(* The worker stops, with k of the bytes in its buffer *)
LEMMA StopKeeps ==
  ASSUME NumbersFit, StreamInv, Writing, param' = param, now' \in Nat, now' <= MaxDecoded, phase' = "read",
         NEW V, NEW c, NEW d, Worker(perf', V, c, d, wanted', param), Len(V) <= 2 * now',
         NEW k \in 0..Len(perf'.file.buf), file' = OnDisk(perf'.file, k), broken' \in BOOLEAN,
         broken' = FALSE => k = Len(perf'.file.buf) /\ ~perf'.gone,
         UNCHANGED <<block, ptr, m_vec, actions, off>>
  PROVE  StreamInv'
<1>1. /\ DiskOK(perf'.file) /\ Hist(perf'.file, V, c, d, wanted', param, perf'.freed) /\ Pos(perf'.file, 0, 0, 0)
      /\ \E complete : FileRead(OnDisk(perf'.file, k), perf'.file, complete)
      /\ k = Len(perf'.file.buf) => FileRead(OnDisk(perf'.file, k), perf'.file, TRUE)
      /\ ~perf'.gone => Known(perf'.file, d, Len(wanted'))
      /\ c[0] = 0 /\ d[0] = 0 /\ perf'.freed \in BOOLEAN
  BY ReadsFromStart, Zenon
<1>3. block' = 0 /\ ptr' = 0 /\ m_vec' = <<>> /\ actions' = <<>> /\ off' = FALSE
  BY Zenon DEF Writing
<1>4. IsSeq(<<>>) /\ Len(<<>>) = 0
  BY DEF IsSeq
<1>5. ReadAt(V, c, d, 0)'
  <2>1. \E complete : FileRead(file', perf'.file, complete)
    BY <1>1, Zenon
  <2>2. broken' = FALSE => FileRead(file', perf'.file, TRUE) /\ Known(perf'.file, d, Len(wanted'))
    BY <1>1, Zenon
  <2>3. Pos(perf'.file, block', ptr', 0)
    BY <1>1, <1>3, Zenon
  <2>4. Got(m_vec', c[0], V) /\ Got(actions', d[0], wanted')
    BY <1>1, <1>3, <1>4 DEF Got
  <2>. QED
    BY <1>1, <2>1, <2>2, <2>3, <2>4, Zenon DEF ReadAt
<1>. QED
  BY <1>1, <1>3, <1>5, Zenon DEF StreamInv

(* The worker writes *)
LEMMA WriteKeeps ==
  ASSUME NumbersFit, StreamInv, Writing, param' = param, now' \in Nat, now' <= MaxDecoded,
         NEW V, NEW c, NEW d, Worker(perf', V, c, d, wanted', param), Len(V) <= 2 * now', Write(perf'),
         UNCHANGED <<block, ptr, m_vec, actions, off>>
  PROVE  StreamInv'
<1>1. perf'.gone \in BOOLEAN /\ perf'.freed \in BOOLEAN
  BY Zenon DEF Worker
<1>2. CASE perf'.gone
  <2>1. broken' = TRUE /\ phase' = "read" /\ file' = OnDisk(perf'.file, Len(perf'.file.buf))
    BY <1>1, <1>2, Zenon DEF Write
  <2>2. Len(perf'.file.buf) \in 0..Len(perf'.file.buf)
    <3>1. Len(perf'.file.buf) \in Nat
      BY DEF Worker, DiskOK, DiskTypes
    <3>. QED
      BY <3>1
  <2>. QED
    BY <2>1, <2>2, StopKeeps, Zenon
<1>3. CASE ~perf'.gone
  <2>1. broken' = FALSE /\ phase' = "write" /\ perf'.gone = FALSE
    BY <1>1, <1>3, Zenon DEF Write
  <2>2. Writing'
    BY <2>1, Zenon DEF Writing
  <2>. QED
    BY <1>1, <2>1, <2>2, Zenon DEF StreamInv
<1>. QED
  BY <1>2, <1>3, Zenon

(* What the worker does over an event, in the stream *)
LEMMA WriteMaps ==
  ASSUME phase = "write", off' = FALSE, IsSeq(wanted), NEW x, wanted' = wanted \/ wanted' = Append(wanted, x),
         actions' = actions, Write(perf'), perf'.gone \in BOOLEAN
  PROVE  Stream!StreamNext \/ StreamSame
<1>1. CASE perf'.gone
  <2>1. broken' = TRUE /\ phase' = "read"
    BY <1>1, Zenon DEF Write
  <2>. QED
    BY <2>1, CloseMaps, GiveUpMaps, Zenon
<1>2. CASE ~perf'.gone
  <2>1. phase' = "write"
    BY <1>2, Zenon DEF Write
  <2>2. CASE wanted' = wanted
    BY <2>1, <2>2, ModeIs, ModeWas, Zenon DEF StreamSame
  <2>3. CASE wanted' = Append(wanted, x)
    BY <2>1, <2>3, FindMaps, Zenon
  <2>. QED
    BY <2>2, <2>3, Zenon
<1>. QED
  BY <1>1, <1>2, Zenon

(* The invariant holds after the step, which is one of the stream or none *)
Simulated == StreamInv' /\ (Stream!StreamNext \/ StreamSame)

(* An error of the decoder *)
LEMMA ErrorStep ==
  ASSUME Assumed, StreamInv, NEW e \in Errors, Error(e), ~perf'.file.wrapped
  PROVE  Simulated
<1>1. phase = "write" /\ Writing /\ now < MaxDecoded /\ now' = now + 1 /\ now \in Nat
  BY Zenon DEF StreamInv, Error
<1>2. UNCHANGED <<param, block, ptr, m_vec, actions, off>> /\ off = FALSE
  BY <1>1, Zenon DEF Error, Writing
<1>3. PICK V, c, d : Worker(perf, V, c, d, wanted, param) /\ Len(V) <= 2 * now
  BY <1>1, Zenon DEF Writing
<1>4. PICK record : record = [type |-> "error", tid |-> e.tid, ts |-> now, code |-> e.code]
  BY Zenon
<1>5. /\ perf' = [perf EXCEPT !.file = Fwrite(@, record)] /\ Write(perf')
      /\ wanted' = IF e.code = LOST THEN Append(wanted, ErrorAction(e.tid, now)) ELSE wanted
  <2>1. PICK v : v = [perf EXCEPT !.file = Fwrite(@, record)]
    BY Zenon
  <2>2. Write(v) /\ wanted' = IF e.code = LOST THEN Append(wanted, ErrorAction(e.tid, now)) ELSE wanted
    BY <1>4, <2>1, Zenon DEF Error
  <2>3. perf' = v /\ Write(perf')
    BY <2>2, Zenon DEF Write
  <2>. QED
    BY <2>1, <2>2, <2>3, Zenon
<1>6. PICK more, w, want, t, p : more = wanted' /\ w = perf /\ want = wanted /\ t = now /\ p = param
  BY Zenon
<1>7. \E c2, d2 : Worker([w EXCEPT !.file = Fwrite(@, record)], V, c2, d2, more, p)
  <2>1. NamesFit /\ NumbersFit /\ Worker(w, V, c, d, want, p) /\ ~w.gone
    BY <1>1, <1>3, <1>6, Zenon DEF Assumed, Writing
  <2>2. record = [type |-> "error", tid |-> e.tid, ts |-> t, code |-> e.code]
    BY <1>4, <1>6, Zenon
  <2>3. more = IF e.code = LOST THEN Append(want, ErrorAction(e.tid, t)) ELSE want
    BY <1>5, <1>6, Zenon
  <2>4. ~[w EXCEPT !.file = Fwrite(@, record)].file.wrapped
    BY <1>5, <1>6, Zenon
  <2>. QED
    BY <2>1, <2>2, <2>3, <2>4, ErrorKeeps, Zenon
<1>8. PICK c2, d2 : Worker(perf', V, c2, d2, wanted', param)
  BY <1>5, <1>6, <1>7, Zenon
<1>9. Len(V) \in Nat /\ MaxDecoded \in Nat /\ IsSeq(wanted)
  BY <1>3, SeqAppend, Zenon DEF Worker, Hist, Assumed, NumbersFit
<1>10. now' \in Nat /\ now' <= MaxDecoded /\ Len(V) <= 2 * now'
  BY <1>1, <1>3, <1>9
<1>11. StreamInv'
  BY <1>1, <1>2, <1>5, <1>8, <1>10, WriteKeeps, Zenon DEF Assumed
<1>12. Stream!StreamNext \/ StreamSame
  <2>1. wanted' = wanted \/ wanted' = Append(wanted, ErrorAction(e.tid, now))
    BY <1>5, Zenon
  <2>2. perf'.gone \in BOOLEAN
    BY <1>8, Zenon DEF Worker
  <2>. QED
    BY <1>1, <1>2, <1>5, <1>9, <2>1, <2>2, WriteMaps
<1>. QED
  BY <1>11, <1>12, Zenon DEF Simulated

(* A branch: not printed when the analysis does not need it *)
LEMMA BranchStep ==
  ASSUME Assumed, StreamInv, NEW b \in Branches, Branch(b), ~perf'.file.wrapped
  PROVE  Simulated
<1>1. phase = "write" /\ Writing /\ now < MaxDecoded /\ now' = now + 1 /\ now \in Nat /\ param \in Params
  BY Zenon DEF StreamInv, Branch
<1>2. UNCHANGED <<param, block, ptr, m_vec, actions, off>> /\ off = FALSE
  BY <1>1, Zenon DEF Branch, Writing
<1>3. PICK V, c, d : Worker(perf, V, c, d, wanted, param) /\ Len(V) <= 2 * now
  BY <1>1, Zenon DEF Writing
<1>4. PICK found, t : found = [tid |-> b.tid, ts |-> t, type |-> b.type, from |-> b.from, to |-> b.to] /\ t = now
  BY Zenon
<1>5. /\ wanted' = IF Needed(param, found) THEN Append(wanted, ActionOf(found)) ELSE wanted
      /\ Printed(param, found) => FprintCompact(found)
      /\ ~Printed(param, found) => UNCHANGED <<perf, phase, broken, file>>
  BY <1>4, Zenon DEF Branch
<1>6. Len(V) \in Nat /\ MaxDecoded \in Nat /\ IsSeq(wanted) /\ perf.freed \in BOOLEAN
  BY <1>3, SeqAppend, Zenon DEF Worker, Hist, Assumed, NumbersFit
<1>7. now' \in Nat /\ now' <= MaxDecoded
  BY <1>1, <1>6
<1>8. CASE ~Printed(param, found)
  <2>1. ~Needed(param, found)
    <3>1. FiltersMatch(param)
      BY <1>1, Zenon DEF Assumed
    <3>. QED
      BY <1>4, <1>8, <3>1, FiltersKeep
  <2>2. wanted' = wanted /\ UNCHANGED <<perf, phase, broken, file>>
    BY <1>5, <1>8, <2>1, Zenon
  <2>3. Len(V) <= 2 * now'
    BY <1>1, <1>3, <1>6
  <2>4. Writing'
    BY <1>1, <1>2, <1>3, <2>2, <2>3 DEF Writing
  <2>5. StreamInv'
    BY <1>1, <1>2, <1>7, <2>2, <2>4 DEF StreamInv
  <2>6. StreamSame
    BY <1>1, <1>2, <2>2, ModeIs, ModeWas DEF StreamSame
  <2>. QED
    BY <2>5, <2>6, Zenon DEF Simulated
<1>9. CASE Printed(param, found)
  <2>1. FprintCompact(found)
    BY <1>5, <1>9, Zenon
  <2>2. PICK w1 \in {LookupAndAdd(perf, Output(found.from))} :
          \E w2 \in {LookupAndAdd(w1, Output(found.to))} :
          LET freed == Full(w1) /\ w2.sym_id # w1.sym_id
          IN  \E from \in {w1.id} \cup (IF freed THEN 0..w2.sym_id - 1 \cup {Junk} ELSE {}) :
                Write(IF w2.gone THEN w2
                      ELSE [w2 EXCEPT !.file = Fwrite(@, BranchRecord(found, from, w2.id, from # w1.id)),
                                      !.freed = @ \/ freed])
    BY Zenon, <2>1 DEF FprintCompact
  <2>3. PICK w2 \in {LookupAndAdd(w1, Output(found.to))} :
          LET freed == Full(w1) /\ w2.sym_id # w1.sym_id
          IN  \E from \in {w1.id} \cup (IF freed THEN 0..w2.sym_id - 1 \cup {Junk} ELSE {}) :
                Write(IF w2.gone THEN w2
                      ELSE [w2 EXCEPT !.file = Fwrite(@, BranchRecord(found, from, w2.id, from # w1.id)),
                                      !.freed = @ \/ freed])
    BY Zenon, <2>2
  <2>4. PICK freed \in BOOLEAN : freed = (Full(w1) /\ w2.sym_id # w1.sym_id)
    BY Zenon
  <2>5. PICK from \in {w1.id} \cup (IF freed THEN 0..w2.sym_id - 1 \cup {Junk} ELSE {}) :
          Write(IF w2.gone THEN w2
                ELSE [w2 EXCEPT !.file = Fwrite(@, BranchRecord(found, from, w2.id, from # w1.id)), !.freed = @ \/ freed])
    BY Zenon, <2>3, <2>4
  <2>6. PICK v : v = IF w2.gone THEN w2
                     ELSE [w2 EXCEPT !.file = Fwrite(@, BranchRecord(found, from, w2.id, from # w1.id)), !.freed = @ \/ freed]
    BY Zenon
  <2>7. perf' = v /\ Write(perf')
    <3>1. Write(v)
      BY Zenon, <2>5, <2>6
    <3>. QED
      BY <3>1, Zenon DEF Write
  <2>8. PICK more, w, want, p : more = wanted' /\ w = perf /\ want = wanted /\ p = param
    BY Zenon
  <2>9. PICK W, c2, d2 : Worker(v, W, c2, d2, more, p) /\ Len(W) <= Len(V) + 2
    <3>1. NamesFit /\ KeysTell /\ NumbersFit /\ Worker(w, V, c, d, want, p) /\ ~w.gone /\ Printed(p, found)
      BY <1>1, <1>3, <1>9, <2>8, Zenon DEF Assumed, Writing
    <3>2. Len(V) + 2 <= Junk
      <4>1. 2 * MaxDecoded <= Junk /\ Junk \in Nat
        BY JunkIs DEF Assumed, NumbersFit
      <4>. QED
        BY <1>1, <1>3, <1>6, <4>1
    <3>3. more = IF Needed(p, found) THEN Append(want, ActionOf(found)) ELSE want
      BY <1>5, <2>8, Zenon
    <3>4. w1 = LookupAndAdd(w, Output(found.from)) /\ w2 = LookupAndAdd(w1, Output(found.to))
      BY <2>8, Zenon
    <3>5. from = w1.id \/ (freed = TRUE /\ from \in 0..w2.sym_id - 1 \cup {Junk})
      BY <2>4, <2>5, Zenon
    <3>6. ~v.file.wrapped
      BY <2>7, Zenon
    <3>7. BranchIs(b, t, p, found, want, more)
      BY <1>4, <3>1, <3>3, Zenon DEF BranchIs
    <3>8. BranchWrites(w, found, w1, w2, from, freed, v)
      BY <2>6, <3>4, <3>5, <3>6 DEF BranchWrites
    <3>. QED
      BY <3>1, <3>2, <3>7, <3>8, BranchKeeps, Zenon
  <2>10. Worker(perf', W, c2, d2, wanted', param)
    BY <2>7, <2>8, <2>9, Zenon
  <2>11. Len(W) <= 2 * now'
    <3>1. Len(W) \in Nat
      BY <2>9, SeqAppend, Zenon DEF Worker, Hist
    <3>. QED
      BY <1>1, <1>3, <1>6, <2>9, <3>1
  <2>12. StreamInv'
    BY <1>1, <1>2, <1>7, <2>7, <2>10, <2>11, WriteKeeps DEF Assumed
  <2>13. Stream!StreamNext \/ StreamSame
    <3>1. wanted' = wanted \/ wanted' = Append(wanted, ActionOf(found))
      BY <1>5, Zenon
    <3>2. perf'.gone \in BOOLEAN
      BY <2>10, Zenon DEF Worker
    <3>. QED
      BY <1>1, <1>2, <1>6, <2>7, <3>1, <3>2, WriteMaps
  <2>. QED
    BY <2>12, <2>13, Zenon DEF Simulated
<1>. QED
  BY <1>8, <1>9, Zenon

-----------------------------------------------------------------------------
(* One more element is read *)
LEMMA GotMore ==
  ASSUME NEW s, NEW n \in Nat, NEW W, Got(s, n, W), NEW e, e = W[n + 1]
  PROVE  Got(Append(s, e), n + 1, W)
<1>1. /\ IsSeq(Append(s, e)) /\ Len(Append(s, e)) = n + 1 /\ Append(s, e)[n + 1] = e
      /\ \A j \in 1..n : Append(s, e)[j] = W[j]
  BY SeqAppend DEF Got
<1>2. \A j \in 1..(n + 1) : j = n + 1 \/ j \in 1..n
  OBVIOUS
<1>. QED
  BY <1>1, <1>2, Zenon DEF Got

(* The parse job reads the record r: m2 and a2 are its symbols and actions then *)
Reads(r, m, m2, a, a2, p) ==
  LET action == [tid |-> Rvalue(r.tid), ts |-> r.ts, type |-> r.flag,
                 from |-> m[Rvalue(r.from) + 1], to |-> m[Rvalue(r.to) + 1]]
  IN  \/ r.type = "symbol" /\ m2 = Append(m, SymbolIn(r)) /\ a2 = a
      \/ /\ r.type = "branch" /\ Rvalue(r.from) < Len(m) /\ Rvalue(r.to) < Len(m)
         /\ a2 = (IF Added(p, action) THEN Append(a, action) ELSE a) /\ m2 = m
      \/ /\ r.type = "error" /\ m2 = m
         /\ a2 = IF r.code = LOST THEN Append(a, ErrorAction(Rvalue(r.tid), r.ts)) ELSE a

(* The next one of the wanted actions arrives, or none *)
Arrived(a, a2, d0, d1, want) ==
  (a2 = a /\ d1 = d0) \/ (d1 = d0 + 1 /\ a2 = Append(a, want[d1]))

(* create_action_from_binary() and init_action() take a record with the right   *)
(* numbers for what it means                                                    *)
LEMMA ReadMeans ==
  ASSUME NEW r, NEW c0 \in Nat, NEW c1 \in Nat, NEW d0 \in Nat, NEW d1 \in Nat, NEW V, NEW want, NEW p, NEW freed,
         NEW m, NEW m2, NEW a, NEW a2,
         Means(r, c0, c1, d0, d1, V, want, p, freed), Got(m, c0, V), Got(a, d0, want), ~Misnumbered(r),
         Reads(r, m, m2, a, a2, p)
  PROVE  Got(m2, c1, V) /\ Arrived(a, a2, d0, d1, want)
<1>1. CASE SymbolMeans(r, c0, c1, d0, d1, V)
  <2>1. m2 = Append(m, SymbolIn(r)) /\ a2 = a /\ d1 = d0 /\ c1 = c0 + 1 /\ SymbolIn(r) = V[c0 + 1]
    BY <1>1, Zenon DEF SymbolMeans, Reads
  <2>2. Got(m2, c0 + 1, V)
    BY <2>1, GotMore, Zenon
  <2>. QED
    BY <2>1, <2>2, Zenon DEF Arrived
<1>2. CASE BranchMeans(r, c0, c1, d0, d1, V, want, p, freed)
  <2>1. r.type = "branch" /\ c1 = c0 /\ Len(m) = c0
    BY <1>2, Zenon DEF BranchMeans, Got
  <2>2. /\ r.tid \in UINT32 /\ r.from \in UINT32 /\ r.to \in UINT32 /\ r.from \in Nat /\ r.to \in Nat
    BY <2>1 DEF Means, Numbered, UINT32
  <2>3. Rvalue(r.tid) = r.tid /\ Rvalue(r.from) = r.from /\ Rvalue(r.to) = r.to
    BY <2>2, NumberRead, Zenon
  <2>4. r.from < c0 /\ r.to < c0 /\ m2 = m
    BY <2>1, <2>3 DEF Reads
  <2>6. ~r.stale
    BY <2>1, Zenon DEF Misnumbered
  <2>7. r.from + 1 \in 1..c0 /\ r.to + 1 \in 1..c0
    BY <2>2, <2>4
  <2>8. PICK action : action = ActionIn(r, V)
    BY Zenon
  <2>9. action = [tid |-> r.tid, ts |-> r.ts, type |-> r.flag, from |-> m[r.from + 1], to |-> m[r.to + 1]]
    BY <2>7, <2>8, Zenon DEF ActionIn, Got
  <2>10. a2 = IF Added(p, action) THEN Append(a, action) ELSE a
    BY <2>1, <2>3, <2>9, Zenon DEF Reads
  <2>11. /\ Added(p, action) => d1 = d0 + 1 /\ want[d1] = action
         /\ ~Added(p, action) => d1 = d0
    BY <1>2, <2>6, <2>8, Zenon DEF BranchMeans, Step
  <2>. QED
    BY <2>1, <2>4, <2>10, <2>11, Zenon DEF Arrived
<1>3. CASE ErrorMeans(r, c0, c1, d0, d1, want)
  <2>1. r.type = "error" /\ c1 = c0 /\ r.tid \in UINT32
    BY <1>3, Zenon DEF ErrorMeans, Means, Numbered
  <2>2. Rvalue(r.tid) = r.tid
    BY <2>1, NumberRead, Zenon
  <2>3. m2 = m /\ a2 = IF r.code = LOST THEN Append(a, ErrorAction(r.tid, r.ts)) ELSE a
    BY <2>1, <2>2, Zenon DEF Reads
  <2>. QED
    BY <1>3, <2>1, <2>3, Zenon DEF Arrived, ErrorMeans, Step
<1>. QED
  BY <1>1, <1>2, <1>3, Zenon DEF Means

(* A symbol whose number is not the next one, a branch of symbols it does not know *)
Unreadable(r, m) ==
  \/ r.type = "symbol" /\ r.id # Len(m)
  \/ r.type = "branch" /\ ~(Rvalue(r.from) < Len(m) /\ Rvalue(r.to) < Len(m))

(* Unless an entry of the cache was used after it was freed, the numbers of a    *)
(* record are right and the reader knows its symbols                             *)
LEMMA MeansReadable ==
  ASSUME NEW r, NEW c0 \in Nat, NEW c1 \in Nat, NEW d0 \in Nat, NEW d1 \in Nat, NEW V, NEW want, NEW p, NEW freed, NEW m,
         Means(r, c0, c1, d0, d1, V, want, p, freed), Got(m, c0, V), freed = FALSE
  PROVE  ~Unreadable(r, m) /\ ~Misnumbered(r)
<1>1. CASE SymbolMeans(r, c0, c1, d0, d1, V)
  BY <1>1, Zenon DEF SymbolMeans, Unreadable, Misnumbered, Got
<1>2. CASE BranchMeans(r, c0, c1, d0, d1, V, want, p, freed)
  <2>1. r.type = "branch" /\ r.stale = FALSE /\ r.from < c0 /\ r.to < c0 /\ Len(m) = c0
    BY <1>2, Zenon DEF BranchMeans, Got
  <2>2. r.from \in UINT32 /\ r.to \in UINT32
    BY <2>1, Zenon DEF Means, Numbered
  <2>3. Rvalue(r.from) = r.from /\ Rvalue(r.to) = r.to
    BY <2>2, NumberRead, Zenon
  <2>. QED
    BY <2>1, <2>3, Zenon DEF Unreadable, Misnumbered
<1>3. CASE ErrorMeans(r, c0, c1, d0, d1, want)
  BY <1>3, Zenon DEF ErrorMeans, Unreadable, Misnumbered
<1>. QED
  BY <1>1, <1>2, <1>3, Zenon DEF Means

(* What Hist says of the next record *)
LEMMA NextMeans ==
  ASSUME NEW f, NEW V, NEW c, NEW d, NEW want, NEW p, NEW freed, Hist(f, V, c, d, want, p, freed),
         NEW n \in Nat, n + 1 \in 1..Len(f.placed)
  PROVE  /\ c[n] \in Nat /\ c[n + 1] \in Nat /\ d[n] \in Nat /\ d[n + 1] \in Nat
         /\ c[n] <= Len(V) /\ d[n + 1] <= Len(want) /\ Len(V) \in Nat /\ Len(want) \in Nat
         /\ Means(f.records[n + 1], c[n], c[n + 1], d[n], d[n + 1], V, want, p, freed)
<1>1. PICK N \in Nat : N = Len(f.placed)
  BY Zenon DEF Hist
<1>2. n \in 0..N /\ n + 1 \in 0..N /\ n + 1 \in 1..N
  BY <1>1
<1>3. /\ c \in [0..N -> Nat] /\ d \in [0..N -> Nat]
      /\ \A i \in 0..N : c[i] <= Len(V) /\ d[i] <= Len(want)
      /\ \A i \in 1..N : Means(f.records[i], c[i - 1], c[i], d[i - 1], d[i], V, want, p, freed)
      /\ Len(V) \in Nat /\ Len(want) \in Nat
  BY <1>1, SeqAppend, Zenon DEF Hist
<1>4. PICK k : k = n + 1 /\ k - 1 = n
  OBVIOUS
<1>5. Means(f.records[k], c[k - 1], c[k], d[k - 1], d[k], V, want, p, freed)
  BY <1>2, <1>3, <1>4, Zenon
<1>. QED
  BY <1>2, <1>3, <1>4, <1>5

(* The numbers of all records have 32 bits *)
LEMMA HistNumbered ==
  ASSUME NEW f, NEW V, NEW c, NEW d, NEW want, NEW p, NEW freed, Hist(f, V, c, d, want, p, freed)
  PROVE  AllNumbered(f)
BY Zenon DEF Hist, Means, AllNumbered

-----------------------------------------------------------------------------
(* The loop of the parse job is at a record *)
LEMMA AtIs == AtRecord <=> At(file, block, ptr)
BY Zenon DEF AtRecord, At

(* The next block; behind the last one of a complete file all actions have arrived *)
LEMMA NextBlockStep ==
  ASSUME StreamInv, NextBlock
  PROVE  Simulated
<1>1. /\ phase = "read" /\ ~At(file, block, ptr) /\ block' = block + 1 /\ ptr' = (block + 1) * B
      /\ phase' = IF ptr' >= Len(file) THEN "done" ELSE "read"
      /\ UNCHANGED <<param, now, wanted, perf, broken, file, m_vec, actions, off>>
  BY AtIs, Zenon DEF NextBlock, B
<1>0. CASE off = TRUE
  <2>1. Mode = "stray" /\ Lost
    BY <1>0, <1>1, ModeIs, Zenon DEF StreamInv
  <2>2. StreamInv'
    BY <1>0, <1>1, <2>1 DEF StreamInv, Lost
  <2>3. CASE phase' = "read"
    <3>1. Mode' = "stray"
      BY <1>0, <1>1, <2>3, ModeWas, Zenon
    <3>. QED
      BY <1>1, <2>1, <2>2, <3>1, Zenon DEF Simulated, StreamSame
  <2>4. CASE phase' = "done"
    <3>1. Mode' = "done"
      BY <2>4, ModeWas, Zenon
    <3>2. Stream!Finish
      BY <1>1, <2>1, <3>1 DEF Stream!Finish
    <3>. QED
      BY <2>2, <3>2, Zenon DEF Simulated, Stream!StreamNext
  <2>. QED
    BY <1>1, <2>3, <2>4, Zenon
<1>. SUFFICES ASSUME off = FALSE PROVE Simulated
  BY <1>0, Zenon DEF StreamInv
<1>2. PICK V, c, d, n : ReadAt(V, c, d, n)
  BY <1>1, Zenon DEF StreamInv
<1>3. /\ DiskOK(perf.file) /\ Hist(perf.file, V, c, d, wanted, param, perf.freed)
      /\ Pos(perf.file, block, ptr, n) /\ Got(m_vec, c[n], V) /\ Got(actions, d[n], wanted)
      /\ broken = FALSE => FileRead(file, perf.file, TRUE) /\ Known(perf.file, d, Len(wanted))
  BY <1>2, Zenon DEF ReadAt
<1>4. PICK complete : FileRead(file, perf.file, complete)
  BY <1>2, Zenon DEF ReadAt
<1>5. Len(file) \in Nat /\ (block + 1) * B \in Nat
  <2>1. block \in Nat
    BY <1>3, Zenon DEF Pos
  <2>2. (block + 1) * B \in Nat
    BY <2>1, BlockPositive
  <2>. QED
    BY <1>3, <1>4, <2>2, PosIs, Zenon
<1>6. CASE ~(ptr' >= Len(file))
  <2>1. (block + 1) * B < Len(file) /\ phase' = "read"
    BY <1>1, <1>5, <1>6
  <2>2. Pos(perf.file, block + 1, (block + 1) * B, n)
    BY <1>1, <1>3, <1>4, <2>1, BlockOn, Zenon
  <2>3. ReadAt(V, c, d, n)'
    BY <1>1, <1>2, <2>2, Zenon DEF ReadAt
  <2>4. StreamInv'
    BY <1>1, <2>1, <2>3, Zenon DEF StreamInv
  <2>5. StreamSame
    BY <1>1, <2>1, Zenon DEF StreamSame, Mode, Faulty
  <2>. QED
    BY <2>4, <2>5, Zenon DEF Simulated
<1>7. CASE ptr' >= Len(file)
  <2>1. ~((block + 1) * B < Len(file)) /\ phase' = "done"
    BY <1>1, <1>5, <1>7
  <2>2. StreamInv'
    BY <1>1, <2>1, Zenon DEF StreamInv
  <2>3. Mode' = "done"
    BY <2>1, ModeWas, Zenon
  <2>4. CASE Faulty
    <3>1. Mode = "broken"
      BY <1>1, <2>4, ModeIs, Zenon
    <3>2. Stream!Finish
      BY <1>1, <2>3, <3>1, Zenon DEF Stream!Finish
    <3>. QED
      BY <2>2, <3>2, Zenon DEF Simulated, Stream!StreamNext
  <2>5. CASE ~Faulty
    <3>1. Mode = "intact"
      BY <1>1, <2>5, ModeIs, Zenon
    <3>2. broken = FALSE
      BY <2>5, Zenon DEF Faulty, StreamInv
    <3>3. n = Len(perf.file.placed)
      BY <1>1, <1>3, <2>1, <3>2, AtEnd, Zenon
    <3>4. d[n] = Len(wanted)
      BY <1>3, <3>2, <3>3, Zenon DEF Known
    <3>5. actions = wanted
      <4>1. IsSeq(actions) /\ IsSeq(wanted) /\ Len(actions) = Len(wanted) /\ \A j \in 1..Len(actions) : actions[j] = wanted[j]
        BY <1>3, <3>4, Zenon DEF Got, Hist
      <4>. QED
        BY <4>1, SeqEqual, Zenon
    <3>6. Stream!Finish
      BY <1>1, <2>3, <3>1, <3>5 DEF Stream!Finish
    <3>. QED
      BY <2>2, <3>6, Zenon DEF Simulated, Stream!StreamNext
  <2>. QED
    BY <2>4, <2>5, Zenon
<1>. QED
  BY <1>6, <1>7, Zenon

(* A reader that has lost its way, or loses it, keeps what it has got *)
LEMMA GoesAstray ==
  ASSUME StreamInv, phase = "read", phase' = "read", Mode \in {"broken", "stray"}, Lost, off' = TRUE,
         UNCHANGED <<param, now, wanted, perf, broken>>,
         IsSeq(actions'), Len(actions') >= Len(actions), SubSeq(actions', 1, Len(actions)) = actions
  PROVE  Simulated
<1>1. StreamInv'
  BY Zenon DEF StreamInv, Lost
<1>2. Mode' = "stray"
  BY ModeWas, Zenon
<1>3. Stream!GoAstray
  BY <1>2, Zenon DEF Stream!GoAstray
<1>. QED
  BY <1>1, <1>3, Zenon DEF Simulated, Stream!StreamNext

(* It may read a record, and then takes it for something else *)
LEMMA StrayReads ==
  ASSUME StreamInv, phase = "read", Mode \in {"broken", "stray"}, Lost, off' = TRUE,
         UNCHANGED <<param, now, wanted, perf, phase, broken>>,
         NEW r, Reads(r, m_vec, m_vec', actions, actions', param)
  PROVE  Simulated
<1>1. IsSeq(actions)
  BY Zenon DEF Lost
<1>2. actions' = actions \/ \E x : actions' = Append(actions, x)
  BY Zenon DEF Reads
<1>3. IsSeq(actions') /\ Len(actions') >= Len(actions) /\ SubSeq(actions', 1, Len(actions)) = actions
  <2>1. Len(actions) \in Nat
    BY <1>1, SeqAppend, Zenon
  <2>2. CASE actions' = actions
    <3>1. Len(actions) <= Len(actions) /\ Len(actions) >= Len(actions)
      BY <2>1
    <3>. QED
      BY <1>1, <2>2, <3>1, SeqPrefix, Zenon
  <2>3. CASE \E x : actions' = Append(actions, x)
    <3>1. PICK x : actions' = Append(actions, x)
      BY <2>3, Zenon
    <3>2. IsSeq(actions') /\ Len(actions') = Len(actions) + 1
      BY <1>1, <3>1, SeqAppend, Zenon
    <3>3. Len(actions') >= Len(actions)
      BY <2>1, <3>2
    <3>. QED
      BY <1>1, <3>1, <3>2, <3>3, SeqExtends, Zenon
  <2>. QED
    BY <1>2, <2>2, <2>3, Zenon
<1>. QED
  BY <1>3, GoesAstray, Zenon

(* A record is read: a wanted action arrives, or none was meant *)
LEMMA ReadRecordStep ==
  ASSUME StreamInv, ReadRecord, ~perf'.file.wrapped
  PROVE  Simulated
<1>1. /\ phase = "read" /\ At(file, block, ptr) /\ Whole(file, block, ptr, Number, Record)
      /\ ReadSymbol(Record) \/ ReadBranch(Record) \/ ReadError(Record)
      /\ ptr' = ptr + ReadSize(Record)
      /\ UNCHANGED <<param, now, wanted, perf, phase, broken, file, block>>
  BY AtIs, Zenon DEF ReadRecord
<1>0. off' = (off \/ Misnumbered(Record))
  BY <1>1, Zenon DEF ReadRecord
<1>11. Reads(Record, m_vec, m_vec', actions, actions', param)
  BY <1>1, Zenon DEF Reads, ReadSymbol, ReadBranch, ReadError, KnownIds, SymbolIn
<1>astray. CASE off = TRUE
  <2>1. Mode = "stray" /\ Lost /\ off' = TRUE
    BY <1>astray, <1>0, <1>1, ModeIs, Zenon DEF StreamInv
  <2>. QED
    BY <1>1, <1>11, <2>1, StrayReads, Zenon
<1>. SUFFICES ASSUME off = FALSE PROVE Simulated
  BY <1>astray, Zenon DEF StreamInv
<1>2. PICK V, c, d, n : ReadAt(V, c, d, n)
  BY <1>1, Zenon DEF StreamInv
<1>3. /\ DiskOK(perf.file) /\ Hist(perf.file, V, c, d, wanted, param, perf.freed)
      /\ Pos(perf.file, block, ptr, n) /\ Got(m_vec, c[n], V) /\ Got(actions, d[n], wanted)
  BY <1>2, Zenon DEF ReadAt
<1>4. PICK complete : FileRead(file, perf.file, complete)
  BY <1>2, Zenon DEF ReadAt
<1>5. AllNumbered(perf.file)
  BY <1>3, HistNumbered, Zenon
<1>6. PICK k : k = Number /\ Record = perf.file.records[k] /\ Here(file, ptr, perf.file, k, Record)
  BY Zenon DEF Number, Record, Here
<1>7. k = n + 1 /\ Pos(perf.file, block, ptr', n + 1)
  <2>1. PICK r, f : r = Record /\ f = perf.file
    BY Zenon
  <2>2. /\ DiskOK(f) /\ Pos(f, block, ptr, n) /\ FileRead(file, f, complete) /\ AllNumbered(f)
        /\ Here(file, ptr, f, k, r) /\ Whole(file, block, ptr, k, r) /\ At(file, block, ptr)
    BY <1>1, <1>3, <1>4, <1>5, <1>6, <2>1, Zenon
  <2>3. k = n + 1 /\ Pos(f, block, ptr + ReadSize(r), n + 1)
    BY <2>2, ReadOn, Zenon
  <2>. QED
    BY <1>1, <2>1, <2>3, Zenon
<1>8. n \in Nat /\ n + 1 \in 1..Len(perf.file.placed)
  <2>1. Len(perf.file.placed) \in Nat
    BY <1>3, Zenon DEF Hist
  <2>2. n \in 0..Len(perf.file.placed) /\ n + 1 \in 0..Len(perf.file.placed)
    BY <1>3, <1>7, Zenon DEF Pos
  <2>. QED
    BY <2>1, <2>2
<1>9. /\ c[n] \in Nat /\ c[n + 1] \in Nat /\ d[n] \in Nat /\ d[n + 1] \in Nat
      /\ c[n] <= Len(V) /\ d[n + 1] <= Len(wanted) /\ Len(V) \in Nat /\ Len(wanted) \in Nat
      /\ Means(perf.file.records[n + 1], c[n], c[n + 1], d[n], d[n + 1], V, wanted, param, perf.freed)
  BY <1>3, <1>8, NextMeans, Zenon
<1>10. PICK c0 \in Nat, c1 \in Nat, d0 \in Nat, d1 \in Nat : c0 = c[n] /\ c1 = c[n + 1] /\ d0 = d[n] /\ d1 = d[n + 1]
  BY <1>9, Zenon
<1>wrong. CASE Misnumbered(Record)
  <2>1. PICK r, freed : r = Record /\ freed = perf.freed
    BY Zenon
  <2>2. Means(r, c0, c1, d0, d1, V, wanted, param, freed) /\ Got(m_vec, c0, V)
    BY <1>3, <1>6, <1>7, <1>9, <1>10, <2>1, Zenon
  <2>3. freed # FALSE
    BY <1>wrong, <2>1, <2>2, MeansReadable, Zenon
  <2>4. IsSeq(actions)
    BY <1>3, Zenon DEF Got
  <2>5. perf.freed = TRUE /\ Lost /\ off' = TRUE
    BY <1>0, <1>wrong, <2>1, <2>3, <2>4, Zenon DEF StreamInv, Lost
  <2>6. Mode = "broken"
    BY <1>1, <2>5, ModeIs, Zenon DEF Faulty
  <2>. QED
    BY <1>1, <1>11, <2>5, <2>6, StrayReads, Zenon
<1>. SUFFICES ASSUME ~Misnumbered(Record) PROVE Simulated
  BY <1>wrong, Zenon
<1>right. off' = FALSE
  BY <1>0, Zenon
<1>12. Got(m_vec', c1, V) /\ Arrived(actions, actions', d0, d1, wanted)
  <2>1. PICK r, freed : r = Record /\ freed = perf.freed
    BY Zenon
  <2>2. Means(r, c0, c1, d0, d1, V, wanted, param, freed)
    BY <1>6, <1>7, <1>9, <1>10, <2>1, Zenon
  <2>3. Got(m_vec, c0, V) /\ Got(actions, d0, wanted)
    BY <1>3, <1>10, Zenon
  <2>4. Reads(r, m_vec, m_vec', actions, actions', param) /\ ~Misnumbered(r)
    BY <1>11, <2>1, Zenon
  <2>. QED
    BY <2>2, <2>3, <2>4, ReadMeans
<1>13. Got(actions', d1, wanted)
  <2>1. CASE actions' = actions /\ d1 = d0
    BY <1>3, <1>10, <2>1, Zenon
  <2>2. CASE d1 = d0 + 1 /\ actions' = Append(actions, wanted[d1])
    <3>1. Got(actions, d0, wanted) /\ wanted[d1] = wanted[d0 + 1]
      BY <1>3, <1>10, <2>2, Zenon
    <3>2. Got(Append(actions, wanted[d1]), d0 + 1, wanted)
      BY <3>1, GotMore, Zenon
    <3>. QED
      BY <2>2, <3>2, Zenon
  <2>. QED
    BY <1>12, <2>1, <2>2, Zenon DEF Arrived
<1>14. ReadAt(V, c, d, n + 1)'
  BY <1>1, <1>2, <1>7, <1>10, <1>12, <1>13, Zenon DEF ReadAt
<1>15. StreamInv'
  BY <1>1, <1>14, <1>right, Zenon DEF StreamInv
<1>16. Mode' = Mode /\ Mode \in {"intact", "broken"}
  BY <1>1, <1>right, Zenon DEF Mode, Faulty
<1>17. CASE actions' = actions
  BY <1>1, <1>15, <1>16, <1>17, Zenon DEF Simulated, StreamSame
<1>18. CASE d1 = d0 + 1 /\ actions' = Append(actions, wanted[d1])
  <2>1. Len(actions) = d0
    BY <1>3, <1>10, Zenon DEF Got
  <2>2. Len(actions) < Len(wanted) /\ d1 = Len(actions) + 1
    BY <1>9, <1>10, <1>18, <2>1
  <2>3. Stream!Arrive
    BY <1>1, <1>16, <1>18, <2>2 DEF Stream!Arrive
  <2>. QED
    BY <1>15, <2>3, Zenon DEF Simulated, Stream!StreamNext
<1>. QED
  BY <1>12, <1>17, <1>18, Zenon DEF Arrived

(* Only after a fault the parse job leaves the records *)
LEMMA GarbledStep ==
  ASSUME StreamInv, Garbled, ~perf'.file.wrapped
  PROVE  Simulated
<1>1. /\ phase = "read" /\ At(file, block, ptr) /\ off' = TRUE
      /\ ~Whole(file, block, ptr, Number, Record) \/ Unreadable(Record, m_vec)
      /\ UNCHANGED <<param, now, wanted, perf, broken>>
  BY AtIs, Zenon DEF Garbled, Unreadable, KnownIds
<1>2. \/ phase' = "crashed" /\ actions' = actions
      \/ phase' = "read" /\ \E n \in 0..MaxStray : actions' = actions \o Strays(n, Stray)
  BY <1>1, Zenon DEF Garbled
<1>3. CASE Faulty
  <2>1. Mode \in {"broken", "stray"} /\ Lost
    <3>1. CASE off = TRUE
      BY <1>1, <3>1, ModeIs, Zenon DEF StreamInv
    <3>2. CASE off = FALSE
      <4>1. Mode = "broken"
        BY <1>1, <1>3, <3>2, ModeIs, Zenon
      <4>2. broken = TRUE \/ perf.freed = TRUE
        BY <1>1, <1>3, Zenon DEF Faulty, StreamInv
      <4>3. IsSeq(actions)
        BY <1>1, <3>2, Zenon DEF StreamInv, ReadAt, Got
      <4>. QED
        BY <4>1, <4>2, <4>3, Zenon DEF Lost
    <3>. QED
      BY <3>1, <3>2, Zenon DEF StreamInv
  <2>2. CASE phase' = "crashed" /\ actions' = actions
    <3>1. Faulty'
      BY <1>1, <1>3, Zenon DEF Faulty
    <3>2. Mode' = "done"
      BY <2>2, <3>1, ModeWas, Zenon
    <3>3. Stream!Finish
      BY <1>1, <2>1, <2>2, <3>2 DEF Stream!Finish
    <3>4. StreamInv'
      BY <1>1, <2>2 DEF StreamInv
    <3>. QED
      BY <3>3, <3>4, Zenon DEF Simulated, Stream!StreamNext
  <2>3. CASE phase' = "read" /\ \E n \in 0..MaxStray : actions' = actions \o Strays(n, Stray)
    <3>1. PICK n \in 0..MaxStray : actions' = actions \o Strays(n, Stray)
      BY <2>3, Zenon
    <3>2. n \in Nat
      BY ScriptAssumption
    <3>3. IsSeq(actions') /\ Len(actions') >= Len(actions) /\ SubSeq(actions', 1, Len(actions)) = actions
      BY <2>1, <3>1, <3>2, SeqStrays, Zenon DEF Lost
    <3>. QED
      BY <1>1, <2>1, <2>3, <3>3, GoesAstray, Zenon
  <2>. QED
    BY <1>2, <2>2, <2>3, Zenon
<1>4. CASE ~Faulty
  <2>1. broken = FALSE /\ perf.freed = FALSE
    BY <1>4, Zenon DEF Faulty, StreamInv
  <2>2. PICK V, c, d, n : ReadAt(V, c, d, n)
    BY <1>1, <2>1, Zenon DEF StreamInv, Lost
  <2>3. /\ DiskOK(perf.file) /\ Hist(perf.file, V, c, d, wanted, param, perf.freed)
        /\ Pos(perf.file, block, ptr, n) /\ Got(m_vec, c[n], V) /\ FileRead(file, perf.file, TRUE)
    BY <2>1, <2>2, Zenon DEF ReadAt
  <2>4. AllNumbered(perf.file)
    BY <2>3, HistNumbered, Zenon
  <2>5. PICK k : k = Number /\ Record = perf.file.records[k] /\ Here(file, ptr, perf.file, k, Record)
    BY Zenon DEF Number, Record, Here
  <2>6. k = n + 1 /\ n + 1 \in 1..Len(perf.file.placed) /\ Whole(file, block, ptr, k, Record)
    <3>1. PICK r, f : r = Record /\ f = perf.file
      BY Zenon
    <3>2. /\ DiskOK(f) /\ Pos(f, block, ptr, n) /\ FileRead(file, f, TRUE) /\ AllNumbered(f)
          /\ Here(file, ptr, f, k, r) /\ At(file, block, ptr)
      BY <1>1, <2>3, <2>4, <2>5, <3>1, Zenon
    <3>3. k = n + 1 /\ n + 1 \in 1..Len(f.placed) /\ Whole(file, block, ptr, k, r)
      BY <3>2, WholeThere, Zenon
    <3>. QED
      BY <3>1, <3>3, Zenon
  <2>7. n \in Nat
    <3>1. n \in 0..Len(perf.file.placed)
      BY <2>3, Zenon DEF Pos
    <3>. QED
      BY <3>1
  <2>8. /\ c[n] \in Nat /\ c[n + 1] \in Nat /\ d[n] \in Nat /\ d[n + 1] \in Nat
        /\ Means(perf.file.records[n + 1], c[n], c[n + 1], d[n], d[n + 1], V, wanted, param, perf.freed)
    BY <2>3, <2>6, <2>7, NextMeans, Zenon
  <2>9. PICK c0 \in Nat, c1 \in Nat, d0 \in Nat, d1 \in Nat : c0 = c[n] /\ c1 = c[n + 1] /\ d0 = d[n] /\ d1 = d[n + 1]
    BY <2>8, Zenon
  <2>10. ~Unreadable(Record, m_vec)
    <3>1. PICK r, freed : r = Record /\ freed = perf.freed
      BY Zenon
    <3>2. Means(r, c0, c1, d0, d1, V, wanted, param, freed) /\ Got(m_vec, c0, V) /\ freed = FALSE
      BY <2>1, <2>3, <2>5, <2>6, <2>8, <2>9, <3>1, Zenon
    <3>. QED
      BY <3>1, <3>2, MeansReadable, Zenon
  <2>. QED
    BY <1>1, <2>5, <2>6, <2>10
<1>. QED
  BY <1>3, <1>4, Zenon

-----------------------------------------------------------------------------
(* The worker ends, or is killed *)
LEMMA EndStep ==
  ASSUME Assumed, StreamInv, Close \/ Killed
  PROVE  Simulated
<1>1. /\ phase = "write" /\ phase' = "read" /\ Writing
      /\ UNCHANGED <<param, now, wanted, perf, block, ptr, m_vec, actions, off>> /\ off = FALSE
  BY Zenon DEF StreamInv, Close, Killed, Writing
<1>2. PICK V, c, d : Worker(perf, V, c, d, wanted, param) /\ Len(V) <= 2 * now
  BY <1>1, Zenon DEF Writing
<1>3. Len(perf.file.buf) \in 0..Len(perf.file.buf)
  <2>1. DiskTypes(perf.file)
    BY <1>2, Zenon DEF Worker, DiskOK
  <2>2. Len(perf.file.buf) \in Nat
    BY <2>1 DEF DiskTypes
  <2>. QED
    BY <2>2
<1>4. PICK k \in 0..Len(perf.file.buf) :
        file' = OnDisk(perf.file, k) /\ broken' \in BOOLEAN /\ (broken' = FALSE => k = Len(perf.file.buf))
  <2>1. CASE Close
    BY <1>3, <2>1, Zenon DEF Close, StreamInv
  <2>2. CASE Killed
    BY <2>2, Zenon DEF Killed
  <2>. QED
    BY <2>1, <2>2, Zenon
<1>5. /\ Worker(perf', V, c, d, wanted', param) /\ Len(V) <= 2 * now' /\ k \in 0..Len(perf'.file.buf)
      /\ file' = OnDisk(perf'.file, k) /\ (broken' = FALSE => k = Len(perf'.file.buf) /\ ~perf'.gone)
      /\ now' \in Nat /\ now' <= MaxDecoded
  <2>1. ~perf.gone /\ now \in Nat /\ now <= MaxDecoded
    BY <1>1, Zenon DEF Writing, StreamInv
  <2>2. perf' = perf /\ wanted' = wanted /\ now' = now
    BY <1>1, Zenon
  <2>. QED
    BY <1>2, <1>4, <2>1, <2>2, Zenon
<1>6. StreamInv'
  <2>1. NumbersFit /\ param' = param /\ UNCHANGED <<block, ptr, m_vec, actions, off>>
    BY <1>1, Zenon DEF Assumed
  <2>. QED
    BY <1>1, <1>4, <1>5, <2>1, StopKeeps, Zenon
<1>7. Stream!StreamNext
  BY <1>1, CloseMaps, Zenon
<1>. QED
  BY <1>6, <1>7, Zenon DEF Simulated

(* The first state *)
LEMMA StartsRight ==
  ASSUME Assumed, Init
  PROVE  StreamInv /\ Stream!StreamInit
<1>1. /\ param \in Params /\ now = 0 /\ wanted = <<>> /\ phase = "write" /\ broken = FALSE
      /\ perf.file = NewFile /\ perf.symbols = <<>> /\ perf.sym_id = 0 /\ perf.gone = FALSE /\ perf.freed = FALSE
      /\ DOMAIN perf = WorkerFields
      /\ block = 0 /\ ptr = 0 /\ m_vec = <<>> /\ actions = <<>> /\ off = FALSE
  BY Zenon DEF Init, WorkerFields
<1>2. DiskOK(NewFile)
  <2>1. DiskTypes(NewFile)
    BY DEF DiskTypes, NewFile
  <2>2. NewFile.base = 0 /\ Len(NewFile.disk) = 0 /\ Len(NewFile.buf) = 0 /\ Len(NewFile.placed) = 0
    BY Zenon DEF NewFile
  <2>3. ftell(NewFile) = 0 /\ End(NewFile, 0) = 0
    BY <2>2 DEF ftell, End
  <2>. QED
    BY <2>1, <2>2, <2>3 DEF DiskOK
<1>3. PICK V, c, d : V = <<>> /\ c = [i \in {0} |-> 0] /\ d = [i \in {0} |-> 0]
  BY Zenon
<1>4. Len(NewFile.placed) = 0 /\ 0..0 = {0} /\ 1..0 = {} /\ Len(V) = 0 /\ IsSeq(V) /\ IsSeq(wanted) /\ Len(wanted) = 0
  BY <1>1, <1>3 DEF NewFile, IsSeq
<1>5. Hist(NewFile, V, c, d, wanted, param, FALSE)
  <2>1. c \in [0..0 -> Nat] /\ d \in [0..0 -> Nat] /\ c[0] = 0 /\ d[0] = 0
    BY <1>3, <1>4
  <2>2. \A i \in 0..0 : c[i] <= 0 /\ d[i] <= 0
    BY <1>4, <2>1
  <2>3. 0 \in Nat /\ 1..Len(V) = {} /\ 1..Len(NewFile.placed) = {}
    BY <1>4
  <2>. QED
    BY <1>4, <2>1, <2>2, <2>3, Zenon DEF Hist
<1>6. Known(NewFile, d, Len(wanted)) /\ CacheSound(perf.symbols, V)
  BY <1>1, <1>3, <1>4 DEF Known, CacheSound
<1>7. Worker(perf, V, c, d, wanted, param)
  BY <1>1, <1>2, <1>4, <1>5, <1>6, Zenon DEF Worker
<1>8. Writing
  BY <1>1, <1>4, <1>7 DEF Writing
<1>9. StreamInv
  <2>1. now \in Nat /\ now <= MaxDecoded
    BY <1>1 DEF Assumed, NumbersFit
  <2>. QED
    BY <1>1, <1>8, <2>1, Zenon DEF StreamInv
<1>10. Stream!StreamInit
  BY <1>1, ModeIs, Zenon DEF Stream!StreamInit
<1>. QED
  BY <1>9, <1>10, Zenon

(* Every step *)
LEMMA EveryStep ==
  ASSUME Assumed, StreamInv, [Next]_vars, ~perf'.file.wrapped
  PROVE  Simulated
<1>1. CASE UNCHANGED vars
  <2>1. StreamInv' /\ StreamSame
    BY <1>1, Zenon DEF StreamInv, StreamSame, vars, readVars, Writing, ReadAt, Lost, Mode, Faulty
  <2>. QED
    BY <2>1, Zenon DEF Simulated
<1>2. CASE \E b \in Branches : Branch(b)
  BY <1>2, BranchStep, Zenon
<1>3. CASE \E e \in Errors : Error(e)
  BY <1>3, ErrorStep, Zenon
<1>4. CASE Close \/ Killed
  BY <1>4, EndStep, Zenon
<1>5. CASE Read
  BY <1>5, NextBlockStep, ReadRecordStep, GarbledStep, Zenon DEF Read
<1>. QED
  BY <1>1, <1>2, <1>3, <1>4, <1>5, Zenon DEF Next

(* No offset of the file has more than 32 bits *)
OffsetsFit == ~perf.file.wrapped

(* For every block size, cache limit, program and recording of which holds   *)
(* what the code takes for granted (Assumed: names and numbers fit, the low  *)
(* 32 bits of addresses tell symbols apart, and the filters look for the     *)
(* functions where they are), and as long as the offsets of the file fit     *)
(* into 32 bits: what the analysis gets, through the filters, the symbol     *)
(* cache, the blocks and the compressed integers, are the actions it needs,  *)
(* each once, as they were and in their order.  They are complete at the end *)
(* and the parse job never leaves the records, unless the worker was killed, *)
(* gave up or used a freed entry of its cache; then they are exact up to the *)
(* first torn record or wrong number, and nothing is said of the rest.       *)
THEOREM StreamImplements ==
  ASSUME Assumed
  PROVE  Spec /\ []OffsetsFit => StreamImplemented
<1>1. Init => StreamInv /\ Stream!StreamInit
  BY StartsRight, Zenon
<1>2. StreamInv /\ [Next]_vars /\ OffsetsFit' => StreamInv' /\ [Stream!StreamNext]_(Stream!streamVars)
  BY EveryStep, Zenon DEF Simulated, StreamSame, OffsetsFit, Stream!streamVars
<1>. QED
  BY <1>1, <1>2, PTL DEF Spec, StreamImplemented, Stream!Stream
=============================================================================
