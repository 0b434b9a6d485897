-------------------------- MODULE SrclineMapProofs --------------------------
(***************************************************************************)
(* RwSpinLock excludes, for every finite set of threads smaller than       *)
(* WRITE, and SrclineMap relies on that: no address is replaced, and every *)
(* block that is printed has its line.  The counter alone does not show    *)
(* exclusion: a writer that read zero is safe only because the counter     *)
(* accounts for every reader (WordCounts), and no reader can come in later *)
(* because the counter stays at zero or below while a writer has taken     *)
(* WRITE off it.                                                           *)
(***************************************************************************)
EXTENDS SrclineMap, FiniteSetTheorems, TLAPS

LockInv == LockTypeOK /\ WordCounts

(* The number of readers is a number below WRITE: 0x20000000 is more than  *)
(* the threads there are, so m_word is positive unless a writer is in.     *)
LEMMA ReadersBounded ==
  /\ IsFiniteSet(Readers)
  /\ Cardinality(Readers) \in Nat
  /\ Cardinality(Readers) < WRITE
<1>1. Readers \subseteq Proc
  BY Zenon DEF Readers
<1>2. IsFiniteSet(Readers) /\ Cardinality(Readers) <= Cardinality(Proc)
  BY <1>1, LockAssumption, FS_Subset, Zenon
<1>3. Cardinality(Readers) \in Nat /\ Cardinality(Proc) \in Nat
  BY <1>2, LockAssumption, FS_CardinalityType, Zenon
<1>. QED
  BY <1>2, <1>3, LockAssumption

(* At most one thread is in x_lock() past m_writer.lock(). *)
LEMMA OneMutexHolder ==
  ASSUME LockInv, NEW p \in MutexHeld
  PROVE  MutexHeld = {p}
BY Zenon DEF LockInv, WordCounts, MutexHeld

(* Initially nobody is in the lock. *)
LEMMA LockInitInv == LockInit => LockInv
<1>. SUFFICES ASSUME LockInit PROVE LockInv
  BY Zenon
<1>1. LockTypeOK
  BY LockAssumption DEF LockInit, LockTypeOK, LockPC
<1>2. Readers = {} /\ Writers = {} /\ Subtracted = {} /\ MutexHeld = {}
  BY Zenon DEF LockInit, Readers, Writers, Subtracted, MutexHeld
<1>3. Cardinality(Readers) = 0
  BY <1>2, FS_EmptySet, Zenon
<1>. QED
  BY <1>1, <1>2, <1>3, LockAssumption DEF LockInv, WordCounts, LockInit

(* A reader that comes in: the counter was positive, so no writer has      *)
(* taken WRITE off it.                                                     *)
LEMMA SCasInv ==
  ASSUME LockInv, NEW p \in Proc, SCas(p)
  PROVE  LockInv'
<1>. USE DEF LockInv
<1>1. LockTypeOK'
  BY DEF LockTypeOK, LockPC, SCas
<1>2. Readers' = Readers \cup {p} /\ p \notin Readers
  BY Zenon DEF Readers, SCas, LockTypeOK
<1>3. Cardinality(Readers') = Cardinality(Readers) + 1
  BY <1>2, ReadersBounded, FS_AddElement, Zenon
<1>4. Subtracted' = Subtracted /\ MutexHeld' = MutexHeld
  BY Zenon DEF Subtracted, MutexHeld, SCas, LockTypeOK
<1>5. m_word > 0
  BY Zenon DEF SCas, WordCounts
<1>6. Subtracted = {}
  BY <1>5, ReadersBounded, LockAssumption DEF WordCounts
<1>7. Writers' = {}
  BY <1>4, <1>6, Zenon DEF Writers, Subtracted
<1>8. m_word' = WRITE - Cardinality(Readers') - (IF Subtracted' = {} THEN 0 ELSE WRITE)
  BY <1>3, <1>4, <1>6, ReadersBounded, LockAssumption DEF WordCounts, SCas
<1>9. \A q \in MutexHeld' : m_writer' = q
  BY <1>4, Zenon DEF WordCounts, SCas
<1>10. \A q \in Proc : lpc'[q] = "s_cas" => lk'[q] > 0
  BY Zenon DEF WordCounts, SCas, LockTypeOK
<1>. QED
  BY <1>1, <1>7, <1>8, <1>9, <1>10, Zenon DEF WordCounts

(* A reader that leaves *)
LEMMA SUnlockInv ==
  ASSUME LockInv, NEW p \in Proc, SUnlock(p)
  PROVE  LockInv'
<1>. USE DEF LockInv
<1>1. LockTypeOK'
  BY DEF LockTypeOK, LockPC, SUnlock
<1>2. Readers' = Readers \ {p} /\ p \in Readers
  BY Zenon DEF Readers, SUnlock, LockTypeOK
<1>3. Cardinality(Readers') = Cardinality(Readers) - 1
  BY <1>2, ReadersBounded, FS_RemoveElement, Zenon
<1>4. Subtracted' = Subtracted /\ MutexHeld' = MutexHeld /\ Writers' = Writers
  BY Zenon DEF Subtracted, MutexHeld, Writers, SUnlock, LockTypeOK
<1>5. m_word' = WRITE - Cardinality(Readers') - (IF Subtracted' = {} THEN 0 ELSE WRITE)
  BY <1>3, <1>4, ReadersBounded, LockAssumption DEF WordCounts, SUnlock
<1>6. Writers' # {} => Readers' = {}
  BY <1>2, <1>4, Zenon DEF WordCounts
<1>7. \A q \in MutexHeld' : m_writer' = q
  BY <1>4, Zenon DEF WordCounts, SUnlock
<1>8. \A q \in Proc : lpc'[q] = "s_cas" => lk'[q] > 0
  BY Zenon DEF WordCounts, SUnlock, LockTypeOK
<1>. QED
  BY <1>1, <1>5, <1>6, <1>7, <1>8, Zenon DEF WordCounts

(* The steps that change none of the sets the counter accounts for *)
LEMMA QuietInv ==
  ASSUME LockInv, NEW p \in Proc,
         SLock(p) \/ SLoad(p) \/ SCasFail(p) \/ XLock(p) \/ XMutex(p) \/ XUnlockMutex(p)
  PROVE  LockInv'
<1>. USE DEF LockInv
<1>1. LockTypeOK'
  BY Zenon DEF LockTypeOK, LockPC, SLock, SLoad, SCasFail, XLock, XMutex, XUnlockMutex
<1>2. Readers' = Readers /\ Writers' = Writers /\ Subtracted' = Subtracted /\ m_word' = m_word
  BY Zenon DEF Readers, Writers, Subtracted, LockTypeOK, SLock, SLoad, SCasFail, XLock, XMutex, XUnlockMutex
<1>3. \A q \in MutexHeld' : m_writer' = q
  <2>1. CASE SLock(p) \/ SLoad(p) \/ SCasFail(p) \/ XLock(p)
    <3>1. MutexHeld' = MutexHeld /\ m_writer' = m_writer
      BY <2>1, Zenon DEF MutexHeld, LockTypeOK, SLock, SLoad, SCasFail, XLock
    <3>. QED
      BY <3>1, Zenon DEF WordCounts
  <2>2. CASE XMutex(p)
    <3>1. MutexHeld = {}
      BY <2>2, LockAssumption, Zenon DEF WordCounts, MutexHeld, XMutex
    <3>. QED
      BY <2>2, <3>1, Zenon DEF MutexHeld, LockTypeOK, XMutex
  <2>3. CASE XUnlockMutex(p)
    <3>1. MutexHeld = {p}
      BY <2>3, OneMutexHolder, Zenon DEF MutexHeld, XUnlockMutex
    <3>. QED
      BY <2>3, <3>1, Zenon DEF MutexHeld, LockTypeOK, XUnlockMutex
  <2>. QED
    BY <2>1, <2>2, <2>3, Zenon
<1>4. \A q \in Proc : lpc'[q] = "s_cas" => lk'[q] > 0
  BY Zenon DEF WordCounts, LockTypeOK, SLock, SLoad, SCasFail, XLock, XMutex, XUnlockMutex
<1>. QED
  BY <1>1, <1>2, <1>3, <1>4, Zenon DEF WordCounts

(* The writer takes WRITE off the counter.  The value it finds is not      *)
(* zero, so it always goes on to wait for the readers.                     *)
LEMMA XSubInv ==
  ASSUME LockInv, NEW p \in Proc, XSub(p)
  PROVE  LockInv'
<1>. USE DEF LockInv
<1>1. LockTypeOK'
  BY LockAssumption DEF LockTypeOK, LockPC, XSub
<1>2. MutexHeld = {p}
  BY OneMutexHolder, Zenon DEF MutexHeld, XSub
<1>3. Subtracted = {}
  BY <1>2, Zenon DEF MutexHeld, Subtracted, XSub
<1>4. m_word = WRITE - Cardinality(Readers) /\ m_word # 0
  BY <1>3, ReadersBounded, LockAssumption DEF WordCounts
<1>5. Readers' = Readers /\ Subtracted' = {p} /\ MutexHeld' = MutexHeld /\ Writers' = {}
  BY <1>3, <1>4, Zenon DEF Readers, Subtracted, MutexHeld, Writers, XSub, LockTypeOK
<1>6. m_word' = WRITE - Cardinality(Readers') - (IF Subtracted' = {} THEN 0 ELSE WRITE)
  BY <1>4, <1>5, ReadersBounded, LockAssumption, Zenon DEF XSub
<1>7. \A q \in MutexHeld' : m_writer' = q
  BY <1>5, Zenon DEF WordCounts, XSub
<1>8. \A q \in Proc : lpc'[q] = "s_cas" => lk'[q] > 0
  BY <1>4, Zenon DEF WordCounts, XSub, LockTypeOK
<1>. QED
  BY <1>1, <1>5, <1>6, <1>7, <1>8, Zenon DEF WordCounts

(* The writer leaves the loop only when the counter says: no reader. *)
LEMMA XSpinInv ==
  ASSUME LockInv, NEW p \in Proc, XSpin(p)
  PROVE  LockInv'
<1>. USE DEF LockInv
<1>1. LockTypeOK'
  BY Zenon DEF LockTypeOK, LockPC, XSpin
<1>2. Readers' = Readers /\ Subtracted' = Subtracted /\ MutexHeld' = MutexHeld /\ m_word' = m_word
  BY Zenon DEF Readers, Subtracted, MutexHeld, XSpin, LockTypeOK
<1>3. MutexHeld = {p} /\ p \in Subtracted
  BY OneMutexHolder, Zenon DEF MutexHeld, Subtracted, XSpin
<1>4. m_word = 0 => Readers = {}
  BY <1>3, ReadersBounded, FS_EmptySet, LockAssumption DEF WordCounts
<1>5. Writers' # {} => m_word = 0
  BY <1>3, Zenon DEF Writers, MutexHeld, XSpin, LockTypeOK
<1>6. \A q \in Proc : lpc'[q] = "s_cas" => lk'[q] > 0
  BY Zenon DEF WordCounts, XSpin, LockTypeOK
<1>. QED
  BY <1>1, <1>2, <1>4, <1>5, <1>6, Zenon DEF WordCounts, XSpin

(* The writer gives WRITE back. *)
LEMMA XUnlockWordInv ==
  ASSUME LockInv, NEW p \in Proc, XUnlockWord(p)
  PROVE  LockInv'
<1>. USE DEF LockInv
<1>1. LockTypeOK'
  BY LockAssumption DEF LockTypeOK, LockPC, XUnlockWord
<1>2. MutexHeld = {p} /\ p \in Subtracted
  BY OneMutexHolder, Zenon DEF MutexHeld, Subtracted, XUnlockWord
<1>3. Readers' = Readers /\ Subtracted' = {} /\ Writers' = {} /\ MutexHeld' = MutexHeld
  BY <1>2, Zenon DEF Readers, Subtracted, Writers, MutexHeld, XUnlockWord, LockTypeOK
<1>4. m_word' = WRITE - Cardinality(Readers') - (IF Subtracted' = {} THEN 0 ELSE WRITE)
  BY <1>2, <1>3, ReadersBounded, LockAssumption DEF WordCounts, XUnlockWord
<1>5. \A q \in Proc : lpc'[q] = "s_cas" => lk'[q] > 0
  BY Zenon DEF WordCounts, XUnlockWord, LockTypeOK
<1>. QED
  BY <1>1, <1>3, <1>4, <1>5, Zenon DEF WordCounts, XUnlockWord

(* The invariant is inductive: one lemma per kind of step. *)
LEMMA LockNextInv == LockInv /\ [LockNext]_lockVars => LockInv'
<1>. SUFFICES ASSUME LockInv, [LockNext]_lockVars PROVE LockInv'
  BY Zenon
<1>1. CASE UNCHANGED lockVars
  BY <1>1, Zenon DEF lockVars, LockInv, LockTypeOK, WordCounts, Readers, Writers, Subtracted, MutexHeld
<1>2. CASE LockNext
  BY <1>2, SCasInv, SUnlockInv, QuietInv, XSubInv, XSpinInv, XUnlockWordInv, Zenon
     DEF LockNext, Acquire
<1>. QED
  BY <1>1, <1>2, Zenon

(* m_word always counts the readers and the writer of the lock. *)
THEOREM LockCounts == LockSpec => []WordCounts
<1>1. LockInv => WordCounts
  BY Zenon DEF LockInv
<1>. QED
  BY <1>1, LockInitInv, LockNextInv, PTL DEF LockSpec

(* No two threads are inside the lock unless all of them read, for every   *)
(* number of threads below WRITE.                                          *)
THEOREM LockExcludes == LockSpec => []MutualExclusion
<1>1. LockInv => MutualExclusion
  <2>. SUFFICES ASSUME LockInv, NEW p \in Writers PROVE Writers = {p} /\ Readers = {}
    BY Zenon DEF MutualExclusion
  <2>1. Writers \subseteq MutexHeld
    BY Zenon DEF Writers, MutexHeld
  <2>2. MutexHeld = {p}
    BY <2>1, OneMutexHolder, Zenon
  <2>. QED
    BY <2>1, <2>2, Zenon DEF LockInv, WordCounts
<1>. QED
  BY <1>1, LockInitInv, LockNextInv, PTL DEF LockSpec

-----------------------------------------------------------------------------
(* The map.  Its clients go through the lock's own operations only. *)
LEMMA ClientNext == [Next]_vars => [LockNext]_lockVars
<1>. SUFFICES ASSUME [Next]_vars PROVE [LockNext]_lockVars
  BY Zenon
<1>1. CASE UNCHANGED vars
  BY <1>1, Zenon DEF vars
<1>2. ASSUME NEW p \in Proc, LockStep(p) PROVE LockNext
  BY <1>2, Zenon DEF LockStep, LockNext
<1>3. ASSUME NEW p \in Job, JobStep(p) PROVE [LockNext]_lockVars
  <2>1. p \in Proc
    BY Zenon DEF Job
  <2>2. SLock(p) \/ XLock(p) \/ SUnlock(p) \/ XUnlockWord(p) \/ UNCHANGED lockVars
    BY <1>3, Zenon DEF JobStep, GetCall, GetFind, GetReturn, PutCall, PutFind, PutInsert, PutReturn
  <2>. QED
    BY <2>1, <2>2, Zenon DEF LockNext
<1>4. ASSUME MainStep PROVE [LockNext]_lockVars
  <2>1. SLock(Main) \/ XLock(Main) \/ SUnlock(Main) \/ XUnlockWord(Main) \/ UNCHANGED lockVars
    BY <1>4, Zenon DEF MainStep, ProcessCall, ProcessAddress, ProcessReturn, PrintCall, PrintFind, PrintReturn
  <2>. QED
    BY <2>1, MapAssumption, Zenon DEF LockNext
<1>. QED
  BY <1>1, <1>2, <1>3, <1>4, Zenon DEF Next

(* get(), put() and process_address() use the lock as its specification    *)
(* says a client does.                                                     *)
THEOREM ClientsLock == Spec => LockSpec
<1>1. Init => LockInit
  BY Zenon DEF Init
<1>. QED
  BY <1>1, ClientNext, PTL DEF Spec, LockSpec

(* So no thread looks into the maps of SrclineMap while another changes    *)
(* them, whatever mix of get(), put() and process_address() they call.     *)
THEOREM MapExcludes == Spec => []MutualExclusion
BY ClientsLock, LockExcludes, PTL

-----------------------------------------------------------------------------
(* A client holds the lock where its program counter says so, and is in    *)
(* one call of the lock at a time.                                         *)
ReadLock == {"s_load", "s_cas", "s_held"}
WriteLock == {"x_lock", "x_sub", "x_spin", "x_held"}

JobAt(c, l) ==
  \/ c = "next" /\ l \in {"none", "x_unlock"}
  \/ c = "get" /\ l \in ReadLock
  \/ c = "got" /\ l = "s_held"
  \/ c = "miss" /\ l = "none"
  \/ c = "put" /\ l \in WriteLock
  \/ c \in {"putting", "stored"} /\ l = "x_held"

MainAt(c, l) ==
  \/ c = "barrier" /\ l = "none"
  \/ c = "process" /\ l \in WriteLock
  \/ c = "processed" /\ l = "x_held"
  \/ c = "print" /\ l \in {"none", "x_unlock"}
  \/ c = "printing" /\ l \in ReadLock
  \/ c = "end" /\ l = "s_held"

Discipline ==
  /\ cpc = [p \in Proc |-> cpc[p]]
  /\ \A p \in Job : JobAt(cpc[p], lpc[p])
  /\ MainAt(cpc[Main], lpc[Main])

(* What find() returned is still true where it is used: a key that was     *)
(* found stays, and nobody inserts while a writer is between its find()    *)
(* and its insertion.                                                      *)
FindHolds ==
  /\ key = [p \in Proc |-> key[p]] /\ found = [p \in Proc |-> found[p]]
  /\ \A p \in Job :
       /\ cpc[p] = "got" /\ found[p] => key[p] \in DOMAIN addr_map
       /\ cpc[p] = "putting" => (found[p] <=> key[p] \in DOMAIN addr_map)
       /\ cpc[p] = "stored" => key[p] \in DOMAIN addr_map

(* Every block that main will print is in the map, or a job has yet to     *)
(* record it; behind the barrier the jobs are idle, and the lines are      *)
(* those of all blocks.                                                    *)
Recorded ==
  /\ todo = [p \in Proc |-> todo[p]]
  /\ \A k \in todo[Main] : k \in DOMAIN addr_map \/ \E p \in Job : k \in todo[p]
  /\ cpc[Main] # "barrier" => JobsIdle
  /\ cpc[Main] \in {"processed", "print", "printing", "end"} /\ addr2line_ok =>
       srcline_map = DOMAIN addr_map
  /\ cpc[Main] = "printing" => key[Main] \in todo[Main]
  /\ cpc[Main] = "end" /\ addr2line_ok => found[Main]

MapInv == LockInv /\ Discipline /\ FindHolds /\ Recorded

LEMMA Threads == Main \in Proc /\ \A p \in Job : p \in Proc /\ p # Main
BY MapAssumption, Zenon DEF Job

LEMMA MapInitInv == ASSUME Init PROVE MapInv
<1>1. LockInv
  BY LockInitInv, Zenon DEF Init
<1>2. \A p \in Job : cpc[p] = "next" /\ lpc[p] = "none"
  BY Threads, Zenon DEF Init, LockInit
<1>3. cpc[Main] = "barrier" /\ lpc[Main] = "none"
  BY Threads, Zenon DEF Init, LockInit
<1>4. Discipline
  BY <1>2, <1>3, Zenon DEF Init, Discipline, JobAt, MainAt
<1>5. FindHolds
  BY <1>2, Zenon DEF Init, FindHolds
<1>6. Recorded
  BY <1>3, Zenon DEF Init, Recorded
<1>. QED
  BY <1>1, <1>4, <1>5, <1>6, Zenon DEF MapInv

(* A thread may wait in the lock: nothing else changes. *)
LEMMA MapLockStep ==
  ASSUME MapInv, NEW p \in Proc, LockStep(p), LockInv'
  PROVE  MapInv'
<1>. USE DEF MapInv, LockInv
<1>1. Discipline'
  <2>1. /\ cpc' = cpc
        /\ \A q \in Proc : q # p => lpc'[q] = lpc[q]
    BY Zenon DEF LockStep, clientVars, Acquire, SLoad, SCas, SCasFail, XMutex, XSub, XSpin, XUnlockMutex, LockTypeOK
  <2>2. /\ lpc[p] \in {"s_load", "s_cas"} => lpc'[p] \in ReadLock
        /\ lpc[p] \in {"x_lock", "x_sub", "x_spin"} => lpc'[p] \in WriteLock
        /\ lpc[p] = "x_unlock" => lpc'[p] = "none"
        /\ lpc[p] \notin {"none", "s_held", "x_held"}
    BY DEF LockStep, Acquire, SLoad, SCas, SCasFail, XMutex, XSub, XSpin, XUnlockMutex, LockTypeOK,
       ReadLock, WriteLock
  <2>3. JobAt(cpc[p], lpc[p]) => JobAt(cpc[p], lpc'[p])
    BY <2>2, Zenon DEF JobAt, ReadLock, WriteLock
  <2>4. MainAt(cpc[p], lpc[p]) => MainAt(cpc[p], lpc'[p])
    BY <2>2, Zenon DEF MainAt, ReadLock, WriteLock
  <2>. QED
    BY <2>1, <2>3, <2>4, Threads, Zenon DEF Discipline
<1>2. FindHolds'
  BY Zenon DEF FindHolds, LockStep, clientVars
<1>3. Recorded'
  <2>1. JobsIdle => JobsIdle'
    <3>1. ASSUME JobsIdle, NEW q \in Job PROVE lpc'[q] = lpc[q]
      <4>1. q # p
        BY <3>1, Zenon DEF JobsIdle, LockStep, Acquire, SLoad, SCas, SCasFail, XMutex, XSub, XSpin, XUnlockMutex
      <4>. QED
        BY <4>1, Threads, Zenon DEF LockStep, Acquire, SLoad, SCas, SCasFail, XMutex, XSub, XSpin, XUnlockMutex, LockTypeOK
    <3>. QED
      BY <3>1, Zenon DEF JobsIdle, LockStep, clientVars
  <2>. QED
    BY <2>1, Zenon DEF Recorded, LockStep, clientVars
<1>. QED
  BY <1>1, <1>2, <1>3, Zenon

(* A job's call of get() or put(): the lock lets one writer insert. *)
LEMMA MapJobStep ==
  ASSUME MapInv, NEW p \in Job, JobStep(p), LockInv'
  PROVE  /\ MapInv'
         /\ \A k \in DOMAIN addr_map : k \in DOMAIN addr_map' /\ addr_map'[k] = addr_map[k]
<1>. USE DEF MapInv, LockInv
<1>. p \in Proc /\ p # Main
  BY Threads, Zenon
<1>. DEFINE Kept == \A k \in DOMAIN addr_map : k \in DOMAIN addr_map' /\ addr_map'[k] = addr_map[k]
<1>1. Discipline'
  <2>1. /\ cpc' = [cpc EXCEPT ![p] = cpc'[p]]
        /\ \A q \in Proc : q # p => lpc'[q] = lpc[q] /\ cpc'[q] = cpc[q]
    BY DEF JobStep, GetCall, GetFind, GetReturn, PutCall, PutFind, PutInsert, PutReturn, Discipline,
       SLock, SUnlock, XLock, XUnlockWord, LockTypeOK, lockVars
  <2>2. JobAt(cpc'[p], lpc'[p])
    <3>1. JobAt(cpc[p], lpc[p])
      BY Zenon DEF Discipline
    <3>2. CASE GetCall(p) \/ PutCall(p) \/ GetReturn(p) \/ PutReturn(p)
      BY <3>2 DEF GetCall, PutCall, GetReturn, PutReturn, Discipline, JobAt, ReadLock, WriteLock,
         SLock, SUnlock, XLock, XUnlockWord, LockTypeOK
    <3>3. CASE GetFind(p) \/ PutFind(p) \/ PutInsert(p)
      BY <3>1, <3>3, Zenon DEF GetFind, PutFind, PutInsert, Discipline, JobAt, ReadLock, WriteLock, lockVars
    <3>. QED
      BY <3>2, <3>3, Zenon DEF JobStep
  <2>. QED
    BY <2>1, <2>2, Threads, Zenon DEF Discipline
<1>2. cpc[p] = "putting" => \A q \in Job : q # p => cpc[q] \notin {"putting", "got"}
  <2>. SUFFICES ASSUME cpc[p] = "putting", NEW q \in Job, q # p PROVE cpc[q] \notin {"putting", "got"}
    BY Zenon
  <2>1. lpc[p] = "x_held"
    BY Zenon DEF Discipline, JobAt
  <2>2. p \in MutexHeld /\ p \in Writers
    BY <2>1, Zenon DEF MutexHeld, Writers
  <2>3. MutexHeld = {p} /\ Readers = {}
    BY <2>2, OneMutexHolder, Zenon DEF WordCounts
  <2>4. lpc[q] \notin {"x_held", "s_held"}
    BY <2>3, Threads, Zenon DEF MutexHeld, Readers
  <2>. QED
    BY <2>4, Zenon DEF Discipline, JobAt
<1>3. cpc[p] # "putting" => addr_map' = addr_map
  BY Zenon DEF JobStep, GetCall, GetFind, GetReturn, PutCall, PutFind, PutInsert, PutReturn
<1>4. Kept
  <2>1. CASE PutInsert(p)
    <3>1. found[p] <=> key[p] \in DOMAIN addr_map
      BY <2>1, Zenon DEF PutInsert, FindHolds
    <3>2. CASE found[p]
      BY <2>1, <3>2, Zenon DEF PutInsert
    <3>3. CASE ~found[p]
      BY <2>1, <3>1, <3>3, Zenon DEF PutInsert
    <3>. QED
      BY <3>2, <3>3, Zenon
  <2>2. CASE ~PutInsert(p)
    BY <2>2, Zenon DEF JobStep, GetCall, GetFind, GetReturn, PutCall, PutFind, PutReturn
  <2>. QED
    BY <2>1, <2>2, Zenon
<1>5. FindHolds'
  <2>1. /\ key' = [key EXCEPT ![p] = key'[p]] /\ found' = [found EXCEPT ![p] = found'[p]]
        /\ \A q \in Proc : q # p => key'[q] = key[q] /\ found'[q] = found[q] /\ cpc'[q] = cpc[q]
    BY DEF JobStep, GetCall, GetFind, GetReturn, PutCall, PutFind, PutInsert, PutReturn, FindHolds, Discipline
  <2>2. ASSUME NEW q \in Job, q # p
        PROVE  /\ cpc'[q] = "got" /\ found'[q] => key'[q] \in DOMAIN addr_map'
               /\ cpc'[q] = "putting" => (found'[q] <=> key'[q] \in DOMAIN addr_map')
               /\ cpc'[q] = "stored" => key'[q] \in DOMAIN addr_map'
    BY <2>1, <2>2, <1>2, <1>3, <1>4, Threads, Zenon DEF FindHolds
  <2>3. /\ cpc'[p] = "got" /\ found'[p] => key'[p] \in DOMAIN addr_map'
        /\ cpc'[p] = "putting" => (found'[p] <=> key'[p] \in DOMAIN addr_map')
        /\ cpc'[p] = "stored" => key'[p] \in DOMAIN addr_map'
    <3>1. CASE PutInsert(p)
      <4>1. cpc'[p] = "stored" /\ key' = key
        BY <3>1, Zenon DEF PutInsert, Discipline
      <4>2. key[p] \in DOMAIN addr_map'
        <5>1. CASE found[p]
          BY <3>1, <5>1, Zenon DEF PutInsert, FindHolds
        <5>2. CASE ~found[p]
          BY <3>1, <5>2, Zenon DEF PutInsert
        <5>. QED
          BY <5>1, <5>2, Zenon
      <4>. QED
        BY <4>1, <4>2, Zenon
    <3>2. CASE GetFind(p)
      <4>1. cpc'[p] = "got" /\ key' = key /\ addr_map' = addr_map /\ found'[p] = (key[p] \in DOMAIN addr_map)
        BY <3>2, Zenon DEF GetFind, Discipline, FindHolds
      <4>. QED
        BY <4>1, Zenon
    <3>3. CASE PutFind(p)
      <4>1. cpc'[p] = "putting" /\ key' = key /\ addr_map' = addr_map /\ found'[p] = (key[p] \in DOMAIN addr_map)
        BY <3>3, Zenon DEF PutFind, Discipline, FindHolds
      <4>. QED
        BY <4>1, Zenon
    <3>4. CASE GetCall(p) \/ GetReturn(p) \/ PutCall(p) \/ PutReturn(p)
      <4>1. cpc'[p] \in {"get", "next", "miss", "put"}
        BY <3>4, Zenon DEF GetCall, GetReturn, PutCall, PutReturn, Discipline
      <4>. QED
        BY <4>1, Zenon
    <3>. QED
      BY <3>1, <3>2, <3>3, <3>4, Zenon DEF JobStep
  <2>. QED
    BY <2>1, <2>2, <2>3, Zenon DEF FindHolds
<1>6. Recorded'
  <2>1. cpc[Main] = "barrier" /\ cpc'[Main] = "barrier"
    <3>1. ~JobsIdle
      BY Zenon DEF JobStep, GetCall, GetFind, GetReturn, PutCall, PutFind, PutInsert, PutReturn, JobsIdle
    <3>2. cpc'[Main] = cpc[Main]
      BY Threads, Zenon DEF JobStep, GetCall, GetFind, GetReturn, PutCall, PutFind, PutInsert, PutReturn, Discipline
    <3>. QED
      BY <3>1, <3>2, Zenon DEF Recorded
  <2>2. /\ todo' = [todo EXCEPT ![p] = todo'[p]]
        /\ todo'[p] = todo[p] \/ (todo'[p] = todo[p] \ {key[p]} /\ key[p] \in DOMAIN addr_map')
    <3>1. CASE GetReturn(p) /\ found[p]
      BY <3>1, Zenon DEF GetReturn, FindHolds, Recorded
    <3>2. CASE PutReturn(p)
      BY <3>2, Zenon DEF PutReturn, FindHolds, Recorded
    <3>3. CASE todo' = todo
      BY <3>3, Zenon DEF Recorded
    <3>. QED
      BY <3>1, <3>2, <3>3, Zenon DEF JobStep, GetCall, GetFind, GetReturn, PutCall, PutFind, PutInsert
  <2>3. todo'[Main] = todo[Main] /\ \A q \in Job : q # p => todo'[q] = todo[q]
    BY <2>2, Threads, Zenon DEF Recorded
  <2>4. ASSUME NEW k \in todo'[Main] PROVE k \in DOMAIN addr_map' \/ \E q \in Job : k \in todo'[q]
    <3>1. CASE k \in DOMAIN addr_map
      BY <3>1, <1>4, Zenon
    <3>2. ASSUME NEW q \in Job, k \in todo[q] PROVE k \in DOMAIN addr_map' \/ k \in todo'[q]
      BY <3>2, <2>2, <2>3, Zenon
    <3>. QED
      BY <2>3, <2>4, <3>1, <3>2, Zenon DEF Recorded
  <2>5. todo' = [q \in Proc |-> todo'[q]]
    BY <2>2, Zenon DEF Recorded
  <2>. QED
    BY <2>1, <2>4, <2>5, Zenon DEF Recorded
<1>. QED
  BY <1>1, <1>4, <1>5, <1>6, Zenon

(* The main thread adds no address. *)
LEMMA MapMainStep ==
  ASSUME MapInv, MainStep, LockInv'
  PROVE  MapInv' /\ addr_map' = addr_map
<1>. USE DEF MapInv, LockInv
<1>0. Main \in Proc
  BY Threads, Zenon
<1>1. addr_map' = addr_map
  BY Zenon DEF MainStep, ProcessCall, ProcessAddress, ProcessReturn, PrintCall, PrintFind, PrintReturn
<1>2. \A q \in Job : /\ lpc'[q] = lpc[q] /\ cpc'[q] = cpc[q] /\ todo'[q] = todo[q]
                     /\ key'[q] = key[q] /\ found'[q] = found[q]
  BY Threads DEF MainStep, ProcessCall, ProcessAddress, ProcessReturn, PrintCall, PrintFind, PrintReturn,
     SLock, SUnlock, XLock, XUnlockWord, LockTypeOK, lockVars, Discipline, FindHolds, Recorded
<1>3. Discipline'
  <2>1. cpc' = [q \in Proc |-> cpc'[q]]
    BY <1>0, Zenon DEF MainStep, ProcessCall, ProcessAddress, ProcessReturn, PrintCall, PrintFind, PrintReturn, Discipline
  <2>2. MainAt(cpc'[Main], lpc'[Main])
    <3>1. CASE ProcessCall \/ ProcessReturn \/ PrintCall \/ PrintReturn
      BY <1>0, <3>1 DEF ProcessCall, ProcessReturn, PrintCall, PrintReturn, Discipline, MainAt, ReadLock, WriteLock,
         SLock, SUnlock, XLock, XUnlockWord, LockTypeOK
    <3>2. CASE ProcessAddress \/ PrintFind
      BY <1>0, <3>2, Zenon DEF ProcessAddress, PrintFind, Discipline, MainAt, lockVars
    <3>. QED
      BY <3>1, <3>2, Zenon DEF MainStep
  <2>. QED
    BY <2>1, <2>2, <1>2, Zenon DEF Discipline
<1>4. FindHolds'
  <2>1. key' = [q \in Proc |-> key'[q]] /\ found' = [q \in Proc |-> found'[q]]
    BY <1>0, Zenon DEF MainStep, ProcessCall, ProcessAddress, ProcessReturn, PrintCall, PrintFind, PrintReturn, FindHolds
  <2>. QED
    BY <2>1, <1>1, <1>2, Zenon DEF FindHolds
<1>5. Recorded'
  <2>1. JobsIdle
    BY Zenon DEF MainStep, ProcessCall, ProcessAddress, ProcessReturn, PrintCall, PrintFind, PrintReturn, Recorded
  <2>2. JobsIdle'
    BY <2>1, <1>2, Zenon DEF JobsIdle
  <2>3. todo' = [q \in Proc |-> todo'[q]] /\ \A k \in todo'[Main] : k \in todo[Main]
    BY <1>0, Zenon DEF MainStep, ProcessCall, ProcessAddress, ProcessReturn, PrintCall, PrintFind, PrintReturn, Recorded
  <2>4. \A k \in todo'[Main] : k \in DOMAIN addr_map' \/ \E q \in Job : k \in todo'[q]
    BY <2>3, <1>1, <1>2, Zenon DEF Recorded
  <2>5. todo[Main] \subseteq DOMAIN addr_map
    BY <2>1, Zenon DEF Recorded, JobsIdle
  <2>6. CASE ProcessCall \/ ProcessReturn
    BY <1>0, <1>1, <2>2, <2>3, <2>4, <2>6 DEF ProcessCall, ProcessReturn, Recorded, Discipline
  <2>7. CASE ProcessAddress
    BY <1>0, <1>1, <2>2, <2>3, <2>4, <2>7, Zenon DEF ProcessAddress, Recorded, Discipline
  <2>8. CASE PrintCall \/ PrintReturn
    BY <1>0, <1>1, <2>2, <2>3, <2>4, <2>8 DEF PrintCall, PrintReturn, Recorded, Discipline, FindHolds
  <2>9. CASE PrintFind
    BY <1>0, <1>1, <2>2, <2>3, <2>4, <2>5, <2>9, Zenon DEF PrintFind, Recorded, Discipline, FindHolds
  <2>. QED
    BY <2>6, <2>7, <2>8, <2>9, Zenon DEF MainStep
<1>. QED
  BY <1>1, <1>3, <1>4, <1>5, Zenon

(* The invariant is inductive, and under it no address is replaced. *)
LEMMA MapNextInv ==
  ASSUME MapInv, [Next]_vars
  PROVE  /\ MapInv'
         /\ \A k \in DOMAIN addr_map : k \in DOMAIN addr_map' /\ addr_map'[k] = addr_map[k]
<1>1. LockInv'
  BY ClientNext, LockNextInv, Zenon DEF MapInv
<1>2. CASE UNCHANGED vars
  BY <1>1, <1>2, Zenon DEF MapInv, Discipline, FindHolds, Recorded, JobsIdle, vars, lockVars, clientVars
<1>3. ASSUME NEW p \in Proc, LockStep(p) PROVE MapInv' /\ addr_map' = addr_map
  BY <1>1, <1>3, MapLockStep, Zenon DEF LockStep, clientVars
<1>. QED
  BY <1>1, <1>2, <1>3, MapJobStep, MapMainStep, Zenon DEF Next, vars, clientVars

(* put() never replaces an address that another thread put first, although *)
(* it is called after a get() in a critical section of its own.            *)
THEOREM AddressesKept == Spec => FirstPutWins
<1>1. MapInv /\ [Next]_vars => [\A k \in DOMAIN addr_map : k \in DOMAIN addr_map' /\ addr_map'[k] = addr_map[k]]_vars
  BY MapNextInv, Zenon
<1>2. MapInv /\ [Next]_vars => MapInv'
  BY MapNextInv, Zenon
<1>. QED
  BY <1>1, <1>2, MapInitInv, PTL DEF Spec, FirstPutWins

(* The report prints a source line for every code block the jobs met,      *)
(* unless addr2line() failed.                                              *)
THEOREM LinesComplete == Spec => []EveryBlockHasLine
<1>1. MapInv => EveryBlockHasLine
  BY Zenon DEF MapInv, Recorded, EveryBlockHasLine
<1>2. MapInv /\ [Next]_vars => MapInv'
  BY MapNextInv
<1>. QED
  BY <1>1, <1>2, MapInitInv, PTL DEF Spec
=============================================================================
