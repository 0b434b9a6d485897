----------------------------- MODULE RwSpinLock -----------------------------
(***************************************************************************)
(* The reader-writer spin lock of include/sys_tools.h: an atomic counter   *)
(* that starts at WRITE, loses one per reader and WRITE for the writer,    *)
(* and a mutex that serialises the writers.  One action per atomic         *)
(* operation; the client's critical section is what happens at "s_held"    *)
(* and "x_held".                                                           *)
(***************************************************************************)
EXTENDS Integers, FiniteSets

CONSTANTS Proc,   \* the threads
          WRITE,  \* 0x20000000
          NoProc  \* m_writer is not locked

ASSUME LockAssumption ==
  /\ IsFiniteSet(Proc) /\ NoProc \notin Proc
  /\ WRITE \in Nat /\ Cardinality(Proc) < WRITE

VARIABLES m_word, m_writer,
          lpc,  \* [Proc -> where the thread is in the lock's code]
          lk    \* [Proc -> the local variable lk]

lockVars == <<m_word, m_writer, lpc, lk>>

LockPC == {"none", "s_load", "s_cas", "s_held", "x_lock", "x_sub", "x_spin", "x_held", "x_unlock"}

LockInit ==
  /\ m_word = WRITE /\ m_writer = NoProc
  /\ lpc = [p \in Proc |-> "none"]
  /\ lk = [p \in Proc |-> 0]

-----------------------------------------------------------------------------
(* s_lock(): load; with a positive value try to take one off it.  The weak *)
(* compare-exchange may fail even when the value is the expected one.      *)
SLock(p) ==
  /\ lpc[p] = "none"
  /\ lpc' = [lpc EXCEPT ![p] = "s_load"]
  /\ UNCHANGED <<m_word, m_writer, lk>>

SLoad(p) ==
  /\ lpc[p] = "s_load"
  /\ lk' = [lk EXCEPT ![p] = m_word]
  /\ lpc' = [lpc EXCEPT ![p] = IF m_word > 0 THEN "s_cas" ELSE "s_load"]
  /\ UNCHANGED <<m_word, m_writer>>

SCas(p) ==
  /\ lpc[p] = "s_cas" /\ m_word = lk[p]
  /\ m_word' = m_word - 1
  /\ lpc' = [lpc EXCEPT ![p] = "s_held"]
  /\ UNCHANGED <<m_writer, lk>>

SCasFail(p) ==
  /\ lpc[p] = "s_cas"
  /\ lk' = [lk EXCEPT ![p] = m_word]
  /\ lpc' = [lpc EXCEPT ![p] = "s_load"]
  /\ UNCHANGED <<m_word, m_writer>>

SUnlock(p) ==
  /\ lpc[p] = "s_held"
  /\ m_word' = m_word + 1
  /\ lpc' = [lpc EXCEPT ![p] = "none"]
  /\ UNCHANGED <<m_writer, lk>>

(* x_lock(): m_writer, then take WRITE off, then wait for the readers. *)
XLock(p) ==
  /\ lpc[p] = "none"
  /\ lpc' = [lpc EXCEPT ![p] = "x_lock"]
  /\ UNCHANGED <<m_word, m_writer, lk>>

XMutex(p) ==
  /\ lpc[p] = "x_lock" /\ m_writer = NoProc
  /\ m_writer' = p
  /\ lpc' = [lpc EXCEPT ![p] = "x_sub"]
  /\ UNCHANGED <<m_word, lk>>

(* fetch_sub() returns the value before: the loop is entered unless that   *)
(* was zero.                                                               *)
XSub(p) ==
  /\ lpc[p] = "x_sub"
  /\ lk' = [lk EXCEPT ![p] = m_word]
  /\ m_word' = m_word - WRITE
  /\ lpc' = [lpc EXCEPT ![p] = IF m_word = 0 THEN "x_held" ELSE "x_spin"]
  /\ UNCHANGED m_writer

(* Mutant: the writer does not wait for the readers. *)
XSpinNoWait(p) ==
  /\ lpc[p] = "x_spin"
  /\ lpc' = [lpc EXCEPT ![p] = "x_held"]
  /\ UNCHANGED <<m_word, m_writer, lk>>

XSpin(p) ==
  /\ lpc[p] = "x_spin"
  /\ lk' = [lk EXCEPT ![p] = m_word]
  /\ lpc' = [lpc EXCEPT ![p] = IF m_word = 0 THEN "x_held" ELSE "x_spin"]
  /\ UNCHANGED <<m_word, m_writer>>

(* x_unlock(): the counter first, then the mutex. *)
XUnlockWord(p) ==
  /\ lpc[p] = "x_held"
  /\ m_word' = m_word + WRITE
  /\ lpc' = [lpc EXCEPT ![p] = "x_unlock"]
  /\ UNCHANGED <<m_writer, lk>>

(* Mutant: the next writer is not let in. *)
XUnlockMutexKept(p) ==
  /\ lpc[p] = "x_unlock"
  /\ lpc' = [lpc EXCEPT ![p] = "none"]
  /\ UNCHANGED <<m_word, m_writer, lk>>

XUnlockMutex(p) ==
  /\ lpc[p] = "x_unlock"
  /\ m_writer' = NoProc
  /\ lpc' = [lpc EXCEPT ![p] = "none"]
  /\ UNCHANGED <<m_word, lk>>

(* What the lock does inside lock() and unlock() without the client *)
Acquire(p) ==
  SLoad(p) \/ SCas(p) \/ SCasFail(p) \/ XMutex(p) \/ XSub(p) \/ XSpin(p) \/ XUnlockMutex(p)

LockNext ==
  \E p \in Proc : SLock(p) \/ XLock(p) \/ SUnlock(p) \/ XUnlockWord(p) \/ Acquire(p)

LockSpec == LockInit /\ [][LockNext]_lockVars

-----------------------------------------------------------------------------
(* Properties *)

LockTypeOK ==
  /\ m_word \in Int /\ m_writer \in Proc \cup {NoProc}
  /\ lpc \in [Proc -> LockPC] /\ lk \in [Proc -> Int]

Readers == {p \in Proc : lpc[p] = "s_held"}
Writers == {p \in Proc : lpc[p] = "x_held"}
Subtracted == {p \in Proc : lpc[p] \in {"x_spin", "x_held"}}
MutexHeld == {p \in Proc : lpc[p] \in {"x_sub", "x_spin", "x_held", "x_unlock"}}

(* The lock excludes: while a thread is between x_lock() and x_unlock() no *)
(* other thread is, and none is between s_lock() and s_unlock().           *)
MutualExclusion ==
  \A p \in Writers : Writers = {p} /\ Readers = {}

(* The counter accounts for every reader and for the writer, and the mutex *)
(* for the writers that came past it: what makes MutualExclusion inductive *)
WordCounts ==
  /\ m_word = WRITE - Cardinality(Readers) - (IF Subtracted = {} THEN 0 ELSE WRITE)
  /\ \A p \in MutexHeld : m_writer = p
  /\ \A p \in Proc : lpc[p] = "s_cas" => lk[p] > 0
  /\ Writers # {} => Readers = {}
=============================================================================
