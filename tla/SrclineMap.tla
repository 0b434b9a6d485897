----------------------------- MODULE SrclineMap -----------------------------
(***************************************************************************)
(* SrclineMap (src/pt_action.cc) under its RwSpinLock, used as func_latency*)
(* uses it: the thread jobs record the address of every code block they    *)
(* meet (get(), and put() when it is not there, add_code_block()), then    *)
(* the main thread turns the addresses into source lines                   *)
(* (process_address()) and prints the line of every block (get()).         *)
(* A key stands for the "_from" or "_to" name of a code block; what a      *)
(* thread puts is tagged with the thread, to tell the puts apart.          *)
(***************************************************************************)
EXTENDS RwSpinLock

CONSTANTS Key,   \* names of code blocks
          Main   \* the main thread

ASSUME MapAssumption == Main \in Proc

VARIABLES
  addr_map,     \* [subset of Key -> the thread whose put() stored it]
  srcline_map,  \* the keys that have a source line
  todo,         \* [Proc -> names the thread has still to handle]
  key,          \* [Proc -> the argument of the call it is in]
  found,        \* [Proc -> did the last find() succeed?]
  cpc,          \* [Proc -> where the thread is in the client code]
  addr2line_ok  \* did addr2line() answer every address?

clientVars == <<addr_map, srcline_map, todo, key, found, cpc, addr2line_ok>>
vars == <<lockVars, clientVars>>

Job == Proc \ {Main}

Init ==
  /\ LockInit
  /\ addr_map = <<>> /\ srcline_map = {}
  /\ todo \in [Proc -> SUBSET Key] /\ todo[Main] = UNION {todo[p] : p \in Job}
  /\ key \in [Proc -> {CHOOSE k \in Key : TRUE}]
  /\ found = [p \in Proc |-> FALSE]
  /\ cpc = [p \in Proc |-> IF p = Main THEN "barrier" ELSE "next"]
  /\ addr2line_ok = TRUE

-----------------------------------------------------------------------------
(* add_code_block() of a thread job: if (!get(k)) put(k, addr) *)

GetCall(p) ==
  /\ cpc[p] = "next"
  /\ \E k \in todo[p] : key' = [key EXCEPT ![p] = k]
  /\ cpc' = [cpc EXCEPT ![p] = "get"]
  /\ SLock(p)
  /\ UNCHANGED <<addr_map, srcline_map, todo, found, addr2line_ok>>

GetFind(p) ==
  /\ cpc[p] = "get" /\ lpc[p] = "s_held"
  /\ found' = [found EXCEPT ![p] = key[p] \in DOMAIN addr_map]
  /\ cpc' = [cpc EXCEPT ![p] = "got"]
  /\ UNCHANGED <<lockVars, addr_map, srcline_map, todo, key, addr2line_ok>>

GetReturn(p) ==
  /\ cpc[p] = "got"
  /\ SUnlock(p)
  /\ IF found[p] THEN /\ cpc' = [cpc EXCEPT ![p] = "next"]
                      /\ todo' = [todo EXCEPT ![p] = @ \ {key[p]}]
                 ELSE /\ cpc' = [cpc EXCEPT ![p] = "miss"]
                      /\ UNCHANGED todo
  /\ UNCHANGED <<addr_map, srcline_map, key, found, addr2line_ok>>

PutCall(p) ==
  /\ cpc[p] = "miss"
  /\ cpc' = [cpc EXCEPT ![p] = "put"]
  /\ XLock(p)
  /\ UNCHANGED <<addr_map, srcline_map, todo, key, found, addr2line_ok>>

(* Mutant: put() trusts the get() before it. *)
PutFindStale(p) ==
  /\ cpc[p] = "put" /\ lpc[p] = "x_held"
  /\ cpc' = [cpc EXCEPT ![p] = "putting"]
  /\ UNCHANGED <<lockVars, addr_map, srcline_map, todo, key, found, addr2line_ok>>

PutFind(p) ==
  /\ cpc[p] = "put" /\ lpc[p] = "x_held"
  /\ found' = [found EXCEPT ![p] = key[p] \in DOMAIN addr_map]
  /\ cpc' = [cpc EXCEPT ![p] = "putting"]
  /\ UNCHANGED <<lockVars, addr_map, srcline_map, todo, key, addr2line_ok>>

PutInsert(p) ==
  /\ cpc[p] = "putting"
  /\ addr_map' = IF found[p] THEN addr_map
                  ELSE [k \in DOMAIN addr_map \cup {key[p]} |-> IF k = key[p] THEN p ELSE addr_map[k]]
  /\ cpc' = [cpc EXCEPT ![p] = "stored"]
  /\ UNCHANGED <<lockVars, srcline_map, todo, key, found, addr2line_ok>>

PutReturn(p) ==
  /\ cpc[p] = "stored"
  /\ XUnlockWord(p)
  /\ cpc' = [cpc EXCEPT ![p] = "next"]
  /\ todo' = [todo EXCEPT ![p] = @ \ {key[p]}]
  /\ UNCHANGED <<addr_map, srcline_map, key, found, addr2line_ok>>

-----------------------------------------------------------------------------
(* The main thread, after wait_all_idle() *)

(* Mutant: the report does not wait for the queued work. *)
JobsIdleEarly == \A p \in Job : cpc[p] = "next" /\ lpc[p] = "none"

JobsIdle == \A p \in Job : cpc[p] = "next" /\ todo[p] = {} /\ lpc[p] = "none"

ProcessCall ==
  /\ cpc[Main] = "barrier" /\ JobsIdle
  /\ cpc' = [cpc EXCEPT ![Main] = "process"]
  /\ XLock(Main)
  /\ UNCHANGED <<addr_map, srcline_map, todo, key, found, addr2line_ok>>

(* addr2line() may fail: then no line is stored. *)
ProcessAddress ==
  /\ cpc[Main] = "process" /\ lpc[Main] = "x_held"
  /\ addr2line_ok' \in BOOLEAN
  /\ srcline_map' = IF addr2line_ok' THEN DOMAIN addr_map ELSE srcline_map
  /\ cpc' = [cpc EXCEPT ![Main] = "processed"]
  /\ UNCHANGED <<lockVars, addr_map, todo, key, found>>

ProcessReturn ==
  /\ cpc[Main] = "processed"
  /\ XUnlockWord(Main)
  /\ cpc' = [cpc EXCEPT ![Main] = "print"]
  /\ UNCHANGED <<addr_map, srcline_map, todo, key, found, addr2line_ok>>

(* get(function, srcline) for the next block that is printed *)
PrintCall ==
  /\ cpc[Main] = "print"
  /\ \E k \in todo[Main] : key' = [key EXCEPT ![Main] = k]
  /\ cpc' = [cpc EXCEPT ![Main] = "printing"]
  /\ SLock(Main)
  /\ UNCHANGED <<addr_map, srcline_map, todo, found, addr2line_ok>>

PrintFind ==
  /\ cpc[Main] = "printing" /\ lpc[Main] = "s_held"
  /\ found' = [found EXCEPT ![Main] = key[Main] \in srcline_map]
  /\ todo' = [todo EXCEPT ![Main] = @ \ {key[Main]}]
  /\ cpc' = [cpc EXCEPT ![Main] = "end"]
  /\ UNCHANGED <<lockVars, addr_map, srcline_map, key, addr2line_ok>>

PrintReturn ==
  /\ cpc[Main] = "end"
  /\ SUnlock(Main)
  /\ cpc' = [cpc EXCEPT ![Main] = "print"]
  /\ UNCHANGED <<addr_map, srcline_map, todo, key, found, addr2line_ok>>

-----------------------------------------------------------------------------
LockStep(p) == Acquire(p) /\ UNCHANGED clientVars

JobStep(p) ==
  GetCall(p) \/ GetFind(p) \/ GetReturn(p) \/ PutCall(p) \/ PutFind(p) \/ PutInsert(p) \/ PutReturn(p)

MainStep ==
  ProcessCall \/ ProcessAddress \/ ProcessReturn \/ PrintCall \/ PrintFind \/ PrintReturn

Next == (\E p \in Proc : LockStep(p)) \/ (\E p \in Job : JobStep(p)) \/ MainStep

(* Every thread keeps running.  A thread that competes for m_writer, or    *)
(* for the counter, is not overtaken for ever: the mutex is handed on, and *)
(* a compare-exchange that can succeed again and again does not fail for   *)
(* ever (the load before it then reads a positive value again and again).  *)
Fairness ==
  /\ \A p \in Proc : /\ WF_vars(LockStep(p))
                     /\ SF_vars(XMutex(p) /\ UNCHANGED clientVars)
                     /\ SF_vars(SLoad(p) /\ m_word > 0 /\ UNCHANGED clientVars)
                     /\ SF_vars(SCas(p) /\ UNCHANGED clientVars)
                     /\ SF_vars(XSpin(p) /\ m_word = 0 /\ UNCHANGED clientVars)
  /\ \A p \in Job : WF_vars(JobStep(p))
  /\ WF_vars(MainStep)

Spec == Init /\ [][Next]_vars
FairSpec == Spec /\ Fairness

-----------------------------------------------------------------------------
(* Properties *)

(* An address that is in the map is never replaced or removed, although    *)
(* get() and put() are two critical sections and another thread may put    *)
(* the same block in between.                                              *)
FirstPutWins ==
  [][\A k \in DOMAIN addr_map : k \in DOMAIN addr_map' /\ addr_map'[k] = addr_map[k]]_vars

(* Every block that is printed has its source line, unless addr2line()     *)
(* failed.                                                                 *)
EveryBlockHasLine == cpc[Main] = "end" /\ addr2line_ok => found[Main]

(* No thread spins for ever: the report is printed. *)
ReportPrinted == <>(cpc[Main] = "print" /\ todo[Main] = {})
=============================================================================
