------------------------ MODULE ParallelScriptProofs ------------------------
(***************************************************************************)
(* The forking `perf script' has room for the pids of its workers, their   *)
(* batches partition the events, lookahead() shows a child nothing that it *)
(* does not decode, no two children decode the same part of a trace whose  *)
(* PSBs are whole, and together they decode all that one process would:    *)
(* for every number of workers, every index of buffers of any size, and    *)
(* every interleaving of the processes.                                    *)
(*                                                                         *)
(* IInv is the inductive invariant of the counters and the batches, DInv   *)
(* the one of the queues and the decoding.  A lemma that only one other    *)
(* needs is a named step of its proof.                                     *)
(***************************************************************************)
EXTENDS ParallelScript, TLAPS

(* The share of a worker, and what the first k workers take at least *)
Step == IF parallel_by_events THEN parallel_step ELSE parallel_auxtrace_size
Total == IF parallel_by_events THEN total_event ELSE total_auxtrace_size
Threshold(k) == k * Step

(* A product of natural numbers grows with its factors. *)
LEMMA Product ==
  ASSUME NEW a \in Nat, NEW b \in Nat, NEW s \in Nat, a <= b
  PROVE  a * s <= b * s /\ a * s \in Nat
  BY SMT

(* A share one larger than the rounded-down quotient covers the total. *)
LEMMA Rounding ==
  ASSUME NEW n \in Nat, NEW w \in Nat, w > 0
  PROVE  /\ n \div w + 1 \in Nat
         /\ n < w * (n \div w + 1)
  BY SMT

(* What the constants of a behaviour are *)
LEMMA Constants ==
  ASSUME scene \in DOMAIN Scenario, events \in Inputs
  PROVE  /\ parallel_worker \in Nat /\ parallel_worker > 1 /\ parallel_by_events \in BOOLEAN
         /\ events \in Seq([q : Queue, data : Seq({"P", "(", ")", "d"})])
  BY SMT, ScriptAssumption DEF parallel_worker, parallel_by_events, Inputs, Queue

(* The elements of a sequence are of its set. *)
LEMMA Element ==
  ASSUME NEW R, NEW s \in Seq(R), NEW e \in 1..Len(s)
  PROVE  s[e] \in R
  BY SMT

(* The size of a buffer of the index is a natural number. *)
LEMMA EventSize ==
  ASSUME scene \in DOMAIN Scenario, events \in Inputs, NEW e \in 1..Len(events)
  PROVE  Len(events[e].data) \in Nat
<1>1. events \in Seq([q : Queue, data : Seq({"P", "(", ")", "d"})])
  BY Zenon, Constants
<1>2. events[e] \in [q : Queue, data : Seq({"P", "(", ")", "d"})]
  BY Zenon, <1>1, Element
<1> QED
  BY SMT, <1>2

-----------------------------------------------------------------------------
(* The number and the size of the events up to the k-th that are added.    *)
(* The count of the first loop builds these sums, every process goes       *)
(* through them again in the second.                                       *)
Sums(S, T, k) ==
  /\ S \in [0..k -> Nat] /\ T \in [0..k -> Nat]
  /\ S[0] = 0 /\ T[0] = 0
  /\ \A i \in 1..k :
       /\ S[i] = S[i - 1] + (IF Filtered(i) THEN 0 ELSE 1)
       /\ T[i] = T[i - 1] + (IF Filtered(i) THEN 0 ELSE Len(events[i].data))
  /\ \A i \in 0..k : S[i] <= i
  /\ \A i, j \in 0..k : i <= j => S[i] <= S[j] /\ T[i] <= T[j]

(* What InBatch() compares with the threshold before event i + 1 *)
Reached(S, T, i) == IF parallel_by_events THEN S[i] ELSE T[i]

(* The thresholds, once everything is counted *)
Counts(S, T) ==
  /\ Sums(S, T, Len(events))
  /\ total_event = Len(events) /\ total_auxtrace_size = T[Len(events)]

(* The thresholds of the workers grow from 0 to above what the counters    *)
(* reach, and the counters grow along the index.                           *)
LEMMA Thresholds ==
  ASSUME scene \in DOMAIN Scenario, events \in Inputs, NEW S, NEW T, Counts(S, T)
  PROVE  /\ \A k \in Nat : Threshold(k) \in Nat
         /\ \A k, l \in Nat : k <= l => Threshold(k) <= Threshold(l)
         /\ Threshold(0) = 0
         /\ \A i \in 0..Len(events) :
              Reached(S, T, i) \in Nat /\ Reached(S, T, i) < Threshold(parallel_worker)
         /\ \A i, j \in 0..Len(events) : i <= j => Reached(S, T, i) <= Reached(S, T, j)
<1>0. Len(events) \in Nat /\ parallel_worker \in Nat /\ parallel_worker > 0
  BY SMT, Constants
<1>1. Total \in Nat /\ Step = Total \div parallel_worker + 1
  BY SMT, <1>0 DEF Counts, Sums, Total, Step, parallel_step, parallel_auxtrace_size
<1>2. Step \in Nat /\ Total < Threshold(parallel_worker)
  BY SMT, <1>0, <1>1, Rounding DEF Threshold
<1>3. \A k, l \in Nat : k <= l => Threshold(k) <= Threshold(l) /\ Threshold(k) \in Nat
  BY SMT, <1>2, Product DEF Threshold
<1>4. Threshold(0) = 0
  BY SMT, <1>2 DEF Threshold
<1>5. \A i \in 0..Len(events) : Reached(S, T, i) \in Nat /\ Reached(S, T, i) <= Total
  BY SMT, <1>0 DEF Counts, Sums, Reached, Total
<1>6. \A i, j \in 0..Len(events) : i <= j => Reached(S, T, i) <= Reached(S, T, j)
  BY SMT, <1>0 DEF Counts, Sums, Reached
<1>7. \A k \in Nat : Threshold(k) \in Nat
  BY SMT, <1>3
<1>8. \A i \in 0..Len(events) : Reached(S, T, i) < Threshold(parallel_worker)
  BY SMT, <1>0, <1>1, <1>2, <1>5, <1>7
<1> QED
  BY Zenon, <1>3, <1>4, <1>5, <1>6, <1>7, <1>8

-----------------------------------------------------------------------------
(* What the argument needs of a process *)
Fields == {"pc", "i", "total_event_added", "auxtrace_size_added", "parallel_file_count",
           "queue", "entry", "batch", "trace", "seen", "looks"}

(* Replacing one process of a sequence of processes *)
LEMMA Replaced ==
  ASSUME NEW R, NEW s \in Seq(R), NEW p \in 1..Len(s), NEW v
  PROVE  LET t == [s EXCEPT ![p] = v]
         IN  /\ t \in Seq(R \cup {v}) /\ Len(t) = Len(s) /\ t[p] = v
             /\ \A o \in 1..Len(s) : o # p => t[o] = s[o]
  BY SMT

(* Appending one process to a sequence of processes *)
LEMMA Appended ==
  ASSUME NEW R, NEW s \in Seq(R), NEW v
  PROVE  LET t == Append(s, v)
         IN  /\ t \in Seq(R \cup {v}) /\ Len(t) = Len(s) + 1 /\ t[Len(s) + 1] = v
             /\ \A o \in 1..Len(s) : t[o] = s[o]
  BY SMT

(* add_event() as far as the counters and the batch are concerned *)
LEMMA Added ==
  ASSUME NEW r, NEW child \in BOOLEAN, NEW b \in BOOLEAN,
         DOMAIN r = Fields, r.total_event_added # total_event
  PROVE  LET a == AddEvent(r, child, b)
         IN  /\ DOMAIN a = Fields
             /\ a.pc = r.pc /\ a.i = r.i + 1 /\ a.parallel_file_count = r.parallel_file_count
             /\ a.total_event_added = r.total_event_added + 1
             /\ a.auxtrace_size_added = r.auxtrace_size_added + Len(events[r.i].data)
             /\ a.batch = IF child /\ b THEN r.batch \cup {r.i} ELSE r.batch
<1> DEFINE q == events[r.i].q
           s == [r EXCEPT !.i = @ + 1]
           t == [s EXCEPT !.total_event_added = @ + 1,
                          !.auxtrace_size_added = @ + Len(events[r.i].data)]
           u == [t EXCEPT !.queue[q] = Append(@, r.i),
                          !.entry[q].batch_add = @ + (IF b THEN 1 ELSE 0),
                          !.batch = @ \cup (IF b THEN {r.i} ELSE {})]
<1>1. AddEvent(r, child, b) = IF child THEN u ELSE t
  BY ZenonT(30) DEF AddEvent
<1>2. /\ DOMAIN t = Fields
      /\ t.pc = r.pc /\ t.i = r.i + 1 /\ t.parallel_file_count = r.parallel_file_count
      /\ t.total_event_added = r.total_event_added + 1
      /\ t.auxtrace_size_added = r.auxtrace_size_added + Len(events[r.i].data)
      /\ t.batch = r.batch
  BY SMT DEF Fields
<1> HIDE DEF t
<1>3. /\ DOMAIN u = Fields
      /\ u.pc = t.pc /\ u.i = t.i /\ u.parallel_file_count = t.parallel_file_count
      /\ u.total_event_added = t.total_event_added
      /\ u.auxtrace_size_added = t.auxtrace_size_added
      /\ u.batch = t.batch \cup (IF b THEN {r.i} ELSE {})
  BY SMT, <1>2 DEF Fields
<1> HIDE DEF u
<1>4. CASE ~child
  BY Zenon, <1>1, <1>2, <1>4
<1>5. CASE child
  <2>1. u.batch = IF child /\ b THEN r.batch \cup {r.i} ELSE r.batch
    <3>1. CASE b
      BY Zenon, <1>2, <1>3, <1>5, <3>1
    <3>2. CASE ~b
      <4>1. u.batch = r.batch \cup {}
        BY Zenon, <1>2, <1>3, <3>2
      <4> QED
        BY SMT, <4>1, <3>2
    <3> QED
      BY Zenon, <3>1, <3>2
  <2>2. AddEvent(r, child, b) = u
    BY Zenon, <1>1, <1>5
  <2>3. /\ u.pc = r.pc /\ u.i = r.i + 1 /\ u.parallel_file_count = r.parallel_file_count
        /\ u.total_event_added = r.total_event_added + 1
        /\ u.auxtrace_size_added = r.auxtrace_size_added + Len(events[r.i].data)
    BY Zenon, <1>2, <1>3
  <2> QED
    BY Zenon, <2>1, <2>2, <2>3, <1>3
<1> QED
  BY Zenon, <1>4, <1>5

-----------------------------------------------------------------------------
(* The inductive invariant *)

(* The processes, and the pids of the children in the order of the forks *)
Base ==
  /\ scene \in DOMAIN Scenario /\ events \in Inputs
  /\ \E R : procs \in Seq(R)
  /\ Len(procs) >= 1
  /\ \A p \in Proc : DOMAIN procs[p] = Fields
  /\ \E R : worker_pids \in Seq(R)
  /\ Len(worker_pids) = Len(procs) - 1
  /\ \A k \in 1..Len(worker_pids) : worker_pids[k] = k + 1
  /\ Len(worker_pids) <= parallel_worker
  /\ procs[Parent].pc \in {"count", "add", "wait", "exited"} /\ procs[Parent].batch = {}
  /\ \A c \in Child : procs[c].pc \in {"add", "decode", "exited"}
  /\ waited \in 0..Len(worker_pids)
  /\ \A c \in 2..(waited + 1) : procs[c].pc = "exited"
  /\ procs[Parent].pc = "exited" => waited = Len(worker_pids)

(* The first loop: the totals are the sums so far. *)
Counting(S, T) ==
  LET r == procs[Parent]
  IN  /\ Len(procs) = 1
      /\ r.i \in 1..(Len(events) + 1)
      /\ Sums(S, T, r.i - 1)
      /\ total_event = r.i - 1 /\ total_auxtrace_size = T[r.i - 1]
      /\ r.total_event_added = 0 /\ r.auxtrace_size_added = 0 /\ r.parallel_file_count = 0

(* The second loop: every process goes through the same sums.  F[c] is the *)
(* event at which child c was forked.                                      *)
Counters(S, T) ==
  \A p \in Proc :
    /\ procs[p].i \in 1..(Len(events) + 1)
    /\ procs[p].pc # "add" => procs[p].i = Len(events) + 1
    /\ procs[p].total_event_added = S[procs[p].i - 1]
    /\ procs[p].auxtrace_size_added = T[procs[p].i - 1]

Files ==
  /\ procs[Parent].parallel_file_count = Len(procs) - 1
  /\ \A c \in Child : procs[c].parallel_file_count = c - 1

(* A child was forked when the share of the one before was used up. *)
Firsts(S, T, F) ==
  \A c \in Child :
    /\ F[c] \in 1..Len(events) /\ ~Filtered(F[c])
    /\ F[c] < procs[c].i /\ F[c] < procs[Parent].i
    /\ Threshold(c - 2) <= Reached(S, T, F[c] - 1)
    /\ \A d \in Child : c < d => F[c] < F[d]

(* The events that child c adds to its batch *)
Takes(S, T, F, c, e) ==
  ~Filtered(e) /\ (e = F[c] \/ (F[c] < e /\ Reached(S, T, e - 1) < Threshold(c - 1)))

Batches(S, T, F) ==
  \A c \in Child : procs[c].batch = {e \in 1..(procs[c].i - 1) : Takes(S, T, F, c, e)}

Covered(S, T, F) ==
  \A e \in 1..(procs[Parent].i - 1) : ~Filtered(e) => \E c \in Child : Takes(S, T, F, c, e)

Splitting(S, T, F) ==
  /\ Counts(S, T) /\ Counters(S, T) /\ Files
  /\ Firsts(S, T, F) /\ Batches(S, T, F) /\ Covered(S, T, F)

IInv ==
  /\ Base
  /\ IF procs[Parent].pc = "count" THEN \E S, T : Counting(S, T)
     ELSE \E S, T, F : Splitting(S, T, F)

-----------------------------------------------------------------------------
(* The second loop leaves the index and the totals alone. *)
Fixed == UNCHANGED <<scene, events, total_event, total_auxtrace_size>>

(* Process o keeps its place in the index, its counters and its batch. *)
Same(o) ==
  /\ procs'[o].i = procs[o].i
  /\ procs'[o].total_event_added = procs[o].total_event_added
  /\ procs'[o].auxtrace_size_added = procs[o].auxtrace_size_added
  /\ procs'[o].parallel_file_count = procs[o].parallel_file_count
  /\ procs'[o].batch = procs[o].batch

(* What the invariant says of the types of the state *)
LEMMA Shape ==
  ASSUME Base
  PROVE  /\ Len(procs) \in Nat /\ Len(procs) >= 1 /\ Parent \in Proc /\ Len(events) \in Nat
         /\ Child \subseteq Proc /\ \A c \in Child : c \in Nat /\ c >= 2 /\ c # Parent
<1>1. Len(procs) \in Nat
  <2>1. PICK R : procs \in Seq(R)
    BY Zenon DEF Base
  <2> QED
    BY SMT, <2>1
<1>2. Len(events) \in Nat
  BY SMT, Constants DEF Base
<1> QED
  BY SMT, <1>1, <1>2 DEF Base, Parent, Proc, Child

(* A process that passes an event, and forks nobody *)
Passes(p, S, T) ==
  LET i == procs[p].i
  IN  /\ Len(procs') = Len(procs)
      /\ procs[p].pc = "add" /\ i <= Len(events)
      /\ procs'[p].pc = "add" /\ procs'[p].i = i + 1
      /\ procs'[p].total_event_added = procs[p].total_event_added + (IF Filtered(i) THEN 0 ELSE 1)
      /\ procs'[p].auxtrace_size_added
           = procs[p].auxtrace_size_added + (IF Filtered(i) THEN 0 ELSE Len(events[i].data))
      /\ procs'[p].parallel_file_count = procs[p].parallel_file_count
      /\ p \in Child =>
           procs'[p].batch = IF ~Filtered(i) /\ Reached(S, T, i - 1) < Threshold(p - 1)
                             THEN procs[p].batch \cup {i} ELSE procs[p].batch
      /\ \A o \in Proc : o # p => procs'[o] = procs[o]

(* The parent forks process n at an event. *)
ForksAt(S, T) ==
  LET i == procs[Parent].i
      n == Len(procs) + 1
  IN  /\ Len(procs') = n
      /\ procs[Parent].pc = "add" /\ i <= Len(events) /\ ~Filtered(i)
      /\ Threshold(Len(procs) - 1) <= Reached(S, T, i - 1)
      /\ \A o \in {Parent, n} :
           /\ procs'[o].pc = "add" /\ procs'[o].i = i + 1
           /\ procs'[o].total_event_added = procs[Parent].total_event_added + 1
           /\ procs'[o].auxtrace_size_added
                = procs[Parent].auxtrace_size_added + Len(events[i].data)
           /\ procs'[o].parallel_file_count = procs[Parent].parallel_file_count + 1
      /\ procs'[n].batch = {i}
      /\ \A o \in Child : procs'[o] = procs[o]

-----------------------------------------------------------------------------
(* What the actions do to the processes *)

(* Process p becomes v, and nothing else changes. *)
Becomes(p, v) ==
  /\ \E R : procs' \in Seq(R)
  /\ Len(procs') = Len(procs) /\ procs'[p] = v
  /\ \A o \in Proc : o # p => procs'[o] = procs[o]

(* A step that replaces the state of one process *)
LEMMA Becoming ==
  ASSUME Base, NEW p \in Proc, NEW v, procs' = [procs EXCEPT ![p] = v]
  PROVE  Becomes(p, v)
<1>1. PICK R : procs \in Seq(R)
  BY Zenon DEF Base
<1>2. p \in 1..Len(procs)
  BY Zenon DEF Proc
<1>3. /\ procs' \in Seq(R \cup {v}) /\ Len(procs') = Len(procs) /\ procs'[p] = v
      /\ \A o \in 1..Len(procs) : o # p => procs'[o] = procs[o]
  BY SMT, <1>1, <1>2, Replaced
<1> QED
  BY Zenon, <1>3 DEF Becomes, Proc

(* The processes are numbered from 1. *)
LEMMA ProcDomain ==
  ASSUME Base
  PROVE  DOMAIN procs = Proc
<1>1. PICK R : procs \in Seq(R)
  BY Zenon DEF Base
<1> QED
  BY SMT, <1>1 DEF Proc

(* The parent counts an event. *)
LEMMA CountStep ==
  ASSUME Base, Count
  PROVE  Becomes(Parent, [procs[Parent] EXCEPT !.i = procs[Parent].i + 1])
<1>1. procs' = [procs EXCEPT ![Parent] = [procs[Parent] EXCEPT !.i = procs[Parent].i + 1]]
  BY SMT DEF Count
<1> QED
  BY Zenon, <1>1, Becoming, Shape

(* The parent ends the first loop over the index. *)
LEMMA CountedStep ==
  ASSUME Base, Counted
  PROVE  Becomes(Parent, [procs[Parent] EXCEPT !.pc = "add", !.i = 1])
<1>0. Parent \in DOMAIN procs
  BY Zenon, Shape, ProcDomain
<1>1. procs' = [procs EXCEPT ![Parent] = [procs[Parent] EXCEPT !.pc = "add", !.i = 1]]
  BY Zenon, <1>0 DEF Counted
<1> QED
  BY Zenon, <1>1, Becoming, Shape

(* The test of add_event(), in terms of the sums *)
LEMMA Reaching ==
  ASSUME NEW S, NEW T, NEW F, Base, Splitting(S, T, F), NEW p \in Proc, Adding(p)
  PROVE  /\ procs[p].i \in 1..Len(events) /\ procs[p].i - 1 \in 0..Len(events)
         /\ procs[p].total_event_added # total_event /\ procs[p].total_event_added < total_event
         /\ \A k \in Nat : procs[p].parallel_file_count = k =>
              /\ InBatch(procs[p]) <=> Reached(S, T, procs[p].i - 1) < Threshold(k)
              /\ InBatch(procs[p]) \in BOOLEAN
<1> DEFINE i == procs[p].i
<1>0. Len(events) \in Nat
  BY Zenon, Shape
<1>1. /\ i \in 1..Len(events) /\ i - 1 \in 0..Len(events) /\ i \in Nat
      /\ procs[p].total_event_added = S[i - 1] /\ procs[p].auxtrace_size_added = T[i - 1]
  BY SMT, <1>0 DEF Splitting, Counters, Adding
<1>2. S[i - 1] <= i - 1 /\ S[i - 1] \in Nat /\ total_event = Len(events)
  BY SMT, <1>1 DEF Splitting, Counts, Sums
<1>3. procs[p].total_event_added # total_event /\ procs[p].total_event_added < total_event
  BY SMT, <1>0, <1>1, <1>2
<1>4. ASSUME NEW k \in Nat, procs[p].parallel_file_count = k
      PROVE  InBatch(procs[p]) <=> Reached(S, T, i - 1) < Threshold(k)
  <2>1. CASE parallel_by_events
    BY Zenon, <1>1, <1>4, <2>1 DEF InBatch, Reached, Threshold, Step
  <2>2. CASE ~parallel_by_events
    BY Zenon, <1>1, <1>4, <2>2 DEF InBatch, Reached, Threshold, Step
  <2> QED
    BY Zenon, <2>1, <2>2
<1>5. ASSUME NEW k \in Nat, procs[p].parallel_file_count = k
      PROVE  InBatch(procs[p]) \in BOOLEAN
  <2>1. Reached(S, T, i - 1) \in Nat /\ Threshold(k) \in Nat
    BY Zenon, <1>1, Thresholds DEF Splitting, Base
  <2>2. InBatch(procs[p]) = (Reached(S, T, i - 1) < Threshold(k))
    BY SMT, <1>1, <1>5 DEF InBatch, Reached, Threshold, Step
  <2> QED
    BY SMT, <2>1, <2>2
<1> QED
  BY Zenon, <1>1, <1>3, <1>4, <1>5

-----------------------------------------------------------------------------
(* The invariant is inductive. *)

(* Whoever is past the first loop, the parent is. *)
LEMMA PastCounting ==
  ASSUME IInv, NEW p \in Proc, procs[p].pc # "count"
  PROVE  procs[Parent].pc # "count" /\ \E S, T, F : Splitting(S, T, F)
<1>1. procs[Parent].pc = "count" => Len(procs) = 1
  BY Zenon DEF IInv, Counting
<1>2. Len(procs) = 1 => p = Parent
  BY SMT DEF Proc, Parent
<1> QED
  BY Zenon, <1>1, <1>2 DEF IInv

(* Behind the second loop a process has gone through the index. *)
LEMMA Through ==
  ASSUME IInv, NEW p \in Proc, procs[p].pc # "count",
         procs[p].pc # "add" \/ procs[p].i > Len(events)
  PROVE  procs[p].i = Len(events) + 1
<1>1. PICK S, T, F : Splitting(S, T, F)
  BY Zenon, PastCounting
<1>2. /\ procs[p].i \in 1..(Len(events) + 1)
      /\ procs[p].pc # "add" => procs[p].i = Len(events) + 1
  BY Zenon, <1>1 DEF Splitting, Counters
<1>3. Len(events) \in Nat
  BY Zenon, Shape DEF IInv
<1>4. procs[p].i > Len(events) => procs[p].i = Len(events) + 1
  BY SMT, <1>2, <1>3
<1> QED
  BY Zenon, <1>2, <1>4

(* Every step of every process keeps the counters and batches as the       *)
(* invariant says.                                                         *)
LEMMA Invariant == Spec => []IInv
(* The sums over one event more *)
<1>SumsExtended. ASSUME scene \in DOMAIN Scenario, events \in Inputs,
                        NEW S, NEW T, NEW k \in Nat, k + 1 <= Len(events), Sums(S, T, k)
                 PROVE  \E U, V : /\ Sums(U, V, k + 1)
                                  /\ V[k + 1] = T[k] + (IF Filtered(k + 1) THEN 0 ELSE Len(events[k + 1].data))
  <2>. USE <1>SumsExtended
  <2> DEFINE one == IF Filtered(k + 1) THEN 0 ELSE 1
             size == IF Filtered(k + 1) THEN 0 ELSE Len(events[k + 1].data)
             U == [i \in 0..(k + 1) |-> IF i = k + 1 THEN S[k] + one ELSE S[i]]
             V == [i \in 0..(k + 1) |-> IF i = k + 1 THEN T[k] + size ELSE T[i]]
  <2>0. /\ Len(events) \in Nat
        /\ S \in [0..k -> Nat] /\ T \in [0..k -> Nat] /\ S[0] = 0 /\ T[0] = 0
        /\ \A i \in 0..k : S[i] <= i
        /\ \A i, j \in 0..k : i <= j => S[i] <= S[j] /\ T[i] <= T[j]
    BY SMT, Constants DEF Sums
  <2>1. one \in {0, 1} /\ size \in Nat
    BY SMT, <2>0, EventSize
  <2> HIDE DEF one, size
  <2>2. U \in [0..(k + 1) -> Nat] /\ V \in [0..(k + 1) -> Nat] /\ U[0] = 0 /\ V[0] = 0
    BY SMT, <2>0, <2>1
  <2>3. /\ U[k + 1] = U[k] + one /\ V[k + 1] = V[k] + size
        /\ \A i \in 0..k : U[i] = S[i] /\ V[i] = T[i]
    BY SMT, <2>0, <2>1
  <2> HIDE DEF U, V
  <2>4. ASSUME NEW i \in 1..(k + 1)
        PROVE  /\ U[i] = U[i - 1] + (IF Filtered(i) THEN 0 ELSE 1)
               /\ V[i] = V[i - 1] + (IF Filtered(i) THEN 0 ELSE Len(events[i].data))
    <3>1. CASE i = k + 1
      BY SMT, <3>1, <2>3 DEF one, size
    <3>2. CASE i \in 1..k
      <4>1. /\ S[i] = S[i - 1] + (IF Filtered(i) THEN 0 ELSE 1)
            /\ T[i] = T[i - 1] + (IF Filtered(i) THEN 0 ELSE Len(events[i].data))
        BY Zenon, <3>2 DEF Sums
      <4>2. i \in 0..k /\ i - 1 \in 0..k
        BY SMT, <3>2
      <4>3. U[i] = S[i] /\ V[i] = T[i] /\ U[i - 1] = S[i - 1] /\ V[i - 1] = T[i - 1]
        BY Zenon, <2>3, <4>2
      <4> QED
        BY Zenon, <4>1, <4>3
    <3> QED
      BY SMT, <3>1, <3>2
  <2>5. ASSUME NEW i \in 0..(k + 1)
        PROVE  U[i] <= i
    <3>1. CASE i \in 0..k
      BY Zenon, <3>1, <2>0, <2>3
    <3>2. CASE i = k + 1
      <4>1. S[k] <= k /\ U[k] = S[k] /\ S[k] \in Nat
        BY SMT, <2>0, <2>3
      <4> QED
        BY SMT, <3>2, <4>1, <2>1, <2>3
    <3> QED
      BY SMT, <3>1, <3>2
  <2>6. \A i, j \in 0..(k + 1) : i <= j => U[i] <= U[j] /\ V[i] <= V[j]
    <3> SUFFICES ASSUME NEW i \in 0..(k + 1), NEW j \in 0..(k + 1), i <= j
                 PROVE  U[i] <= U[j] /\ V[i] <= V[j]
      OBVIOUS
    <3>1. CASE j \in 0..k
      <4>1. i \in 0..k
        BY SMT, <3>1
      <4> QED
        BY Zenon, <3>1, <4>1, <2>0, <2>3
    <3>2. CASE j = k + 1 /\ i \in 0..k
      <4>1. U[i] <= U[k] /\ V[i] <= V[k]
        BY SMT, <3>2, <2>0, <2>3
      <4>2. U[i] \in Nat /\ V[i] \in Nat /\ U[k] \in Nat /\ V[k] \in Nat
        <5>1. k \in 0..(k + 1)
          BY SMT
        <5> QED
          BY Zenon, <2>2, <5>1
      <4>3. U[i] <= U[k] + one /\ V[i] <= V[k] + size
        BY SMT, <4>1, <4>2, <2>1
      <4> QED
        BY Zenon, <3>2, <4>3, <2>3
    <3>3. CASE j = k + 1 /\ i = k + 1
      BY SMT, <3>3, <2>2
    <3> QED
      BY SMT, <3>1, <3>2, <3>3
  <2>7. Sums(U, V, k + 1)
    BY Zenon, <2>2, <2>4, <2>5, <2>6 DEF Sums
  <2>8. V[k + 1] = T[k] + size
    BY SMT, <2>3
  <2> QED
    BY Zenon, <2>7, <2>8 DEF size
(* What depends only on the index and its totals does not change. *)
<1>Statics. ASSUME Fixed, NEW S, NEW T
            PROVE  /\ Len(events') = Len(events) /\ parallel_worker' = parallel_worker
                   /\ \A k : Threshold(k)' = Threshold(k)
                   /\ \A k : Reached(S, T, k)' = Reached(S, T, k)
                   /\ \A e : Filtered(e)' = Filtered(e)
                   /\ \A F, c, e : Takes(S, T, F, c, e)' = Takes(S, T, F, c, e)
                   /\ Counts(S, T)' = Counts(S, T)
  <2>. USE <1>Statics
  <2>1. events' = events /\ total_event' = total_event /\ total_auxtrace_size' = total_auxtrace_size
        /\ scene' = scene
    BY Zenon DEF Fixed
  <2>2. parallel_worker' = parallel_worker /\ parallel_by_events' = parallel_by_events
        /\ FilteredQueue' = FilteredQueue
    BY Zenon, <2>1 DEF parallel_worker, parallel_by_events, FilteredQueue
  <2>3. \A e : Filtered(e)' = Filtered(e)
    BY Zenon, <2>1, <2>2 DEF Filtered
  <2>4. parallel_step' = parallel_step /\ parallel_auxtrace_size' = parallel_auxtrace_size
    BY Zenon, <2>1, <2>2 DEF parallel_step, parallel_auxtrace_size
  <2>5. \A k : Threshold(k)' = Threshold(k)
    BY Zenon, <2>2, <2>4 DEF Threshold, Step
  <2>6. \A k : Reached(S, T, k)' = Reached(S, T, k)
    BY Zenon, <2>2 DEF Reached
  <2>7. \A F, c, e : Takes(S, T, F, c, e)' = Takes(S, T, F, c, e)
    <3> SUFFICES ASSUME NEW F, NEW c, NEW e
                 PROVE  Takes(S, T, F, c, e)' = Takes(S, T, F, c, e)
      BY Zenon
    <3>1. /\ Filtered(e)' = Filtered(e) /\ Threshold(c - 1)' = Threshold(c - 1)
          /\ Reached(S, T, e - 1)' = Reached(S, T, e - 1)
      BY Zenon, <2>3, <2>5, <2>6
    <3> QED
      BY Zenon, <3>1 DEF Takes
  <2>8. Counts(S, T)' = Counts(S, T)
    BY Zenon, <2>1, <2>3 DEF Counts, Sums
  <2> QED
    BY Zenon, <2>1, <2>2, <2>3, <2>5, <2>6, <2>7, <2>8
(* A step of a process that has gone through the index *)
<1>QuietStep. ASSUME NEW S, NEW T, NEW F, Base, Splitting(S, T, F), Fixed, Len(procs') = Len(procs),
                     \A o \in Proc : Same(o) /\ (procs'[o].pc # "add" => procs[o].i = Len(events) + 1)
              PROVE  Splitting(S, T, F)'
  <2>. USE <1>QuietStep
  <2>1. Proc' = Proc /\ Child' = Child /\ Child \subseteq Proc /\ Parent \in Proc /\ Len(events') = Len(events)
    BY Zenon, Shape, <1>Statics DEF Proc, Child
  <2>2. Counts(S, T)'
    BY Zenon, <1>Statics DEF Splitting
  <2>3. Counters(S, T)'
    <3> SUFFICES ASSUME NEW o \in Proc
                 PROVE  /\ procs'[o].i \in 1..(Len(events) + 1)
                        /\ procs'[o].pc # "add" => procs'[o].i = Len(events) + 1
                        /\ procs'[o].total_event_added = S[procs'[o].i - 1]
                        /\ procs'[o].auxtrace_size_added = T[procs'[o].i - 1]
      BY Zenon, <2>1 DEF Counters
    <3>1. Same(o) /\ (procs'[o].pc # "add" => procs[o].i = Len(events) + 1)
      BY Zenon
    <3> QED
      BY Zenon, <3>1 DEF Splitting, Counters, Same
  <2>4. Files'
    BY Zenon, <2>1 DEF Splitting, Files, Same, Parent
  <2>5. Firsts(S, T, F)'
    <3> SUFFICES ASSUME NEW c \in Child
                 PROVE  /\ F[c] \in 1..Len(events') /\ ~Filtered(F[c])'
                        /\ F[c] < procs'[c].i /\ F[c] < procs'[Parent].i
                        /\ Threshold(c - 2)' <= Reached(S, T, F[c] - 1)'
                        /\ \A d \in Child : c < d => F[c] < F[d]
      BY Zenon, <2>1 DEF Firsts, Parent
    <3>1. /\ F[c] \in 1..Len(events) /\ ~Filtered(F[c])
          /\ F[c] < procs[c].i /\ F[c] < procs[Parent].i
          /\ Threshold(c - 2) <= Reached(S, T, F[c] - 1)
          /\ \A d \in Child : c < d => F[c] < F[d]
      BY Zenon DEF Splitting, Firsts
    <3>2. procs'[c].i = procs[c].i /\ procs'[Parent].i = procs[Parent].i
      BY Zenon, <2>1 DEF Same
    <3>3. /\ Filtered(F[c])' = Filtered(F[c]) /\ Threshold(c - 2)' = Threshold(c - 2)
          /\ Reached(S, T, F[c] - 1)' = Reached(S, T, F[c] - 1)
      BY Zenon, <1>Statics
    <3> QED
      BY Zenon, <2>1, <3>1, <3>2, <3>3
  <2>6. Batches(S, T, F)'
    <3> SUFFICES ASSUME NEW c \in Child
                 PROVE  procs'[c].batch = {e \in 1..(procs'[c].i - 1) : Takes(S, T, F, c, e)'}
      BY Zenon, <2>1 DEF Batches
    <3>1. procs[c].batch = {e \in 1..(procs[c].i - 1) : Takes(S, T, F, c, e)}
      BY Zenon DEF Splitting, Batches
    <3>2. procs'[c].i = procs[c].i /\ procs'[c].batch = procs[c].batch
      BY Zenon, <2>1 DEF Same
    <3>3. \A e : Takes(S, T, F, c, e)' = Takes(S, T, F, c, e)
      BY Zenon, <1>Statics
    <3> QED
      BY Zenon, <3>1, <3>2, <3>3
  <2>7. Covered(S, T, F)'
    <3>1. procs'[Parent].i = procs[Parent].i
      BY Zenon, <2>1 DEF Same
    <3>2. \A c, e : Takes(S, T, F, c, e)' = Takes(S, T, F, c, e) /\ Filtered(e)' = Filtered(e)
      BY Zenon, <1>Statics
    <3> QED
      BY Zenon, <2>1, <3>1, <3>2 DEF Splitting, Covered, Parent
  <2> QED
    BY Zenon, <2>2, <2>3, <2>4, <2>5, <2>6, <2>7 DEF Splitting
(* A process passes an event of the second loop over the index. *)
<1>PassStep. ASSUME NEW S, NEW T, NEW F, Base, Splitting(S, T, F), Fixed, NEW p \in Proc, Passes(p, S, T),
                    p = Parent =>
                      Filtered(procs[p].i) \/ \E c \in Child : Takes(S, T, F, c, procs[p].i)
             PROVE  Splitting(S, T, F)'
  <2>. USE <1>PassStep
  <2> DEFINE i == procs[p].i
  <2>1. /\ Proc' = Proc /\ Child' = Child /\ Child \subseteq Proc /\ Parent \in Proc
        /\ Len(events') = Len(events) /\ Len(events) \in Nat
        /\ \A c \in Child : c # Parent
    BY Zenon, Shape, <1>Statics DEF Proc, Child, Passes
  <2>2. Counts(S, T)' /\ Counts(S, T)
    BY Zenon, <1>Statics DEF Splitting
  <2>3. i \in 1..Len(events) /\ i - 1 \in Nat /\ procs'[p].i = i + 1
    BY SMT, <2>1 DEF Splitting, Counters, Passes
  <2>4. Counters(S, T)'
    <3> SUFFICES ASSUME NEW o \in Proc
                 PROVE  /\ procs'[o].i \in 1..(Len(events) + 1)
                        /\ procs'[o].pc # "add" => procs'[o].i = Len(events) + 1
                        /\ procs'[o].total_event_added = S[procs'[o].i - 1]
                        /\ procs'[o].auxtrace_size_added = T[procs'[o].i - 1]
      BY Zenon, <2>1 DEF Counters
    <3>1. CASE o # p
      BY Zenon, <3>1 DEF Splitting, Counters, Passes
    <3>2. CASE o = p
      <4>1. /\ procs[p].total_event_added = S[i - 1] /\ procs[p].auxtrace_size_added = T[i - 1]
        BY Zenon DEF Splitting, Counters
      <4>2. /\ S[i] = S[i - 1] + (IF Filtered(i) THEN 0 ELSE 1)
            /\ T[i] = T[i - 1] + (IF Filtered(i) THEN 0 ELSE Len(events[i].data))
        BY Zenon, <2>2, <2>3 DEF Counts, Sums
      <4>3. procs'[p].total_event_added = S[i] /\ procs'[p].auxtrace_size_added = T[i]
        BY Zenon, <4>1, <4>2 DEF Passes
      <4>4. procs'[p].i - 1 = i /\ procs'[p].i \in 1..(Len(events) + 1)
        BY SMT, <2>1, <2>3
      <4> QED
        BY Zenon, <3>2, <4>3, <4>4 DEF Passes
    <3> QED
      BY Zenon, <3>1, <3>2
  <2>5. Files'
    <3>1. \A o \in Proc : procs'[o].parallel_file_count = procs[o].parallel_file_count
      BY Zenon DEF Passes
    <3> QED
      BY Zenon, <2>1, <3>1 DEF Splitting, Files, Passes, Parent
  <2>6. \A o \in Proc : procs[o].i \in Nat /\ procs[o].i <= procs'[o].i
    <3> SUFFICES ASSUME NEW o \in Proc
                 PROVE  procs[o].i \in Nat /\ procs[o].i <= procs'[o].i
      OBVIOUS
    <3>1. procs[o].i \in Nat
      BY SMT, <2>1 DEF Splitting, Counters
    <3>2. CASE o = p
      BY SMT, <3>1, <3>2, <2>3
    <3>3. CASE o # p
      <4>1. procs'[o] = procs[o]
        BY Zenon, <3>3 DEF Passes
      <4> QED
        BY SMT, <4>1, <3>1
    <3> QED
      BY Zenon, <3>1, <3>2, <3>3
  <2>7. Firsts(S, T, F)'
    <3> SUFFICES ASSUME NEW c \in Child
                 PROVE  /\ F[c] \in 1..Len(events') /\ ~Filtered(F[c])'
                        /\ F[c] < procs'[c].i /\ F[c] < procs'[Parent].i
                        /\ Threshold(c - 2)' <= Reached(S, T, F[c] - 1)'
                        /\ \A d \in Child : c < d => F[c] < F[d]
      BY Zenon, <2>1 DEF Firsts, Parent
    <3>1. /\ F[c] \in 1..Len(events) /\ ~Filtered(F[c])
          /\ F[c] < procs[c].i /\ F[c] < procs[Parent].i
          /\ Threshold(c - 2) <= Reached(S, T, F[c] - 1)
          /\ \A d \in Child : c < d => F[c] < F[d]
      BY Zenon DEF Splitting, Firsts
    <3>2. procs[c].i <= procs'[c].i /\ procs[Parent].i <= procs'[Parent].i
          /\ procs[c].i \in Nat /\ procs[Parent].i \in Nat
          /\ procs'[c].i \in 1..(Len(events) + 1) /\ procs'[Parent].i \in 1..(Len(events) + 1)
      BY Zenon, <2>1, <2>4, <2>6 DEF Counters, Parent
    <3>3. /\ Filtered(F[c])' = Filtered(F[c]) /\ Threshold(c - 2)' = Threshold(c - 2)
          /\ Reached(S, T, F[c] - 1)' = Reached(S, T, F[c] - 1)
      BY Zenon, <1>Statics
    <3>4. F[c] < procs'[c].i /\ F[c] < procs'[Parent].i
      BY SMT, <3>1, <3>2, <2>1
    <3> QED
      BY Zenon, <2>1, <3>1, <3>3, <3>4
  <2>8. Batches(S, T, F)'
    <3> SUFFICES ASSUME NEW c \in Child
                 PROVE  procs'[c].batch = {e \in 1..(procs'[c].i - 1) : Takes(S, T, F, c, e)'}
      BY Zenon, <2>1 DEF Batches
    <3>1. procs[c].batch = {e \in 1..(procs[c].i - 1) : Takes(S, T, F, c, e)}
      BY Zenon DEF Splitting, Batches
    <3>2. \A e : Takes(S, T, F, c, e)' = Takes(S, T, F, c, e)
      BY Zenon, <1>Statics
    <3>3. CASE c # p
      <4>1. procs'[c] = procs[c]
        BY Zenon, <2>1, <3>3 DEF Passes
      <4> QED
        BY Zenon, <3>1, <3>2, <4>1
    <3>4. CASE c = p
      <4>1. 1..(procs'[p].i - 1) = (1..(i - 1)) \cup {i}
        BY SMT, <2>3
      <4>2. F[p] < i
        BY Zenon, <3>4 DEF Splitting, Firsts
      <4>3. F[p] # i
        <5>1. F[p] \in 1..Len(events)
          BY Zenon, <3>4 DEF Splitting, Firsts
        <5> QED
          BY SMT, <4>2, <5>1, <2>1, <2>3
      <4>4. Takes(S, T, F, p, i) <=> ~Filtered(i) /\ Reached(S, T, i - 1) < Threshold(p - 1)
        BY Zenon, <4>2, <4>3 DEF Takes
      <4>5. procs'[p].batch = IF Takes(S, T, F, p, i) THEN procs[p].batch \cup {i} ELSE procs[p].batch
        BY Zenon, <3>4, <4>4 DEF Passes
      <4>6. CASE Takes(S, T, F, p, i)
        BY Zenon, <3>1, <3>2, <3>4, <4>1, <4>5, <4>6
      <4>7. CASE ~Takes(S, T, F, p, i)
        BY Zenon, <3>1, <3>2, <3>4, <4>1, <4>5, <4>7
      <4> QED
        BY Zenon, <4>6, <4>7
    <3> QED
      BY Zenon, <3>3, <3>4
  <2>9. Covered(S, T, F)'
    <3>1. \A c, e : Takes(S, T, F, c, e)' = Takes(S, T, F, c, e) /\ Filtered(e)' = Filtered(e)
      BY Zenon, <1>Statics
    <3> SUFFICES ASSUME NEW e \in 1..(procs'[Parent].i - 1), ~Filtered(e)
                 PROVE  \E c \in Child : Takes(S, T, F, c, e)
      BY Zenon, <2>1, <3>1 DEF Covered, Parent
    <3>2. CASE e \in 1..(procs[Parent].i - 1)
      BY Zenon, <3>2 DEF Splitting, Covered
    <3>3. CASE p = Parent /\ e = i
      BY Zenon, <3>3
    <3>4. p # Parent => procs'[Parent] = procs[Parent]
      BY Zenon, <2>1 DEF Passes
    <3>5. p = Parent => 1..(procs'[Parent].i - 1) = (1..(procs[Parent].i - 1)) \cup {i}
      <4>1. i \in Nat /\ i >= 1
        BY SMT, <2>1, <2>3
      <4>2. procs'[p].i - 1 = i
        BY SMT, <2>3, <4>1
      <4>3. 1..i = (1..(i - 1)) \cup {i}
        BY SMT, <4>1
      <4> QED
        BY Zenon, <4>2, <4>3
    <3> QED
      BY Zenon, <3>2, <3>3, <3>4, <3>5
  <2> QED
    BY Zenon, <2>2, <2>4, <2>5, <2>7, <2>8, <2>9 DEF Splitting
(* A fork keeps the batches of the older children. *)
<1>ForkStep. ASSUME NEW S, NEW T, NEW F, Base, Splitting(S, T, F), Fixed, ForksAt(S, T)
             PROVE  \E G : Splitting(S, T, G)'
  <2>. USE <1>ForkStep
  <2> DEFINE i == procs[Parent].i
             n == Len(procs) + 1
  <2>1. /\ Len(procs) \in Nat /\ Len(procs) >= 1 /\ Parent \in Proc
        /\ Len(events') = Len(events) /\ Len(events) \in Nat
        /\ Child \subseteq Proc /\ \A c \in Child : c \in Nat /\ c >= 2 /\ c # Parent
    BY Zenon, Shape, <1>Statics
  <2>2. /\ Len(procs') = n /\ Proc' = Proc \cup {n} /\ Child' = Child \cup {n}
        /\ Proc = Child \cup {Parent} /\ n \notin Proc /\ n # Parent /\ n \in Nat
    BY SMT, <2>1 DEF Proc, Child, Parent, ForksAt
  <2>3. Counts(S, T)' /\ Counts(S, T)
    BY Zenon, <1>Statics DEF Splitting
  <2>4. i \in 1..Len(events) /\ i - 1 \in 0..Len(events) /\ i - 1 \in Nat
    BY SMT, <2>1 DEF Splitting, Counters, ForksAt
  <2>5. PICK G : G[n] = i /\ \A c \in Child : G[c] = F[c]
    <3> DEFINE H == [c \in 1..n |-> IF c = n THEN i ELSE F[c]]
    <3>1. H[n] = i /\ \A c \in Child : H[c] = F[c]
      BY SMT, <2>1, <2>2 DEF Proc, Child
    <3> HIDE DEF H
    <3> QED
      BY Zenon, <3>1
  <2>6. /\ procs[Parent].total_event_added + 1 = S[i]
        /\ procs[Parent].auxtrace_size_added + Len(events[i].data) = T[i]
    <3>1. procs[Parent].total_event_added = S[i - 1] /\ procs[Parent].auxtrace_size_added = T[i - 1]
      BY Zenon, <2>1 DEF Splitting, Counters
    <3>2. S[i] = S[i - 1] + 1 /\ T[i] = T[i - 1] + Len(events[i].data)
      BY Zenon, <2>3, <2>4 DEF Counts, Sums, ForksAt
    <3> QED
      BY Zenon, <3>1, <3>2
  <2>7. Counters(S, T)'
    <3> SUFFICES ASSUME NEW o \in Proc'
                 PROVE  /\ procs'[o].i \in 1..(Len(events) + 1)
                        /\ procs'[o].pc # "add" => procs'[o].i = Len(events) + 1
                        /\ procs'[o].total_event_added = S[procs'[o].i - 1]
                        /\ procs'[o].auxtrace_size_added = T[procs'[o].i - 1]
      BY Zenon, <2>1 DEF Counters
    <3>1. CASE o \in Child
      BY Zenon, <3>1, <2>1 DEF Splitting, Counters, ForksAt
    <3>2. CASE o \in {Parent, n}
      <4>2. /\ procs'[o].pc = "add" /\ procs'[o].i = i + 1
            /\ procs'[o].total_event_added = S[i] /\ procs'[o].auxtrace_size_added = T[i]
        BY Zenon, <3>2, <2>6 DEF ForksAt
      <4>1. procs'[o].i - 1 = i /\ procs'[o].i \in 1..(Len(events) + 1)
        BY SMT, <2>1, <2>4, <4>2
      <4> QED
        BY Zenon, <4>1, <4>2
    <3> QED
      BY Zenon, <2>2, <3>1, <3>2
  <2>8. Files'
    <3>1. procs[Parent].parallel_file_count = Len(procs) - 1
      BY Zenon DEF Splitting, Files
    <3>2. procs[Parent].parallel_file_count + 1 = n - 1
      BY SMT, <2>1, <3>1
    <3>3. procs'[Parent].parallel_file_count = n - 1 /\ procs'[n].parallel_file_count = n - 1
      BY Zenon, <3>2 DEF ForksAt
    <3>4. \A c \in Child : procs'[c].parallel_file_count = c - 1
      BY Zenon DEF Splitting, Files, ForksAt
    <3> QED
      BY Zenon, <2>2, <3>2, <3>3, <3>4 DEF Files, Parent
  <2>9. Firsts(S, T, G)'
    <3> SUFFICES ASSUME NEW c \in Child'
                 PROVE  /\ G[c] \in 1..Len(events) /\ ~Filtered(G[c])
                        /\ G[c] < procs'[c].i /\ G[c] < procs'[Parent].i
                        /\ Threshold(c - 2) <= Reached(S, T, G[c] - 1)
                        /\ \A d \in Child' : c < d => G[c] < G[d]
      <4>1. /\ \A k : Threshold(k)' = Threshold(k) /\ Filtered(k)' = Filtered(k)
            /\ \A k : Reached(S, T, k)' = Reached(S, T, k)
        BY Zenon, <1>Statics
      <4> QED
        BY Zenon, <2>1, <4>1 DEF Firsts, Parent
    <3>1. CASE c \in Child
      <4>1. /\ F[c] \in 1..Len(events) /\ ~Filtered(F[c])
            /\ F[c] < procs[c].i /\ F[c] < i
            /\ Threshold(c - 2) <= Reached(S, T, F[c] - 1)
            /\ \A d \in Child : c < d => F[c] < F[d]
        BY Zenon, <3>1 DEF Splitting, Firsts
      <4>2. procs'[c] = procs[c] /\ procs'[Parent].i = i + 1
        BY Zenon, <3>1 DEF ForksAt
      <4>3. F[c] < i + 1
        BY SMT, <4>1, <2>1, <2>4
      <4>4. \A d \in Child' : c < d => G[c] < G[d]
        BY Zenon, <2>2, <2>5, <3>1, <4>1
      <4> QED
        BY Zenon, <2>5, <3>1, <4>1, <4>2, <4>3, <4>4
    <3>2. CASE c = n
      <4>1. procs'[n].i = i + 1 /\ procs'[Parent].i = i + 1 /\ ~Filtered(i)
            /\ Threshold(Len(procs) - 1) <= Reached(S, T, i - 1)
        BY Zenon DEF ForksAt
      <4>2. n - 2 = Len(procs) - 1 /\ i < i + 1 /\ \A d \in Child' : ~(n < d)
        <5>1. PICK j \in Nat, m \in Nat : j = i /\ m = Len(procs) /\ n = m + 1
          BY SMT, <2>1, <2>4
        <5>2. n - 2 = Len(procs) - 1 /\ i < i + 1
          BY SMT, <5>1
        <5>3. \A d \in Child : ~(n < d)
          BY SMT, <5>1 DEF Child
        <5>4. ~(n < n)
          BY SMT, <5>1
        <5> QED
          BY Zenon, <2>2, <5>2, <5>3, <5>4
      <4> QED
        BY Zenon, <2>4, <2>5, <3>2, <4>1, <4>2
    <3> QED
      BY Zenon, <2>2, <3>1, <3>2
  <2>10. Batches(S, T, G)'
    <3> SUFFICES ASSUME NEW c \in Child'
                 PROVE  procs'[c].batch = {e \in 1..(procs'[c].i - 1) : Takes(S, T, G, c, e)}
      <4>1. \A k, e : Takes(S, T, G, k, e)' = Takes(S, T, G, k, e)
        BY Zenon, <1>Statics
      <4> QED
        BY Zenon, <2>1, <4>1 DEF Batches
    <3>1. CASE c \in Child
      <4>1. procs'[c] = procs[c] /\ G[c] = F[c]
        BY Zenon, <3>1, <2>5 DEF ForksAt
      <4>2. \A e : Takes(S, T, G, c, e) <=> Takes(S, T, F, c, e)
        BY Zenon, <4>1 DEF Takes
      <4> QED
        BY Zenon, <3>1, <4>1, <4>2 DEF Splitting, Batches
    <3>2. CASE c = n
      <4>1. procs'[n].i = i + 1 /\ procs'[n].batch = {i} /\ ~Filtered(i)
        BY Zenon DEF ForksAt
      <4>2. i + 1 - 1 = i /\ i \in 1..i /\ \A e \in 1..i : ~(i < e)
        BY SMT, <2>4
      <4>3. Takes(S, T, G, n, i)
        BY Zenon, <2>5, <4>1 DEF Takes
      <4>4. \A e \in 1..i : Takes(S, T, G, n, e) => e = i
        BY Zenon, <2>5, <4>2 DEF Takes
      <4>5. 1..(procs'[n].i - 1) = 1..i
        BY SMT, <4>1, <2>4
      <4>6. {i} = {e \in 1..i : Takes(S, T, G, n, e)}
        BY Zenon, <4>2, <4>3, <4>4
      <4> QED
        BY Zenon, <3>2, <4>1, <4>5, <4>6
    <3> QED
      BY Zenon, <2>2, <3>1, <3>2
  <2>11. Covered(S, T, G)'
    <3>1. procs'[Parent].i - 1 = i /\ 1..i = (1..(i - 1)) \cup {i}
      <4>1. i \in Nat /\ i >= 1
        BY SMT, <2>1, <2>4
      <4>2. procs'[Parent].i = i + 1
        BY Zenon DEF ForksAt
      <4>3. procs'[Parent].i - 1 = i
        BY SMT, <4>1, <4>2
      <4>4. 1..i = (1..(i - 1)) \cup {i}
        BY SMT, <4>1
      <4> QED
        BY Zenon, <4>3, <4>4
    <3> SUFFICES ASSUME NEW e \in 1..(procs'[Parent].i - 1), ~Filtered(e)
                 PROVE  \E c \in Child' : Takes(S, T, G, c, e)
      <4>1. \A c, k : Takes(S, T, G, c, k)' = Takes(S, T, G, c, k) /\ Filtered(k)' = Filtered(k)
        BY Zenon, <1>Statics
      <4> QED
        BY Zenon, <2>1, <4>1 DEF Covered, Parent
    <3>2. CASE e \in 1..(i - 1)
      <4>1. PICK c \in Child : Takes(S, T, F, c, e)
        BY Zenon, <3>2 DEF Splitting, Covered
      <4>2. Takes(S, T, G, c, e)
        BY Zenon, <4>1, <2>5 DEF Takes
      <4> QED
        BY Zenon, <4>2, <2>2
    <3>3. CASE e = i
      <4>1. Takes(S, T, G, n, e)
        BY Zenon, <3>3, <2>5 DEF Takes
      <4> QED
        BY Zenon, <4>1, <2>2
    <3> QED
      BY Zenon, <3>1, <3>2, <3>3
  <2> QED
    BY Zenon, <2>3, <2>7, <2>8, <2>9, <2>10, <2>11 DEF Splitting
(* get_trace() changes only what a child decodes. *)
<1>GetTraceStep. ASSUME Base, NEW p \in Proc, NEW q \in Queue, GetTrace(p, q)
                 PROVE  \E v : Becomes(p, v) /\ DOMAIN v = Fields /\ Same(p) /\ procs'[p].pc = procs[p].pc
  <2>. USE <1>GetTraceStep
  <2>0. p \in DOMAIN procs
    BY Zenon, Shape, ProcDomain
  <2>1. PICK a, b : procs' = [procs EXCEPT ![p].trace[q] = a, ![p].entry[q] = b]
    BY Zenon DEF GetTrace
  <2> DEFINE v == [procs[p] EXCEPT !.trace[q] = a, !.entry[q] = b]
  <2>2. procs' = [procs EXCEPT ![p] = v]
    BY Zenon, <2>0, <2>1
  <2>3. Becomes(p, v)
    BY Zenon, <2>2, Becoming
  <2>4. procs'[p] = v
    BY Zenon, <2>3 DEF Becomes
  <2>5. DOMAIN v = Fields /\ Same(p) /\ procs'[p].pc = procs[p].pc
    BY SMT, <2>4 DEF Base, Fields, Same
  <2> QED
    BY Zenon, <2>3, <2>5
(* lookahead() changes only what a child decodes. *)
<1>LookaheadStep. ASSUME Base, NEW p \in Proc, NEW q \in Queue, Lookahead(p, q)
                  PROVE  \E v : Becomes(p, v) /\ DOMAIN v = Fields /\ Same(p) /\ procs'[p].pc = procs[p].pc
  <2>. USE <1>LookaheadStep
  <2>0. p \in DOMAIN procs
    BY Zenon, Shape, ProcDomain
  <2>1. PICK a, b : procs' = [procs EXCEPT ![p].entry[q] = a, ![p].seen[q] = b, ![p].looks = @ + 1]
    BY Zenon DEF Lookahead
  <2> DEFINE v == [procs[p] EXCEPT !.entry[q] = a, !.seen[q] = b, !.looks = @ + 1]
  <2>2. procs' = [procs EXCEPT ![p] = v]
    BY Zenon, <2>0, <2>1
  <2>3. Becomes(p, v)
    BY Zenon, <2>2, Becoming
  <2>4. procs'[p] = v
    BY Zenon, <2>3 DEF Becomes
  <2>5. DOMAIN v = Fields /\ Same(p) /\ procs'[p].pc = procs[p].pc
    BY SMT, <2>4 DEF Base, Fields, Same
  <2> QED
    BY Zenon, <2>3, <2>5
(* KeepEvent passes an event and may queue it. *)
<1>KeepStep. ASSUME NEW S, NEW T, NEW F, Base, Splitting(S, T, F), NEW p \in Proc, KeepEvent(p)
             PROVE  /\ \E v : Becomes(p, v) /\ DOMAIN v = Fields
                    /\ Passes(p, S, T) /\ ~Filtered(procs[p].i)
                    /\ p = Parent => procs'[p].batch = procs[p].batch
  <2>. USE <1>KeepStep
  <2> DEFINE i == procs[p].i
             v == AddEvent(procs[p], p # Parent, InBatch(procs[p]))
  <2>1. Adding(p) /\ ~Filtered(i) /\ procs[p].pc = "add" /\ i <= Len(events)
    BY Zenon DEF KeepEvent, Adding
  <2>2. procs' = [procs EXCEPT ![p] = v]
    BY Zenon DEF KeepEvent
  <2>3. Becomes(p, v)
    BY Zenon, <2>2, Becoming
  <2>4. /\ DOMAIN v = Fields
        /\ v.pc = procs[p].pc /\ v.i = i + 1
        /\ v.parallel_file_count = procs[p].parallel_file_count
        /\ v.total_event_added = procs[p].total_event_added + 1
        /\ v.auxtrace_size_added = procs[p].auxtrace_size_added + Len(events[i].data)
        /\ v.batch = IF p # Parent /\ InBatch(procs[p]) THEN procs[p].batch \cup {i} ELSE procs[p].batch
    <3>1. (p # Parent) \in BOOLEAN /\ InBatch(procs[p]) \in BOOLEAN
      <4>1. PICK k \in Nat : procs[p].parallel_file_count = k
        BY SMT, Shape DEF Splitting, Files, Proc, Child, Parent
      <4> QED
        BY Zenon, <2>1, <4>1, Reaching
    <3>2. DOMAIN procs[p] = Fields /\ procs[p].total_event_added # total_event
      BY Zenon, <2>1, Reaching DEF Base
    <3> QED
      BY ZenonT(60), <3>1, <3>2, Added
  <2> HIDE DEF v
  <2>5. p \in Child => (InBatch(procs[p]) <=> Reached(S, T, i - 1) < Threshold(p - 1)) /\ p # Parent
    <3> SUFFICES ASSUME p \in Child
                 PROVE  (InBatch(procs[p]) <=> Reached(S, T, i - 1) < Threshold(p - 1)) /\ p # Parent
      BY Zenon
    <3>1. p \in Nat /\ p >= 2 /\ p # Parent /\ procs[p].parallel_file_count = p - 1
      BY Zenon, Shape DEF Splitting, Files
    <3>2. p - 1 \in Nat
      BY SMT, <3>1
    <3> QED
      BY Zenon, <2>1, <3>1, <3>2, Reaching
  <2>6. procs'[p] = v /\ Len(procs') = Len(procs) /\ \A o \in Proc : o # p => procs'[o] = procs[o]
    BY Zenon, <2>3 DEF Becomes
  <2>7. Passes(p, S, T)
    BY Zenon, <2>1, <2>4, <2>5, <2>6 DEF Passes
  <2>8. p = Parent => procs'[p].batch = procs[p].batch
    BY Zenon, <2>4, <2>6
  <2> QED
    BY Zenon, <2>1, <2>3, <2>4, <2>7, <2>8
(* SkipEvent passes a filtered event. *)
<1>SkipStep. ASSUME NEW S, NEW T, NEW F, Base, Splitting(S, T, F), NEW p \in Proc, SkipEvent(p)
             PROVE  /\ \E v : Becomes(p, v) /\ DOMAIN v = Fields
                    /\ Passes(p, S, T) /\ Filtered(procs[p].i)
                    /\ procs'[p].batch = procs[p].batch
  <2>. USE <1>SkipStep
  <2> DEFINE i == procs[p].i
             v == [procs[p] EXCEPT !.i = i + 1]
  <2>1. Adding(p) /\ Filtered(i) /\ procs[p].pc = "add" /\ i <= Len(events)
    BY Zenon DEF SkipEvent, Adding
  <2>2. procs' = [procs EXCEPT ![p] = v]
    BY Zenon, ProcDomain DEF SkipEvent
  <2>3. Becomes(p, v)
    BY Zenon, <2>2, Becoming
  <2>4. /\ DOMAIN v = Fields
        /\ v.pc = procs[p].pc /\ v.i = i + 1
        /\ v.parallel_file_count = procs[p].parallel_file_count
        /\ v.total_event_added = procs[p].total_event_added
        /\ v.auxtrace_size_added = procs[p].auxtrace_size_added
        /\ v.batch = procs[p].batch
    BY SMT DEF Base, Fields
  <2> HIDE DEF v
  <2>5. procs'[p] = v /\ Len(procs') = Len(procs) /\ \A o \in Proc : o # p => procs'[o] = procs[o]
    BY Zenon, <2>3 DEF Becomes
  <2>6. /\ procs[p].total_event_added = procs[p].total_event_added + 0
        /\ procs[p].auxtrace_size_added = procs[p].auxtrace_size_added + 0
    <3>1. procs[p].i - 1 \in 0..Len(events)
      BY Zenon, <2>1, Reaching
    <3>2. S[procs[p].i - 1] \in Nat /\ T[procs[p].i - 1] \in Nat
      BY Zenon, <3>1 DEF Splitting, Counts, Sums
    <3>3. procs[p].total_event_added \in Nat /\ procs[p].auxtrace_size_added \in Nat
      BY Zenon, <3>2 DEF Splitting, Counters
    <3> QED
      BY SMT, <3>3
  <2>7. Passes(p, S, T)
    BY Zenon, <2>1, <2>4, <2>5, <2>6 DEF Passes
  <2> QED
    BY Zenon, <2>1, <2>3, <2>4, <2>5, <2>7
(* ForkWorker forks the next child at the next event that is not filtered. *)
<1>ForkWorkerStep. ASSUME NEW S, NEW T, NEW F, Base, Splitting(S, T, F), ForkWorker
                   PROVE  /\ ForksAt(S, T) /\ Base'
  <2>. USE <1>ForkWorkerStep
  <2> DEFINE i == procs[Parent].i
             n == Len(procs) + 1
             r == [procs[Parent] EXCEPT !.parallel_file_count = procs[Parent].parallel_file_count + 1]
             a == AddEvent(r, FALSE, TRUE)
             b == AddEvent(r, TRUE, TRUE)
             s == [procs EXCEPT ![Parent] = a]
  <2>1. /\ Adding(Parent) /\ procs[Parent].pc = "add" /\ i <= Len(events) /\ ~Filtered(i)
        /\ ~InBatch(procs[Parent])
        /\ procs' = Append(s, b) /\ worker_pids' = Append(worker_pids, n)
        /\ waited' = waited /\ scene' = scene /\ events' = events
    BY Zenon DEF ForkWorker, Adding, Forks
  <2>2. /\ Len(procs) \in Nat /\ Len(procs) >= 1 /\ Parent \in Proc /\ Len(procs) - 1 \in Nat
        /\ procs[Parent].parallel_file_count = Len(procs) - 1
    BY SMT, Shape DEF Splitting, Files
  <2>3. /\ i - 1 \in 0..Len(events) /\ procs[Parent].total_event_added # total_event
        /\ InBatch(procs[Parent]) <=> Reached(S, T, i - 1) < Threshold(Len(procs) - 1)
    BY Zenon, <2>1, <2>2, Reaching
  <2>4. /\ Reached(S, T, i - 1) \in Nat /\ Reached(S, T, i - 1) < Threshold(parallel_worker)
        /\ Threshold(Len(procs) - 1) \in Nat /\ Threshold(parallel_worker) \in Nat
        /\ \A k, l \in Nat : k <= l => Threshold(k) <= Threshold(l)
        /\ parallel_worker \in Nat
    BY Zenon, <2>2, <2>3, Thresholds, Constants DEF Base, Splitting
  <2>5. Threshold(Len(procs) - 1) <= Reached(S, T, i - 1)
    BY SMT, <2>1, <2>3, <2>4
  <2>6. Len(procs) <= parallel_worker
    <3>1. ~(parallel_worker <= Len(procs) - 1)
      <4> SUFFICES ASSUME parallel_worker <= Len(procs) - 1
                   PROVE  FALSE
        BY Zenon
      <4>1. Threshold(parallel_worker) <= Threshold(Len(procs) - 1)
        BY Zenon, <2>2, <2>4
      <4> QED
        BY SMT, <4>1, <2>4, <2>5
    <3> QED
      BY SMT, <3>1, <2>2, <2>4
  <2>7. /\ DOMAIN r = Fields /\ r.pc = procs[Parent].pc /\ r.i = i
        /\ r.parallel_file_count = procs[Parent].parallel_file_count + 1
        /\ r.total_event_added = procs[Parent].total_event_added
        /\ r.auxtrace_size_added = procs[Parent].auxtrace_size_added
        /\ r.batch = procs[Parent].batch
    BY SMT, <2>2 DEF Base, Fields
  <2> HIDE DEF r
  <2>8. \A x \in {a, b} :
          /\ DOMAIN x = Fields /\ x.pc = r.pc /\ x.i = r.i + 1
          /\ x.parallel_file_count = r.parallel_file_count
          /\ x.total_event_added = r.total_event_added + 1
          /\ x.auxtrace_size_added = r.auxtrace_size_added + Len(events[r.i].data)
    <3> DEFINE Ok(x) == /\ DOMAIN x = Fields /\ x.pc = r.pc /\ x.i = r.i + 1
                        /\ x.parallel_file_count = r.parallel_file_count
                        /\ x.total_event_added = r.total_event_added + 1
                        /\ x.auxtrace_size_added = r.auxtrace_size_added + Len(events[r.i].data)
    <3>1. Ok(a)
      BY Zenon, <2>3, <2>7, Added
    <3>2. Ok(b)
      BY Zenon, <2>3, <2>7, Added
    <3> HIDE DEF a, b, Ok
    <3>3. \A x \in {a, b} : Ok(x)
      BY Zenon, <3>1, <3>2
    <3> QED
      BY Zenon, <3>3 DEF Ok
  <2>9. a.batch = r.batch /\ b.batch = r.batch \cup {r.i}
    BY Zenon, <2>3, <2>7, Added
  <2> HIDE DEF a, b
  <2>10. PICK R : procs \in Seq(R)
    BY Zenon DEF Base
  <2>11. /\ s \in Seq(R \cup {a}) /\ Len(s) = Len(procs) /\ s[Parent] = a
         /\ \A o \in Proc : o # Parent => s[o] = procs[o]
    BY SMT, <2>2, <2>10, Replaced DEF Proc
  <2> HIDE DEF s
  <2>12. /\ procs' \in Seq((R \cup {a}) \cup {b}) /\ Len(procs') = n /\ procs'[n] = b
         /\ \A o \in Proc : procs'[o] = s[o]
    BY SMT, <2>1, <2>11, Appended DEF Proc
  <2>13. /\ procs'[Parent] = a
         /\ \A o \in Child : procs'[o] = procs[o]
    BY Zenon, <2>2, <2>11, <2>12, Shape
  <2>14. procs[Parent].batch = {} /\ {} \cup {i} = {i}
    BY SMT DEF Base
  <2>15. ForksAt(S, T)
    <3>1. procs'[n].batch = {i}
      BY Zenon, <2>7, <2>9, <2>12, <2>14
    <3> QED
      BY Zenon, <2>1, <2>5, <2>7, <2>8, <2>12, <2>13, <3>1 DEF ForksAt
  <2>16. /\ Proc' = Child \cup {Parent, n} /\ Child' = Child \cup {n}
         /\ n - 1 = Len(procs) /\ n \in Nat /\ n >= 1
    BY SMT, <2>2, <2>12 DEF Proc, Child, Parent
  <2>17. PICK Q : worker_pids \in Seq(Q)
    BY Zenon DEF Base
  <2>18. /\ worker_pids' \in Seq(Q \cup {n}) /\ Len(worker_pids') = Len(worker_pids) + 1
         /\ worker_pids'[Len(worker_pids) + 1] = n
         /\ \A k \in 1..Len(worker_pids) : worker_pids'[k] = worker_pids[k]
         /\ Len(worker_pids) \in Nat /\ Len(worker_pids) = Len(procs) - 1
    BY SMT, <2>1, <2>17, Appended DEF Base
  <2>19. \A k \in 1..Len(worker_pids') : worker_pids'[k] = k + 1
    <3>1. \A k \in 1..Len(worker_pids) : worker_pids[k] = k + 1
      BY Zenon DEF Base
    <3> QED
      BY SMT, <2>2, <2>18, <3>1
  <2>20. /\ Len(worker_pids') = n - 1 /\ n - 1 <= parallel_worker /\ waited \in 0..Len(worker_pids')
    BY SMT, <2>2, <2>6, <2>16, <2>18 DEF Base
  <2>21. \A c \in 2..(waited + 1) : c \in Child
    BY SMT, <2>2, <2>18 DEF Child, Base
  <2>22. parallel_worker' = parallel_worker
    BY Zenon, <2>1 DEF parallel_worker
  <2>23. \A p \in Proc' : DOMAIN procs'[p] = Fields
    <3>1. \A c \in Child : DOMAIN procs[c] = Fields
      BY Zenon, Shape DEF Base
    <3> QED
      BY Zenon, <2>8, <2>12, <2>13, <2>16, <3>1
  <2>24. /\ procs'[Parent].pc = "add" /\ procs'[n].pc = "add" /\ procs'[Parent].batch = {}
    BY Zenon, <2>1, <2>7, <2>8, <2>9, <2>12, <2>13, <2>14
  <2>25. \A c \in Child' : procs'[c].pc \in {"add", "decode", "exited"}
    BY Zenon, <2>13, <2>16, <2>24 DEF Base
  <2>26. \A c \in 2..(waited + 1) : procs'[c].pc = "exited"
    BY Zenon, <2>13, <2>21 DEF Base
  <2>27. Base'
    <3>1. Inputs' = Inputs
      BY Zenon, <2>1 DEF Inputs
    <3>2. "add" # "exited"
      BY SMT
    <3> QED
      BY Zenon, <2>1, <2>12, <2>16, <2>18, <2>19, <2>20, <2>22, <2>23, <2>24, <2>25, <2>26, <3>1, <3>2
      DEF Base, Parent
  <2> QED
    BY Zenon, <2>15, <2>27
(* A step of one process keeps the shape. *)
<1>BaseStep. ASSUME Base, NEW p \in Proc, NEW v, Becomes(p, v), DOMAIN v = Fields,
                    UNCHANGED <<scene, events, worker_pids, waited>>,
                    p = Parent => /\ v.pc \in {"count", "add", "wait", "exited"} /\ v.batch = {}
                                  /\ v.pc = "exited" => waited = Len(worker_pids),
                    p # Parent => /\ v.pc \in {"add", "decode", "exited"}
                                  /\ procs[p].pc = "exited" => v.pc = "exited"
             PROVE  Base'
  <2>. USE <1>BaseStep
  <2>1. /\ scene' = scene /\ events' = events /\ worker_pids' = worker_pids /\ waited' = waited
        /\ Inputs' = Inputs /\ parallel_worker' = parallel_worker
    BY Zenon DEF Inputs, parallel_worker
  <2>2. /\ Len(procs') = Len(procs) /\ procs'[p] = v /\ Proc' = Proc /\ Child' = Child
        /\ \A o \in Proc : o # p => procs'[o] = procs[o]
        /\ Child \subseteq Proc /\ \A c \in Child : c # Parent
        /\ Parent \in Proc
    BY Zenon, Shape DEF Becomes, Proc, Child
  <2>3. \A o \in Proc : DOMAIN procs'[o] = Fields
    BY Zenon, <2>2 DEF Base
  <2>4. /\ procs'[Parent].pc \in {"count", "add", "wait", "exited"} /\ procs'[Parent].batch = {}
        /\ procs'[Parent].pc = "exited" => waited = Len(worker_pids)
    BY Zenon, <2>2 DEF Base
  <2>5. \A c \in Child : /\ procs'[c].pc \in {"add", "decode", "exited"}
                         /\ procs[c].pc = "exited" => procs'[c].pc = "exited"
    BY Zenon, <2>2 DEF Base
  <2>6. \A c \in 2..(waited + 1) : c \in Child
    BY SMT, Shape DEF Child, Base
  <2>7. \A c \in 2..(waited + 1) : procs'[c].pc = "exited"
    BY Zenon, <2>5, <2>6 DEF Base
  <2> QED
    BY Zenon, <2>1, <2>2, <2>3, <2>4, <2>5, <2>7 DEF Base, Parent, Becomes
(* The invariant holds at the start. *)
<1>Initially. ASSUME Init
              PROVE  IInv
  <2>. USE <1>Initially
  <2>1. /\ procs = <<Process>> /\ Len(procs) = 1 /\ procs[Parent] = Process /\ Proc = {1} /\ Child = {}
        /\ worker_pids = <<>> /\ Len(worker_pids) = 0 /\ waited = 0 /\ total_event = 0
        /\ total_auxtrace_size = 0
    BY SMT DEF Init, Proc, Child, Parent
  <2>2. /\ DOMAIN Process = Fields /\ Process.pc = "count" /\ Process.batch = {} /\ Process.i = 1
        /\ Process.total_event_added = 0 /\ Process.auxtrace_size_added = 0
        /\ Process.parallel_file_count = 0
    BY SMT DEF Process, Fields
  <2>3. scene \in DOMAIN Scenario /\ events \in Inputs
    BY Zenon DEF Init
  <2>4. Len(events) \in Nat /\ parallel_worker \in Nat
    BY SMT, <2>3, Constants
  <2>5. Base
    <3>1. procs \in Seq({Process}) /\ worker_pids \in Seq({})
      BY SMT, <2>1
    <3>2. /\ Len(procs) >= 1 /\ Len(worker_pids) = Len(procs) - 1 /\ Len(worker_pids) <= parallel_worker
          /\ waited \in 0..Len(worker_pids)
          /\ \A k \in 1..Len(worker_pids) : FALSE
          /\ \A c \in 2..(waited + 1) : FALSE
      BY SMT, <2>1, <2>4
    <3>3. \A p \in Proc : DOMAIN procs[p] = Fields
      BY Zenon, <2>1, <2>2 DEF Parent
    <3> QED
      BY Zenon, <2>1, <2>2, <2>3, <3>1, <3>2, <3>3 DEF Base
  <2>6. \E S, T : Counting(S, T)
    <3> DEFINE Z == [k \in 0..0 |-> 0]
    <3>1. Sums(Z, Z, 0) /\ Z[0] = 0
      BY SMT DEF Sums
    <3> HIDE DEF Z
    <3>2. procs[Parent].i = 1 /\ 1 - 1 = 0 /\ 1 \in 1..(Len(events) + 1)
      BY SMT, <2>1, <2>2, <2>4
    <3>3. Counting(Z, Z)
      BY Zenon, <2>1, <2>2, <3>1, <3>2 DEF Counting
    <3> QED
      BY Zenon, <3>3
  <2> QED
    BY Zenon, <2>1, <2>2, <2>5, <2>6 DEF IInv
(* Count keeps it. *)
<1>InductiveCount. ASSUME IInv, Count
                   PROVE  IInv'
  <2>. USE <1>InductiveCount
  <2> DEFINE r == procs[Parent]
             v == [r EXCEPT !.i = r.i + 1]
  <2>1. /\ Base /\ r.pc = "count" /\ r.i <= Len(events)
        /\ scene' = scene /\ events' = events /\ worker_pids' = worker_pids /\ waited' = waited
        /\ total_event' = total_event + 1
        /\ total_auxtrace_size'
             = total_auxtrace_size + (IF Filtered(r.i) THEN 0 ELSE Len(events[r.i].data))
    BY Zenon DEF IInv, Count
  <2>2. PICK S, T : Counting(S, T)
    BY Zenon, <2>1 DEF IInv
  <2>3. Becomes(Parent, v) /\ Parent \in Proc /\ Len(events) \in Nat
    BY Zenon, <2>1, CountStep, Shape
  <2>4. /\ DOMAIN v = Fields /\ v.pc = "count" /\ v.batch = {} /\ v.i = r.i + 1
        /\ v.total_event_added = 0 /\ v.auxtrace_size_added = 0 /\ v.parallel_file_count = 0
    BY SMT, <2>1, <2>2, <2>3 DEF Base, Fields, Counting
  <2> HIDE DEF v
  <2>5. Base'
    <3>1. "count" # "exited"
      BY SMT
    <3> QED
      BY Zenon, <2>1, <2>3, <2>4, <3>1, <1>BaseStep
  <2>6. /\ r.i \in Nat /\ r.i - 1 \in Nat /\ r.i - 1 + 1 = r.i /\ r.i - 1 + 1 <= Len(events)
        /\ r.i + 1 - 1 = r.i /\ r.i + 1 \in 1..(Len(events) + 1)
        /\ Sums(S, T, r.i - 1) /\ total_event = r.i - 1 /\ total_auxtrace_size = T[r.i - 1]
    BY SMT, <2>1, <2>2, <2>3 DEF Counting
  <2>7. PICK U, V : /\ Sums(U, V, r.i)
                    /\ V[r.i] = T[r.i - 1] + (IF Filtered(r.i) THEN 0 ELSE Len(events[r.i].data))
    <3>1. PICK k \in Nat : k = r.i - 1 /\ k + 1 = r.i /\ k + 1 <= Len(events)
      BY Zenon, <2>6
    <3>2. \E U, V : /\ Sums(U, V, k + 1)
                    /\ V[k + 1] = T[k] + (IF Filtered(k + 1) THEN 0 ELSE Len(events[k + 1].data))
      <4>1. scene \in DOMAIN Scenario /\ events \in Inputs /\ Sums(S, T, k)
        BY Zenon, <2>1, <2>6, <3>1 DEF Base
      <4> HIDE DEF r
      <4> QED
        BY ZenonT(30), <3>1, <4>1, <1>SumsExtended
    <3> QED
      BY Zenon, <3>1, <3>2
  <2>8. Counting(U, V)'
    <3>1. procs'[Parent] = v /\ Len(procs') = Len(procs)
      BY Zenon, <2>3 DEF Becomes
    <3>2. \A e : Filtered(e)' = Filtered(e)
      BY Zenon, <2>1 DEF Filtered, FilteredQueue
    <3>4. procs'[Parent].i = r.i + 1 /\ procs'[Parent].i - 1 = r.i
      BY SMT, <2>4, <2>6, <3>1
    <3>5. total_event' = r.i /\ total_auxtrace_size' = V[r.i]
      BY Zenon, <2>1, <2>6, <2>7
    <3>6. Len(procs') = 1
      BY Zenon, <2>2, <3>1 DEF Counting
    <3>7. Sums(U, V, procs[Parent].i - 1)'
      BY Zenon, <2>1, <2>7, <3>2, <3>4 DEF Sums
    <3> QED
      BY Zenon, <2>1, <2>4, <2>6, <3>1, <3>4, <3>5, <3>6, <3>7 DEF Counting, Parent
  <2>9. procs'[Parent].pc = "count"
    BY Zenon, <2>3, <2>4 DEF Becomes
  <2> QED
    BY Zenon, <2>5, <2>8, <2>9 DEF IInv, Parent
(* Counted keeps it, and establishes the sums and the shares. *)
<1>InductiveCounted. ASSUME IInv, Counted
                     PROVE  IInv'
  <2>. USE <1>InductiveCounted
  <2> DEFINE r == procs[Parent]
             v == [r EXCEPT !.pc = "add", !.i = 1]
  <2>1. /\ Base /\ r.pc = "count" /\ r.i > Len(events) /\ Fixed
        /\ UNCHANGED <<scene, events, worker_pids, waited>>
    BY Zenon DEF IInv, Counted, Fixed
  <2>2. PICK S, T : Counting(S, T)
    BY Zenon, <2>1 DEF IInv
  <2>3. Becomes(Parent, v) /\ Parent \in Proc /\ Len(events) \in Nat /\ Len(events') = Len(events)
    BY Zenon, <2>1, CountedStep, Shape, <1>Statics
  <2>4. /\ DOMAIN v = Fields /\ v.pc = "add" /\ v.batch = {} /\ v.i = 1
        /\ v.total_event_added = 0 /\ v.auxtrace_size_added = 0 /\ v.parallel_file_count = 0
    BY SMT, <2>1, <2>2, <2>3 DEF Base, Fields, Counting
  <2> HIDE DEF v
  <2>5. Base'
    <3>1. "add" # "exited"
      BY SMT
    <3> QED
      BY Zenon, <2>1, <2>3, <2>4, <3>1, <1>BaseStep
  <2>6. r.i - 1 = Len(events)
    BY SMT, <2>1, <2>2, <2>3 DEF Counting
  <2>7. Counts(S, T)
    BY Zenon, <2>2, <2>6 DEF Counting, Counts
  <2>8. Counts(S, T)'
    BY Zenon, <2>1, <2>7, <1>Statics
  <2>9. /\ procs'[Parent] = v /\ Len(procs') = 1 /\ Proc' = {Parent} /\ Child' = {}
    <3>1. procs'[Parent] = v /\ Len(procs') = 1
      BY Zenon, <2>2, <2>3 DEF Becomes, Counting
    <3> QED
      BY SMT, <3>1 DEF Proc, Child, Parent
  <2>10. /\ S[0] = 0 /\ T[0] = 0 /\ 1 - 1 = 0 /\ 1 \in 1..(Len(events) + 1)
         /\ \A e \in 1..0 : FALSE
    BY SMT, <2>3, <2>7 DEF Counts, Sums
  <2>11. Counters(S, T)' /\ Files'
    BY Zenon, <2>3, <2>4, <2>9, <2>10 DEF Counters, Files, Parent
  <2>12. Firsts(S, T, S)' /\ Batches(S, T, S)'
    BY Zenon, <2>9 DEF Firsts, Batches
  <2>13. Covered(S, T, S)'
    <3>1. procs'[Parent].i - 1 = 0
      BY Zenon, <2>4, <2>9, <2>10
    <3> QED
      BY Zenon, <2>10, <3>1 DEF Covered, Parent
  <2>14. Splitting(S, T, S)'
    BY Zenon, <2>8, <2>11, <2>12, <2>13 DEF Splitting
  <2>15. procs'[Parent].pc # "count"
    BY SMT, <2>4, <2>9
  <2> QED
    BY Zenon, <2>5, <2>14, <2>15 DEF IInv, Parent
(* A step of a process in the second loop *)
<1>InductivePass. ASSUME IInv, NEW p \in Proc, SkipEvent(p) \/ KeepEvent(p)
                  PROVE  IInv'
  <2>. USE <1>InductivePass
  <2>1. /\ Base /\ procs[p].pc = "add" /\ Adding(p) /\ Fixed
        /\ UNCHANGED <<scene, events, worker_pids, waited>>
    BY Zenon DEF IInv, SkipEvent, KeepEvent, Adding, Fixed
  <2>2. procs[p].pc # "count"
    BY SMT, <2>1
  <2>3. PICK S, T, F : Splitting(S, T, F)
    BY Zenon, <2>2, PastCounting
  <2>4. PICK v : Becomes(p, v) /\ DOMAIN v = Fields
    BY Zenon, <2>1, <2>3, <1>SkipStep, <1>KeepStep
  <2>5. Passes(p, S, T) /\ (p = Parent => procs'[p].batch = procs[p].batch)
    BY Zenon, <2>1, <2>3, <1>SkipStep, <1>KeepStep
  <2>6. v.pc = "add" /\ procs'[p] = v /\ (p = Parent => v.batch = {})
    BY Zenon, <2>4, <2>5, <2>1 DEF Becomes, Passes, Base
  <2>7. "add" # "exited" /\ "add" # "count"
    BY SMT
  <2>8. Base'
    BY Zenon, <2>1, <2>4, <2>6, <2>7, <1>BaseStep
  <2>9. ASSUME p = Parent
        PROVE  Filtered(procs[p].i) \/ \E c \in Child : Takes(S, T, F, c, procs[p].i)
    <3> DEFINE i == procs[p].i
               c == Len(procs)
    <3>1. CASE SkipEvent(p)
      BY Zenon, <3>1 DEF SkipEvent
    <3>2. CASE KeepEvent(p)
      <4>1. ~Filtered(i) /\ InBatch(procs[p])
        <5>1. procs[p].total_event_added < total_event
          BY Zenon, <2>1, <2>3, Reaching
        <5> QED
          BY Zenon, <3>2, <5>1, <2>9 DEF KeepEvent, Forks
      <4>2. c \in Nat /\ c >= 1 /\ c - 1 \in Nat /\ procs[p].parallel_file_count = c - 1
        BY SMT, <2>1, <2>3, <2>9, Shape DEF Splitting, Files
      <4>3. Reached(S, T, i - 1) < Threshold(c - 1) /\ i - 1 \in 0..Len(events)
        BY Zenon, <2>1, <2>3, <4>1, <4>2, Reaching
      <4>4. c - 1 # 0
        <5>1. Threshold(0) = 0 /\ Reached(S, T, i - 1) \in Nat
          BY Zenon, <2>1, <2>3, <4>3, Thresholds DEF Splitting, Base
        <5>2. \A n \in Nat : ~(n < 0)
          BY SMT
        <5> QED
          BY Zenon, <4>3, <5>1, <5>2
      <4>5. c \in Child
        <5>1. \A n \in Nat : n >= 1 /\ n - 1 # 0 => n \in 2..n
          BY SMT
        <5> QED
          BY Zenon, <4>2, <4>4, <5>1 DEF Child
      <4>6. F[c] < i
        BY Zenon, <2>3, <2>9, <4>5 DEF Splitting, Firsts
      <4>7. Takes(S, T, F, c, i)
        BY Zenon, <4>1, <4>3, <4>6 DEF Takes
      <4> QED
        BY Zenon, <4>5, <4>7
    <3> QED
      BY Zenon, <3>1, <3>2
  <2>10. Splitting(S, T, F)'
    BY Zenon, <2>1, <2>3, <2>5, <2>9, <1>PassStep
  <2>11. procs'[Parent].pc # "count"
    <3>1. CASE p = Parent
      BY Zenon, <3>1, <2>6, <2>7
    <3>2. CASE p # Parent
      <4>1. procs'[Parent] = procs[Parent]
        BY Zenon, <2>1, <2>4, <3>2, Shape DEF Becomes
      <4> QED
        BY Zenon, <4>1, <2>2, PastCounting
    <3> QED
      BY Zenon, <3>1, <3>2
  <2> QED
    BY Zenon, <2>8, <2>10, <2>11 DEF IInv, Parent
(* ForkWorker keeps it. *)
<1>InductiveFork. ASSUME IInv, ForkWorker
                  PROVE  IInv'
  <2>. USE <1>InductiveFork
  <2>1. Base /\ procs[Parent].pc = "add" /\ Fixed
    BY Zenon DEF IInv, ForkWorker, Adding, Fixed
  <2>2. procs[Parent].pc # "count"
    BY SMT, <2>1
  <2>3. PICK S, T, F : Splitting(S, T, F)
    BY Zenon, <2>2 DEF IInv
  <2>4. ForksAt(S, T) /\ Base'
    BY Zenon, <2>1, <2>3, <1>ForkWorkerStep
  <2>5. \E G : Splitting(S, T, G)'
    BY Zenon, <2>1, <2>3, <2>4, <1>ForkStep
  <2>6. procs'[Parent].pc # "count"
    <3>1. procs'[Parent].pc = "add"
      BY Zenon, <2>4 DEF ForksAt
    <3> QED
      BY SMT, <3>1
  <2> QED
    BY Zenon, <2>4, <2>5, <2>6 DEF IInv, Parent
(* The steps of a process behind the second loop *)
<1>InductiveQuiet. ASSUME IInv, NEW p \in Proc, NEW v, Becomes(p, v), DOMAIN v = Fields, Same(p),
                          procs[p].pc # "count", procs[p].i = Len(events) + 1,
                          UNCHANGED <<scene, events, total_event, total_auxtrace_size, worker_pids, waited>>,
                          p = Parent => /\ v.pc \in {"wait", "exited"}
                                        /\ v.pc = "exited" => waited = Len(worker_pids),
                          p # Parent => /\ v.pc \in {"decode", "exited"}
                                        /\ procs[p].pc = "exited" => v.pc = "exited"
                   PROVE  IInv'
  <2>. USE <1>InductiveQuiet
  <2>1. Base /\ Fixed
    BY Zenon DEF IInv, Fixed
  <2>2. PICK S, T, F : Splitting(S, T, F)
    BY Zenon, PastCounting
  <2>3. procs'[p] = v /\ Len(procs') = Len(procs) /\ \A o \in Proc : o # p => procs'[o] = procs[o]
    BY Zenon DEF Becomes
  <2>4. v.batch = procs[p].batch /\ (p = Parent => v.batch = {})
    BY Zenon, <2>1, <2>3 DEF Same, Base
  <2>5. Base'
    BY Zenon, <2>1, <2>4, <1>BaseStep
  <2>6. \A o \in Proc : Same(o) /\ (procs'[o].pc # "add" => procs[o].i = Len(events) + 1)
    <3> SUFFICES ASSUME NEW o \in Proc, o # p
                 PROVE  Same(o) /\ (procs'[o].pc # "add" => procs[o].i = Len(events) + 1)
      BY Zenon
    <3> QED
      BY Zenon, <2>2, <2>3 DEF Same, Splitting, Counters
  <2>7. Splitting(S, T, F)'
    BY Zenon, <2>1, <2>2, <2>3, <2>6, <1>QuietStep
  <2>8. procs'[Parent].pc # "count"
    <3>1. CASE p = Parent
      BY SMT, <3>1, <2>3
    <3>2. CASE p # Parent
      BY Zenon, <3>2, <2>1, <2>3, PastCounting, Shape
    <3> QED
      BY Zenon, <3>1, <3>2
  <2> QED
    BY Zenon, <2>5, <2>7, <2>8 DEF IInv, Parent
(* ... where a process only changes its pc *)
<1>InductivePc. ASSUME IInv, NEW p \in Proc, NEW pc, procs' = [procs EXCEPT ![p].pc = pc],
                       procs[p].pc # "count", procs[p].i = Len(events) + 1,
                       UNCHANGED <<scene, events, total_event, total_auxtrace_size, worker_pids, waited>>,
                       p = Parent => pc \in {"wait", "exited"} /\ (pc = "exited" => waited = Len(worker_pids)),
                       p # Parent => pc \in {"decode", "exited"} /\ (procs[p].pc = "exited" => pc = "exited")
                PROVE  IInv'
  <2>. USE <1>InductivePc
  <2> DEFINE v == [procs[p] EXCEPT !.pc = pc]
  <2>1. Base /\ p \in DOMAIN procs
    BY Zenon, ProcDomain DEF IInv
  <2>2. procs' = [procs EXCEPT ![p] = v]
    BY Zenon, <2>1
  <2>3. Becomes(p, v)
    BY Zenon, <2>1, <2>2, Becoming
  <2>4. procs'[p] = v
    BY Zenon, <2>3 DEF Becomes
  <2>5. DOMAIN v = Fields /\ Same(p) /\ v.pc = pc
    <3>1. DOMAIN procs[p] = Fields
      BY Zenon, <2>1 DEF Base
    <3>2. /\ DOMAIN v = Fields /\ v.pc = pc /\ v.i = procs[p].i /\ v.batch = procs[p].batch
          /\ v.total_event_added = procs[p].total_event_added
          /\ v.auxtrace_size_added = procs[p].auxtrace_size_added
          /\ v.parallel_file_count = procs[p].parallel_file_count
      BY SMT, <3>1 DEF Fields
    <3> HIDE DEF v
    <3> QED
      BY Zenon, <2>4, <3>2 DEF Same
  <2> HIDE DEF v
  <2> QED
    BY Zenon, <2>3, <2>5, <1>InductiveQuiet
(* WaitPid keeps it. *)
<1>InductiveWaitPid. ASSUME IInv, WaitPid
                     PROVE  IInv'
  <2>. USE <1>InductiveWaitPid
  <2>1. /\ Base /\ Fixed /\ procs' = procs /\ worker_pids' = worker_pids /\ waited' = waited + 1
        /\ procs[Parent].pc = "wait" /\ waited < Len(worker_pids)
        /\ procs[worker_pids[waited + 1]].pc = "exited" /\ scene' = scene /\ events' = events
    BY Zenon DEF IInv, WaitPid, Fixed
  <2>2. procs[Parent].pc # "count" /\ procs[Parent].pc # "exited"
    BY SMT, <2>1
  <2>3. PICK S, T, F : Splitting(S, T, F)
    BY Zenon, <2>2 DEF IInv
  <2>4. /\ Len(procs) \in Nat /\ Len(worker_pids) = Len(procs) - 1
        /\ waited \in 0..Len(worker_pids) /\ Len(procs) >= 1
        /\ \A c \in 2..(waited + 1) : procs[c].pc = "exited"
        /\ \A k \in 1..Len(worker_pids) : worker_pids[k] = k + 1
    BY Zenon, <2>1, Shape DEF Base
  <2>5. waited + 1 \in 0..Len(worker_pids) /\ waited + 1 \in 1..Len(worker_pids)
    BY SMT, <2>1, <2>4
  <2>6. procs[waited + 1 + 1].pc = "exited"
    BY Zenon, <2>1, <2>4, <2>5
  <2>7. 2..(waited + 1 + 1) = (2..(waited + 1)) \cup {waited + 1 + 1}
    BY SMT, <2>4
  <2>8. \A c \in 2..(waited' + 1) : procs'[c].pc = "exited"
    BY Zenon, <2>1, <2>4, <2>6, <2>7
  <2>9. Base'
    <3>1. Inputs' = Inputs /\ parallel_worker' = parallel_worker /\ Proc' = Proc /\ Child' = Child
      BY Zenon, <2>1 DEF Inputs, parallel_worker, Proc, Child
    <3> QED
      BY Zenon, <2>1, <2>2, <2>5, <2>8, <3>1 DEF Base, Parent
  <2>10. Splitting(S, T, F)'
    <3>1. \A o \in Proc : Same(o) /\ (procs'[o].pc # "add" => procs[o].i = Len(events) + 1)
      BY Zenon, <2>1, <2>3 DEF Same, Splitting, Counters
    <3> QED
      BY Zenon, <2>1, <2>3, <3>1, <1>QuietStep
  <2> QED
    BY Zenon, <2>1, <2>2, <2>9, <2>10 DEF IInv, Parent
(* Decoding keeps it. *)
<1>InductiveDecode. ASSUME IInv, NEW p \in Child, NEW q \in Queue, GetTrace(p, q) \/ Lookahead(p, q)
                    PROVE  IInv'
  <2>. USE <1>InductiveDecode
  <2>1. /\ Base /\ p \in Proc /\ p # Parent /\ procs[p].pc = "decode"
        /\ UNCHANGED <<scene, events, total_event, total_auxtrace_size, worker_pids, waited>>
    BY Zenon, Shape DEF IInv, GetTrace, Lookahead
  <2>2. procs[p].pc # "count" /\ procs[p].pc # "add" /\ procs[p].pc # "exited"
    BY SMT, <2>1
  <2>3. procs[p].i = Len(events) + 1
    BY Zenon, <2>1, <2>2, Through
  <2>4. PICK v : Becomes(p, v) /\ DOMAIN v = Fields
    BY Zenon, <2>1, <1>GetTraceStep, <1>LookaheadStep
  <2>5. Same(p) /\ procs'[p].pc = procs[p].pc
    BY Zenon, <2>1, <1>GetTraceStep, <1>LookaheadStep
  <2>6. v.pc = "decode"
    BY Zenon, <2>1, <2>4, <2>5 DEF Becomes
  <2> QED
    BY Zenon, <2>1, <2>2, <2>3, <2>4, <2>5, <2>6, <1>InductiveQuiet
(* Every step keeps it. *)
<1>Inductive. ASSUME IInv, [Next]_vars
              PROVE  IInv'
  <2>. USE <1>Inductive
  <2>0. Base /\ Parent \in Proc /\ Child \subseteq Proc /\ \A c \in Child : c # Parent
    BY Zenon, Shape DEF IInv
  <2>1. CASE Count
    BY Zenon, <2>1, <1>InductiveCount
  <2>2. CASE Counted
    BY Zenon, <2>2, <1>InductiveCounted
  <2>3. CASE ForkWorker
    BY Zenon, <2>3, <1>InductiveFork
  <2>4. CASE WaitPid
    BY Zenon, <2>4, <1>InductiveWaitPid
  <2>5. CASE ParentExit
    <3>1. /\ procs[Parent].pc = "wait" /\ waited = Len(worker_pids)
          /\ procs' = [procs EXCEPT ![Parent].pc = "exited"]
          /\ UNCHANGED <<scene, events, total_event, total_auxtrace_size, worker_pids, waited>>
      BY Zenon, <2>5 DEF ParentExit
    <3>2. procs[Parent].pc # "count" /\ procs[Parent].pc # "add"
      BY SMT, <3>1
    <3>3. procs[Parent].i = Len(events) + 1
      BY Zenon, <2>0, <3>2, Through
    <3> QED
      BY Zenon, <2>0, <3>1, <3>2, <3>3, <1>InductivePc
  <2>6. ASSUME NEW p \in Proc, SkipEvent(p) \/ KeepEvent(p)
        PROVE  IInv'
    BY Zenon, <2>6, <1>InductivePass
  <2>7. ASSUME NEW p \in Proc, IndexDone(p)
        PROVE  IInv'
    <3> DEFINE pc == IF p = Parent THEN "wait" ELSE "decode"
    <3>1. /\ procs[p].pc = "add" /\ procs[p].i > Len(events) /\ procs' = [procs EXCEPT ![p].pc = pc]
          /\ UNCHANGED <<scene, events, total_event, total_auxtrace_size, worker_pids, waited>>
      BY Zenon, <2>7 DEF IndexDone
    <3>2. procs[p].pc # "count" /\ procs[p].pc # "exited" /\ "wait" # "exited"
      BY SMT, <3>1
    <3>3. procs[p].i = Len(events) + 1
      BY Zenon, <3>1, <3>2, Through
    <3>4. (p = Parent => pc = "wait") /\ (p # Parent => pc = "decode")
      BY Zenon
    <3> HIDE DEF pc
    <3> QED
      BY Zenon, <3>1, <3>2, <3>3, <3>4, <1>InductivePc
  <2>8. ASSUME NEW p \in Child, ChildExit(p)
        PROVE  IInv'
    <3>1. /\ procs[p].pc = "decode" /\ procs' = [procs EXCEPT ![p].pc = "exited"]
          /\ UNCHANGED <<scene, events, total_event, total_auxtrace_size, worker_pids, waited>>
      BY Zenon, <2>8 DEF ChildExit
    <3>2. procs[p].pc # "count" /\ procs[p].pc # "add"
      BY SMT, <3>1
    <3>3. procs[p].i = Len(events) + 1
      BY Zenon, <2>0, <3>2, Through
    <3> QED
      BY Zenon, <2>0, <3>1, <3>2, <3>3, <1>InductivePc
  <2>9. ASSUME NEW p \in Child, NEW q \in Queue, GetTrace(p, q) \/ Lookahead(p, q)
        PROVE  IInv'
    BY Zenon, <2>9, <1>InductiveDecode
  <2>10. CASE UNCHANGED vars
    <3>1. /\ scene' = scene /\ events' = events /\ total_event' = total_event
          /\ total_auxtrace_size' = total_auxtrace_size /\ procs' = procs
          /\ worker_pids' = worker_pids /\ waited' = waited
      BY Zenon, <2>10 DEF vars
    <3>2. Base'
      BY Zenon, <2>0, <3>1 DEF Base, Inputs, parallel_worker, Proc, Child
    <3>3. CASE procs[Parent].pc = "count"
      <4>1. PICK S, T : Counting(S, T)
        BY Zenon, <3>3 DEF IInv
      <4>2. \A e : Filtered(e)' = Filtered(e)
        BY Zenon, <3>1 DEF Filtered, FilteredQueue
      <4>3. Counting(S, T)'
        BY Zenon, <3>1, <4>1, <4>2 DEF Counting, Sums, Parent
      <4> QED
        BY Zenon, <3>1, <3>2, <3>3, <4>3 DEF IInv, Parent
    <3>4. CASE procs[Parent].pc # "count"
      <4>1. PICK S, T, F : Splitting(S, T, F)
        BY Zenon, <3>4 DEF IInv
      <4>2. \A o \in Proc : Same(o) /\ (procs'[o].pc # "add" => procs[o].i = Len(events) + 1)
        BY Zenon, <3>1, <4>1 DEF Same, Splitting, Counters
      <4>3. Splitting(S, T, F)'
        BY Zenon, <2>0, <3>1, <4>1, <4>2, <1>QuietStep DEF Fixed
      <4> QED
        BY Zenon, <3>1, <3>2, <3>4, <4>3 DEF IInv, Parent
    <3> QED
      BY Zenon, <3>3, <3>4
  <2> QED
    BY Zenon, <2>1, <2>2, <2>3, <2>4, <2>5, <2>6, <2>7, <2>8, <2>9, <2>10 DEF Next
<1>1. Init => IInv
  BY Zenon, <1>Initially
<1>2. IInv /\ [Next]_vars => IInv'
  BY Zenon, <1>Inductive
<1> QED
  BY <1>1, <1>2, PTL DEF Spec

-----------------------------------------------------------------------------
(* add_event() never stores a pid behind the end of worker_pids: the       *)
(* parent forks at most parallel_worker children, however the sizes of the *)
(* buffers are distributed.                                                *)
THEOREM PidsInBounds == Spec => []WorkerPidsInBounds
<1>1. IInv => WorkerPidsInBounds
  BY Zenon DEF IInv, Base, WorkerPidsInBounds
<1> QED
  BY <1>1, Invariant, PTL

(* The invariant makes the batches a partition of the events. *)
LEMMA Partitioned == IInv => BatchesPartition
(* No event is decoded in the batches of two children. *)
<1>BatchesDisjoint. ASSUME NEW S, NEW T, NEW F, Base, Splitting(S, T, F), NEW c \in Child, NEW d \in Child, c < d
                    PROVE  procs[c].batch \cap procs[d].batch = {}
  <2>. USE <1>BatchesDisjoint
  <2> SUFFICES ASSUME NEW e, e \in procs[c].batch, e \in procs[d].batch
               PROVE  FALSE
    BY Zenon
  <2>1. /\ e \in 1..(procs[c].i - 1) /\ Takes(S, T, F, c, e) /\ Takes(S, T, F, d, e)
    BY Zenon DEF Splitting, Batches
  <2>2. /\ F[c] \in 1..Len(events) /\ F[d] \in 1..Len(events) /\ F[c] < F[d]
        /\ Threshold(d - 2) <= Reached(S, T, F[d] - 1)
    BY Zenon DEF Splitting, Firsts
  <2>3. /\ Len(events) \in Nat /\ c \in Proc /\ c \in Nat /\ d \in Nat /\ c >= 2 /\ d >= 2
    BY Zenon, Shape
  <2>4. procs[c].i \in 1..(Len(events) + 1)
    BY Zenon, <2>3 DEF Splitting, Counters
  <2>5. /\ e \in Nat /\ e - 1 \in 0..Len(events) /\ F[d] - 1 \in 0..Len(events)
        /\ c - 1 \in Nat /\ d - 2 \in Nat /\ c - 1 <= d - 2
    BY SMTT(20), <2>1, <2>2, <2>3, <2>4
  <2>6. e = F[d] \/ F[d] < e
    BY Zenon, <2>1 DEF Takes
  <2>7. F[d] - 1 <= e - 1 /\ e # F[c]
    BY SMT, <2>2, <2>3, <2>5, <2>6
  <2>8. Reached(S, T, e - 1) < Threshold(c - 1)
    BY Zenon, <2>1, <2>7 DEF Takes
  <2>9. /\ Threshold(c - 1) <= Threshold(d - 2)
        /\ Reached(S, T, F[d] - 1) <= Reached(S, T, e - 1)
        /\ Threshold(c - 1) \in Nat /\ Threshold(d - 2) \in Nat
        /\ Reached(S, T, F[d] - 1) \in Nat /\ Reached(S, T, e - 1) \in Nat
    BY Zenon, <2>5, <2>7, Thresholds DEF Splitting, Base
  <2> QED
    BY SMT, <2>2, <2>8, <2>9
<1>. SUFFICES ASSUME IInv
             PROVE  BatchesPartition
  OBVIOUS
<1>1. CASE procs[Parent].pc = "count"
  <2>1. Child = {}
    <3>1. Len(procs) = 1
      BY Zenon, <1>1 DEF IInv, Counting
    <3> QED
      BY SMT, <3>1 DEF Child
  <2>2. procs[Parent].pc # "exited"
    BY SMT, <1>1
  <2> QED
    BY Zenon, <2>1, <2>2 DEF BatchesPartition
<1>2. CASE procs[Parent].pc # "count"
  <2>1. PICK S, T, F : Splitting(S, T, F)
    BY Zenon, <1>2 DEF IInv
  <2>2. Base /\ Parent \in Proc /\ Child \subseteq Proc /\ \A c \in Child : c \in Nat
    BY Zenon, Shape DEF IInv
  <2>3. ASSUME NEW c \in Child, NEW d \in Child, c # d
        PROVE  procs[c].batch \cap procs[d].batch = {}
    <3>1. c < d \/ d < c
      BY SMT, <2>2, <2>3
    <3>2. procs[c].batch \cap procs[d].batch = procs[d].batch \cap procs[c].batch
      BY Zenon
    <3> QED
      BY Zenon, <2>1, <2>2, <3>1, <3>2, <1>BatchesDisjoint
  <2>4. ASSUME procs[Parent].pc = "exited"
        PROVE  UNION {procs[c].batch : c \in Child} = {e \in 1..Len(events) : ~Filtered(e)}
    <3>1. \A c \in Child : procs[c].pc = "exited"
      <4>1. waited = Len(worker_pids) /\ Len(worker_pids) = Len(procs) - 1 /\ Len(procs) \in Nat
        BY Zenon, <2>2, <2>4, Shape DEF Base
      <4>2. Child = 2..(waited + 1)
        BY SMT, <4>1 DEF Child
      <4> QED
        BY Zenon, <2>2, <4>2 DEF Base
    <3>2. "exited" # "add"
      BY SMT
    <3>3. procs[Parent].i = Len(events) + 1 /\ \A c \in Child : procs[c].i = Len(events) + 1
      BY Zenon, <2>1, <2>2, <2>4, <3>1, <3>2 DEF Splitting, Counters
    <3>4. procs[Parent].i - 1 = Len(events) /\ \A c \in Child : procs[c].i - 1 = Len(events)
      <4>1. Len(events) \in Nat
        BY Zenon, <2>2, Shape
      <4> QED
        BY SMT, <3>3, <4>1
    <3>5. \A c \in Child : procs[c].batch = {e \in 1..Len(events) : Takes(S, T, F, c, e)}
      BY Zenon, <2>1, <3>4 DEF Splitting, Batches
    <3>6. \A e \in 1..Len(events) : ~Filtered(e) => \E c \in Child : Takes(S, T, F, c, e)
      BY Zenon, <2>1, <3>4 DEF Splitting, Covered
    <3>7. \A c \in Child, e \in 1..Len(events) : Takes(S, T, F, c, e) => ~Filtered(e)
      BY Zenon DEF Takes
    <3>8. ASSUME NEW c \in Child, NEW e \in procs[c].batch
          PROVE  e \in 1..Len(events) /\ ~Filtered(e)
      BY Zenon, <3>5, <3>7
    <3>9. ASSUME NEW e \in 1..Len(events), ~Filtered(e)
          PROVE  \E c \in Child : e \in procs[c].batch
      BY Zenon, <3>5, <3>6, <3>9
    <3> QED
      BY Zenon, <3>8, <3>9
  <2> QED
    BY Zenon, <2>3, <2>4 DEF BatchesPartition
<1> QED
  BY Zenon, <1>1, <1>2

(* The batches of the children are disjoint at all times and, when the     *)
(* parent exits, contain every event of the index that is not filtered.    *)
THEOREM Partition == Spec => []BatchesPartition
<1>1. IInv => BatchesPartition
  BY Zenon, Partitioned
<1> QED
  BY <1>1, Invariant, PTL

-----------------------------------------------------------------------------
(* Sequences of atoms in the order of the trace *)
Pair == Nat \X Nat
Lex(x, y) == x[1] < y[1] \/ (x[1] = y[1] /\ x[2] < y[2])
Members(t) == {t[m] : m \in 1..Len(t)}
InOrder(t) == \A m, l \in 1..Len(t) : m < l => Lex(t[m], t[l])

(* Atoms are totally ordered. *)
LEMMA LexOrder ==
  ASSUME NEW x \in Pair, NEW y \in Pair
  PROVE  /\ ~(Lex(x, y) /\ Lex(y, x)) /\ ~Lex(x, x)
         /\ x = y \/ Lex(x, y) \/ Lex(y, x)
<1>1. x = <<x[1], x[2]>> /\ y = <<y[1], y[2]>> /\ x[1] \in Nat /\ x[2] \in Nat /\ y[1] \in Nat /\ y[2] \in Nat
  BY SMT DEF Pair
<1>2. x[1] = y[1] /\ x[2] = y[2] => x = y
  BY Zenon, <1>1
<1> QED
  BY SMT, <1>1, <1>2 DEF Lex

(* Two atoms of a sequence stand in it as they follow each other. *)
LEMMA Positions ==
  ASSUME NEW t \in Seq(Pair), InOrder(t), NEW m \in 1..Len(t), NEW l \in 1..Len(t)
  PROVE  /\ Lex(t[m], t[l]) => m < l
         /\ t[m] = t[l] => m = l
         /\ t[m] \in Pair
<1>1. t[m] \in Pair /\ t[l] \in Pair /\ m \in Nat /\ l \in Nat
  BY SMT
<1>2. m < l \/ l < m \/ m = l
  BY SMT, <1>1
<1>3. l < m => Lex(t[l], t[m])
  BY Zenon DEF InOrder
<1>4. m < l => Lex(t[m], t[l])
  BY Zenon DEF InOrder
<1> QED
  BY Zenon, <1>1, <1>2, <1>3, <1>4, LexOrder

(* A buffer behind those of a sequence of atoms *)
LEMMA Longer ==
  \A t \in Seq(Pair), e \in Nat, len \in Nat :
    (   InOrder(t) /\ (\A x \in Members(t) : x[1] < e)
    ) => (
      LET u == t \o Atoms(e, len)
      IN  /\ u \in Seq(Pair) /\ InOrder(u)
          /\ Members(u) = Members(t) \cup {<<e, j>> : j \in 1..len})
(* The length of two sequences joined *)
<1>Joined. ASSUME NEW S, NEW s \in Seq(S), NEW t \in Seq(S)
           PROVE  Len(s \o t) = Len(s) + Len(t) /\ Len(s) \in Nat
  BY <1>Joined, SMT
<1>. SUFFICES ASSUME NEW t \in Seq(Pair), InOrder(t), NEW e \in Nat, NEW len \in Nat, \A x \in Members(t) : x[1] < e
             PROVE  LET u == t \o Atoms(e, len)
                    IN  /\ u \in Seq(Pair) /\ InOrder(u)
                        /\ Members(u) = Members(t) \cup {<<e, j>> : j \in 1..len}
  OBVIOUS
<1> DEFINE a == Atoms(e, len)
           u == t \o a
<1>1. a \in Seq(Pair) /\ Len(a) = len /\ \A j \in 1..len : a[j] = <<e, j>>
  <2>1. a \in [1..len -> Pair] /\ \A j \in 1..len : a[j] = <<e, j>>
    BY SMT DEF Atoms, Pair
  <2> HIDE DEF a
  <2> QED
    BY SMT, <2>1
<1> HIDE DEF a
<1>2. /\ u \in Seq(Pair) /\ Len(u) = Len(t) + len /\ Len(t) \in Nat
      /\ \A m \in 1..Len(t) : u[m] = t[m]
      /\ \A m \in (Len(t) + 1)..(Len(t) + len) : u[m] = a[m - Len(t)]
  <2>1. u \in Seq(Pair)
    BY SMT, <1>1
  <2>4. Len(u) = Len(t) + len /\ Len(t) \in Nat
    BY Zenon, <1>1, <1>Joined
  <2>2. \A m \in 1..Len(t) : u[m] = t[m]
    BY SMT, <1>1
  <2>3. \A m \in (Len(t) + 1)..(Len(t) + len) : u[m] = a[m - Len(t)]
    BY SMT, <1>1
  <2> QED
    BY Zenon, <2>1, <2>2, <2>3, <2>4
<1>3. \A m \in (Len(t) + 1)..(Len(t) + len) : m - Len(t) \in 1..len /\ u[m] = <<e, m - Len(t)>>
  <2>1. \A m \in (Len(t) + 1)..(Len(t) + len) : m - Len(t) \in 1..len
    BY SMT, <1>2
  <2> QED
    BY Zenon, <1>1, <1>2, <2>1
<1> HIDE DEF u
<1>4. \A m \in 1..Len(u) : m \in 1..Len(t) \/ m \in (Len(t) + 1)..(Len(t) + len)
  BY SMT, <1>2
<1>5. InOrder(u)
  <2> SUFFICES ASSUME NEW m \in 1..Len(u), NEW l \in 1..Len(u), m < l
               PROVE  Lex(u[m], u[l])
    BY Zenon DEF InOrder
  <2>1. CASE m \in 1..Len(t) /\ l \in 1..Len(t)
    BY Zenon, <2>1, <1>2 DEF InOrder
  <2>2. CASE m \in 1..Len(t) /\ l \in (Len(t) + 1)..(Len(t) + len)
    <3>1. u[m] \in Members(t)
      BY Zenon, <2>2, <1>2 DEF Members
    <3>2. u[m][1] < e /\ u[l][1] = e
      BY SMT, <2>2, <1>3, <3>1
    <3> QED
      BY Zenon, <3>2 DEF Lex
  <2>3. CASE m \in (Len(t) + 1)..(Len(t) + len) /\ l \in (Len(t) + 1)..(Len(t) + len)
    <3>1. u[m] = <<e, m - Len(t)>> /\ u[l] = <<e, l - Len(t)>>
      BY Zenon, <2>3, <1>3
    <3>2. m - Len(t) < l - Len(t)
      BY SMT, <2>3, <1>2
    <3> QED
      BY SMT, <3>1, <3>2 DEF Lex
  <2>4. ~(m \in (Len(t) + 1)..(Len(t) + len) /\ l \in 1..Len(t))
    BY SMT, <1>2
  <2> QED
    BY Zenon, <2>1, <2>2, <2>3, <2>4, <1>4
<1>6. ASSUME NEW x \in Members(u)
      PROVE  x \in Members(t) \cup {<<e, j>> : j \in 1..len}
  <2>1. PICK m \in 1..Len(u) : x = u[m]
    BY Zenon DEF Members
  <2> QED
    BY Zenon, <2>1, <1>2, <1>3, <1>4 DEF Members
<1>7. ASSUME NEW x \in Members(t)
      PROVE  x \in Members(u)
  <2>1. PICK m \in 1..Len(t) : x = t[m]
    BY Zenon DEF Members
  <2>2. m \in 1..Len(u)
    BY SMT, <1>2
  <2> QED
    BY Zenon, <2>1, <2>2, <1>2 DEF Members
<1>8. ASSUME NEW j \in 1..len
      PROVE  <<e, j>> \in Members(u)
  <2>1. PICK m : m = Len(t) + j
    BY Zenon
  <2>2. m \in 1..Len(u) /\ m \in (Len(t) + 1)..(Len(t) + len) /\ m - Len(t) = j
    BY SMT, <1>2, <2>1
  <2>3. u[m] = <<e, j>>
    BY Zenon, <1>3, <2>2
  <2> QED
    BY Zenon, <2>2, <2>3 DEF Members
<1> QED
  BY Zenon, <1>2, <1>5, <1>6, <1>7, <1>8 DEF u, a

-----------------------------------------------------------------------------
(* What a child decodes of a queue.  Q are its buffers, the first a those  *)
(* of its batch.                                                           *)

(* There is no PSB behind the batch up to the b-th buffer. *)
NoPsb(Q, a, b) == \A k \in (a + 1)..b : PsbAt(Q[k]) = {}

(* How much of the k-th buffer is the child's *)
ShareOf(Q, a, k) ==
  IF a = 0 THEN 0
  ELSE IF k <= a THEN Len(events[Q[k]].data)
  ELSE IF NoPsb(Q, a, k - 1) THEN BeforePsb(Q[k]) ELSE 0

(* Atom x is the child's and is in the first b buffers. *)
InShare(Q, a, b, x) == \E k \in 1..b : \E j \in 1..ShareOf(Q, a, k) : x = <<Q[k], j>>

(* Every nonempty set of natural numbers has a least element: proved below *)
(* with the library on induction, assumed by the lemmas until then.         *)
WellOrdered == \A S \in SUBSET Nat : S # {} => \E i \in S : \A j \in S : i <= j

(* The least element of a nonempty set *)
LEMMA LeastNat ==
  ASSUME WellOrdered, NEW S \in SUBSET Nat, S # {}
  PROVE  \E i \in S : \A j \in S : i <= j
  BY Zenon DEF WellOrdered

(* memmem() finds the first PSB of a buffer. *)
LEMMA FirstPsb ==
  ASSUME WellOrdered, NEW e, Len(events[e].data) \in Nat
  PROVE  /\ BeforePsb(e) \in 0..Len(events[e].data)
         /\ PsbAt(e) = {} => BeforePsb(e) = Len(events[e].data)
         /\ \A j \in PsbAt(e) : BeforePsb(e) < j
         /\ \A k \in Nat : k <= Len(events[e].data) /\ (\A j \in PsbAt(e) : k < j) => k <= BeforePsb(e)
<1> DEFINE N == Len(events[e].data)
           f == CHOOSE j \in PsbAt(e) : \A k \in PsbAt(e) : j <= k
<1>1. PsbAt(e) \subseteq 1..N /\ PsbAt(e) \subseteq Nat
  BY SMT DEF PsbAt
<1>2. CASE PsbAt(e) = {}
  BY SMT, <1>2 DEF BeforePsb
<1>3. CASE PsbAt(e) # {}
  <2>1. \E j \in PsbAt(e) : \A k \in PsbAt(e) : j <= k
    BY Zenon, <1>1, <1>3, LeastNat
  <2>2. f \in PsbAt(e) /\ \A k \in PsbAt(e) : f <= k
    BY Zenon, <2>1
  <2>3. BeforePsb(e) = f - 1
    BY Zenon, <1>3 DEF BeforePsb
  <2> HIDE DEF f
  <2>4. f \in 1..N
    BY Zenon, <1>1, <2>2
  <2>5. f - 1 \in 0..N /\ f - 1 \in Nat
    BY SMT, <2>4
  <2>6. \A j \in PsbAt(e) : f - 1 < j
    BY SMT, <1>1, <2>2, <2>4
  <2>7. \A k \in Nat : k < f => k <= f - 1
    BY SMT, <2>4
  <2> QED
    BY Zenon, <1>3, <2>2, <2>3, <2>5, <2>6, <2>7
<1> QED
  BY Zenon, <1>2, <1>3

(* The share of a buffer is a part of it. *)
LEMMA ShareNat ==
  ASSUME WellOrdered, NEW Q, NEW a, NEW k, Len(events[Q[k]].data) \in Nat
  PROVE  ShareOf(Q, a, k) \in Nat /\ ShareOf(Q, a, k) <= Len(events[Q[k]].data)
<1>1. BeforePsb(Q[k]) \in 0..Len(events[Q[k]].data)
  BY Zenon, FirstPsb
<1> QED
  BY SMT, <1>1 DEF ShareOf

(* The k-th buffer adds to what is the child's of those before. *)
Widens(Q, a, k) ==
  \A x : InShare(Q, a, k, x)
           <=> InShare(Q, a, k - 1, x) \/ x \in {<<Q[k], j>> : j \in 1..ShareOf(Q, a, k)}

-----------------------------------------------------------------------------
(* The invariant of what the processes queue and decode *)
EntryFields == {"batch_add", "buffer_add", "last_psb_add", "buffer_lookahead", "last_psb_lookahead", "next"}

(* A child has queued what the index has for the queue, from the first     *)
(* event of its batch on, in the order of the index; the batch comes first *)
QueueOK(r, q) ==
  LET Q == r.queue[q]
  IN  /\ Q \in Seq(1..Len(events))
      /\ \A k \in 1..Len(Q) : /\ Q[k] < r.i /\ events[Q[k]].q = q /\ ~Filtered(Q[k])
                              /\ \E b \in r.batch : b <= Q[k]
                              /\ k <= r.entry[q].batch_add <=> Q[k] \in r.batch
      /\ \A k, l \in 1..Len(Q) : k < l => Q[k] < Q[l]
      /\ \A e \in 1..(r.i - 1) : events[e].q = q /\ ~Filtered(e) /\ (\E b \in r.batch : b <= e)
                                   => \E k \in 1..Len(Q) : Q[k] = e
      /\ r.entry[q].batch_add \in 0..Len(Q)

(* Its counters are those of the buffers that get_trace() has handed on,   *)
(* and lookahead() is not behind them.                                     *)
EntryOK(n, Q) ==
  /\ DOMAIN n = EntryFields
  /\ n.next \in 1..(Len(Q) + 1)
  /\ n.buffer_add = IF n.batch_add = 0 THEN 0 ELSE n.next - 1
  /\ n.last_psb_add \in Nat /\ n.last_psb_lookahead \in Nat /\ n.last_psb_lookahead >= n.last_psb_add
  /\ n.buffer_lookahead \in Nat /\ n.buffer_lookahead >= n.buffer_add
  /\ n.batch_add > 0 => (n.last_psb_add = 0 <=> NoPsb(Q, n.batch_add, n.next - 1))

(* The trace is the child's share of these buffers; what lookahead() has   *)
(* shown to the decoder is of its share.                                   *)
TraceOK(t, Q, n) ==
  /\ t \in Seq(Pair) /\ InOrder(t)
  /\ \A x : x \in Members(t) <=> InShare(Q, n.batch_add, n.next - 1, x)
SeenOK(s, Q, n) == \A x \in s : InShare(Q, n.batch_add, Len(Q), x)

DecodeOK(r, q) ==
  /\ EntryOK(r.entry[q], r.queue[q])
  /\ TraceOK(r.trace[q], r.queue[q], r.entry[q])
  /\ SeenOK(r.seen[q], r.queue[q], r.entry[q])

(* Nothing is decoded in the second loop over the index. *)
Fresh(r, q) ==
  /\ DOMAIN r.entry[q] = EntryFields
  /\ \A f \in EntryFields \ {"batch_add"} : r.entry[q][f] = CacheEntry[f]
  /\ r.trace[q] = <<>> /\ r.seen[q] = {}

(* The parent queues nothing. *)
Untouched(r, q) == r.queue[q] = <<>> /\ r.entry[q] = CacheEntry /\ r.trace[q] = <<>> /\ r.seen[q] = {}

QueueFields == {"queue", "entry", "trace", "seen"}
Shaped(r) == \A f \in QueueFields : DOMAIN r[f] = Queue

ChildOK(r) ==
  \A q \in Queue : /\ QueueOK(r, q)
                   /\ IF r.pc = "add" THEN Fresh(r, q) ELSE DecodeOK(r, q)
                   /\ r.pc = "exited" => r.entry[q].next > Len(r.queue[q])

DInv ==
  /\ \A p \in Proc : Shaped(procs[p])
  /\ \A q \in Queue : Untouched(procs[Parent], q)
  /\ \A c \in Child : ChildOK(procs[c])

-----------------------------------------------------------------------------
(* The second loop *)

(* add_event() as far as the queues are concerned *)
Entered(n, b) == [n EXCEPT !.batch_add = @ + (IF b THEN 1 ELSE 0)]

-----------------------------------------------------------------------------
(* Decoding *)

(* The entry of the queue, when get_trace() has handed on a buffer *)
EntryAfter(n, Q) ==
  LET psb == AtPsb(n, n.buffer_add, n.last_psb_add, Q[n.next])
      add == IF n.batch_add = 0 THEN 0 ELSE 1
  IN  [n EXCEPT !.next = @ + 1, !.last_psb_add = @ + psb, !.last_psb_lookahead = @ + psb,
                !.buffer_add = @ + add,
                !.buffer_lookahead = IF n.buffer_add + add > @ THEN n.buffer_add + add ELSE @]
TraceAfter(t, n, Q) == t \o Atoms(Q[n.next], Share(n, n.buffer_add, n.last_psb_add, Q[n.next]))

-----------------------------------------------------------------------------
(* lookahead() *)
Looks(n, s, Q, stop) ==
  LET look[b \in (n.next - 1)..stop] ==
        IF b < n.next THEN [n |-> n, seen |-> s]
        ELSE LookStep(look[b - 1], Q[b])
  IN  look

Looking(f, n, s, Q, stop) ==
  f = [b \in (n.next - 1)..stop |-> IF b < n.next THEN [n |-> n, seen |-> s] ELSE LookStep(f[b - 1], Q[b])]

(* What lookahead() has done at the b-th buffer *)
LookOK(acc, n, Q, b) ==
  LET a == n.batch_add
      m == acc.n
  IN  /\ DOMAIN m = EntryFields /\ m.batch_add = a /\ m.next = n.next
      /\ m.buffer_add = n.buffer_add /\ m.last_psb_add = n.last_psb_add
      /\ m.last_psb_lookahead \in Nat /\ m.last_psb_lookahead >= n.last_psb_add
      /\ m.buffer_lookahead \in Nat /\ m.buffer_lookahead >= n.buffer_add
      /\ a > 0 => m.buffer_lookahead >= b /\ (m.last_psb_lookahead = 0 => NoPsb(Q, a, b))
      /\ SeenOK(acc.seen, Q, n)

-----------------------------------------------------------------------------
(* The steps of the processes *)

(* v has queued and decoded what r has. *)
SameQueues(v, r) == v.queue = r.queue /\ v.entry = r.entry /\ v.trace = r.trace /\ v.seen = r.seen

(* Every step of every process keeps what the processes have queued and    *)
(* decoded as DInv says.                                                   *)
LEMMA DInductive == WellOrdered /\ IInv /\ DInv /\ [Next]_vars => DInv'
(* Nothing of this depends on more than the index. *)
<1>Unmoved. ASSUME scene' = scene, events' = events
            PROVE  /\ Queue' = Queue /\ Pair' = Pair
                   /\ \A e : Filtered(e)' = Filtered(e) /\ PsbAt(e)' = PsbAt(e) /\ BeforePsb(e)' = BeforePsb(e)
                   /\ \A Q, a, k : ShareOf(Q, a, k)' = ShareOf(Q, a, k) /\ NoPsb(Q, a, k)' = NoPsb(Q, a, k)
                   /\ \A r : ChildOK(r)' <=> ChildOK(r)
                   /\ \A r : Shaped(r)' <=> Shaped(r)
                   /\ \A r, q : Untouched(r, q)' <=> Untouched(r, q)
  <2>. USE <1>Unmoved
  <2>1. /\ Queue' = Queue /\ Pair' = Pair
        /\ \A e : Filtered(e)' = Filtered(e) /\ PsbAt(e)' = PsbAt(e) /\ BeforePsb(e)' = BeforePsb(e)
    <3>1. Queue' = Queue /\ Pair' = Pair /\ \A e : Filtered(e)' = Filtered(e)
      BY Zenon DEF Queue, Pair, Filtered, FilteredQueue
    <3>2. \A e : PsbAt(e)' = PsbAt(e)
      BY Zenon DEF PsbAt
    <3> DEFINE Before(S, n) == IF S = {} THEN n ELSE (CHOOSE j \in S : \A k \in S : j <= k) - 1
    <3>3. \A e : /\ BeforePsb(e) = Before(PsbAt(e), Len(events[e].data))
                 /\ BeforePsb(e)' = Before(PsbAt(e)', Len(events'[e].data))
      BY Zenon DEF BeforePsb
    <3> HIDE DEF Before
    <3>4. \A e : BeforePsb(e)' = BeforePsb(e)
      BY Zenon, <3>2, <3>3
    <3> QED
      BY Zenon, <3>1, <3>2, <3>4
  <2>2. \A Q, a, k : ShareOf(Q, a, k)' = ShareOf(Q, a, k) /\ NoPsb(Q, a, k)' = NoPsb(Q, a, k)
    BY Zenon, <2>1 DEF ShareOf, NoPsb
  <2>3. \A Q, a, k, x : InShare(Q, a, k, x)' <=> InShare(Q, a, k, x)
    BY Zenon, <2>2 DEF InShare
  <2>4. \A r, q : QueueOK(r, q)' <=> QueueOK(r, q)
    <3> SUFFICES ASSUME NEW r, NEW q
                 PROVE  QueueOK(r, q)' <=> QueueOK(r, q)
      BY Zenon
    <3> DEFINE Q == r.queue[q]
               A(k, E, f) == /\ Q[k] < r.i /\ E[Q[k]].q = q /\ ~f
                             /\ \E b \in r.batch : b <= Q[k]
                             /\ k <= r.entry[q].batch_add <=> Q[k] \in r.batch
               B(e, E, f) == E[e].q = q /\ ~f /\ (\E b \in r.batch : b <= e) => \E k \in 1..Len(Q) : Q[k] = e
               C == /\ \A k, l \in 1..Len(Q) : k < l => Q[k] < Q[l]
                    /\ r.entry[q].batch_add \in 0..Len(Q)
    <3>1. QueueOK(r, q) <=> /\ Q \in Seq(1..Len(events)) /\ C
                            /\ \A k \in 1..Len(Q) : A(k, events, Filtered(Q[k]))
                            /\ \A e \in 1..(r.i - 1) : B(e, events, Filtered(e))
      BY Zenon DEF QueueOK
    <3>2. QueueOK(r, q)' <=> /\ Q \in Seq(1..Len(events')) /\ C
                             /\ \A k \in 1..Len(Q) : A(k, events', Filtered(Q[k])')
                             /\ \A e \in 1..(r.i - 1) : B(e, events', Filtered(e)')
      BY Zenon DEF QueueOK
    <3> HIDE DEF A, B, C
    <3> QED
      BY Zenon, <2>1, <3>1, <3>2
  <2>5. \A r, q : Fresh(r, q)' <=> Fresh(r, q)
    BY Zenon DEF Fresh, EntryFields, CacheEntry
  <2>6. \A n, Q : EntryOK(n, Q)' <=> EntryOK(n, Q)
    BY Zenon, <2>2 DEF EntryOK, EntryFields
  <2>7. \A t, Q, n : (TraceOK(t, Q, n)' <=> TraceOK(t, Q, n)) /\ (SeenOK(t, Q, n)' <=> SeenOK(t, Q, n))
    <3>1. \A t : (InOrder(t)' <=> InOrder(t)) /\ Members(t)' = Members(t)
      BY Zenon DEF InOrder, Lex, Members
    <3>2. \A t, Q, n : TraceOK(t, Q, n)' <=> TraceOK(t, Q, n)
      BY Zenon, <2>1, <2>3, <3>1 DEF TraceOK
    <3>3. \A t, Q, n : SeenOK(t, Q, n)' <=> SeenOK(t, Q, n)
      BY Zenon, <2>3 DEF SeenOK
    <3> QED
      BY Zenon, <3>2, <3>3
  <2>8. \A r, q : DecodeOK(r, q)' <=> DecodeOK(r, q)
    BY Zenon, <2>6, <2>7 DEF DecodeOK
  <2>9. \A r : ChildOK(r)' <=> ChildOK(r)
    BY Zenon, <2>1, <2>4, <2>5, <2>8 DEF ChildOK
  <2>10. \A r : Shaped(r)' <=> Shaped(r)
    BY Zenon, <2>1 DEF Shaped, QueueFields
  <2>11. \A r, q : Untouched(r, q)' <=> Untouched(r, q)
    BY Zenon DEF Untouched, CacheEntry
  <2> QED
    BY Zenon, <2>1, <2>2, <2>9, <2>10, <2>11
(* At the end of the second loop a child can begin to decode. *)
<1>Begins. ASSUME NEW r, NEW q, QueueOK(r, q), Fresh(r, q)
           PROVE  DecodeOK(r, q)
  <2>. USE <1>Begins
  <2> DEFINE n == r.entry[q]
             Q == r.queue[q]
  <2>1. /\ DOMAIN n = EntryFields /\ n.buffer_add = 0 /\ n.last_psb_add = 0 /\ n.buffer_lookahead = 0
        /\ n.last_psb_lookahead = 0 /\ n.next = 1
    BY SMT DEF Fresh, EntryFields, CacheEntry
  <2>2. r.trace[q] = <<>> /\ r.seen[q] = {} /\ Len(Q) \in Nat /\ n.batch_add \in Nat
    BY SMT DEF Fresh, QueueOK
  <2> HIDE DEF n, Q
  <2>3. n.next - 1 = 0 /\ n.next \in 1..(Len(Q) + 1) /\ 0 \in Nat /\ 0 >= 0
    BY SMT, <2>1, <2>2
  <2>4. NoPsb(Q, n.batch_add, 0)
    <3>1. \A k \in (n.batch_add + 1)..0 : FALSE
      BY SMT, <2>2
    <3> QED
      BY Zenon, <3>1 DEF NoPsb
  <2>5. EntryOK(n, Q)
    BY Zenon, <2>1, <2>3, <2>4 DEF EntryOK
  <2>6. TraceOK(<<>>, Q, n)
    <3>1. <<>> \in Seq(Pair) /\ Members(<<>>) = {} /\ InOrder(<<>>) /\ 1..0 = {}
      BY SMT DEF Members, InOrder
    <3> QED
      BY Zenon, <2>3, <3>1 DEF TraceOK, InShare
  <2>7. SeenOK({}, Q, n)
    BY Zenon DEF SeenOK
  <2> QED
    BY Zenon, <2>2, <2>5, <2>6, <2>7 DEF DecodeOK, n, Q
(* What AddEvent makes of the queues of a process *)
<1>Queued. ASSUME NEW r, NEW child \in BOOLEAN, NEW b \in BOOLEAN,
                  DOMAIN r = Fields, r.total_event_added # total_event, Shaped(r)
           PROVE  LET a == AddEvent(r, child, b)
                      q == events[r.i].q
                  IN  /\ Shaped(a) /\ a.trace = r.trace /\ a.seen = r.seen
                      /\ ~child => a.queue = r.queue /\ a.entry = r.entry
                      /\ \A o \in Queue : o # q => a.queue[o] = r.queue[o] /\ a.entry[o] = r.entry[o]
                      /\ child /\ q \in Queue =>
                           /\ a.queue[q] = Append(r.queue[q], r.i)
                           /\ a.entry[q] = Entered(r.entry[q], b)
  <2>. USE <1>Queued
  <2> DEFINE q == events[r.i].q
             s == [r EXCEPT !.i = @ + 1]
             t == [s EXCEPT !.total_event_added = @ + 1,
                            !.auxtrace_size_added = @ + Len(events[r.i].data)]
             u == [t EXCEPT !.queue[q] = Append(@, r.i),
                            !.entry[q].batch_add = @ + (IF b THEN 1 ELSE 0),
                            !.batch = @ \cup (IF b THEN {r.i} ELSE {})]
  <2>1. AddEvent(r, child, b) = IF child THEN u ELSE t
    BY ZenonT(30) DEF AddEvent
  <2>2. /\ DOMAIN t = Fields /\ t.queue = r.queue /\ t.entry = r.entry /\ t.trace = r.trace /\ t.seen = r.seen
    BY SMT DEF Fields
  <2> HIDE DEF t
  <2>3. /\ u.trace = t.trace /\ u.seen = t.seen
        /\ u.queue = [t.queue EXCEPT ![q] = Append(t.queue[q], r.i)]
        /\ u.entry = [t.entry EXCEPT ![q].batch_add = @ + (IF b THEN 1 ELSE 0)]
    BY SMT, <2>2 DEF Fields
  <2> HIDE DEF u
  <2>4. DOMAIN r.queue = Queue /\ DOMAIN r.entry = Queue /\ DOMAIN r.trace = Queue /\ DOMAIN r.seen = Queue
    BY Zenon DEF Shaped, QueueFields
  <2>5. Shaped(t) /\ Shaped(u)
    BY Zenon, <2>2, <2>3, <2>4 DEF Shaped, QueueFields
  <2>6. \A o \in Queue : o # q => u.queue[o] = r.queue[o] /\ u.entry[o] = r.entry[o]
    BY Zenon, <2>2, <2>3, <2>4
  <2>7. q \in Queue => /\ u.queue[q] = Append(r.queue[q], r.i)
                       /\ u.entry[q] = Entered(r.entry[q], b)
    BY Zenon, <2>2, <2>3, <2>4 DEF Entered
  <2> HIDE DEF q
  <2>8. CASE child
    BY Zenon, <2>8, <2>1, <2>2, <2>3, <2>5, <2>6, <2>7 DEF q
  <2>9. CASE ~child
    BY Zenon, <2>9, <2>1, <2>2, <2>5 DEF q
  <2> QED
    BY Zenon, <2>8, <2>9
(* A child's batch is all it has queued, as long as it grows; its first    *)
(* event is the one at which it was forked.                                *)
<1>Growing. ASSUME NEW S, NEW T, NEW F, Base, Splitting(S, T, F), NEW c \in Child, Adding(c)
            PROVE  LET r == procs[c]
                   IN  /\ \A b \in r.batch : b \in 1..(r.i - 1)
                       /\ \E b \in r.batch : b <= r.i
                       /\ InBatch(r) => \A e \in 1..(r.i - 1) :
                            ~Filtered(e) /\ (\E b \in r.batch : b <= e) => e \in r.batch
  <2>. USE <1>Growing
  <2> DEFINE r == procs[c]
             i == r.i
  <2>1. /\ i \in 1..Len(events) /\ i - 1 \in 0..Len(events) /\ c \in Nat /\ c >= 2 /\ c \in Proc /\ Len(events) \in Nat
        /\ r.parallel_file_count = c - 1
    BY Zenon, Reaching, Shape DEF Splitting, Files
  <2>2. r.batch = {e \in 1..(i - 1) : Takes(S, T, F, c, e)}
    BY Zenon DEF Splitting, Batches
  <2>3. F[c] \in 1..Len(events) /\ ~Filtered(F[c]) /\ F[c] < i
    BY Zenon DEF Splitting, Firsts
  <2>4. c - 1 \in Nat /\ F[c] \in 1..(i - 1) /\ F[c] <= i
    BY SMT, <2>1, <2>3
  <2>5. F[c] \in r.batch
    BY Zenon, <2>2, <2>3, <2>4 DEF Takes
  <2>6. ASSUME InBatch(r), NEW e \in 1..(i - 1), ~Filtered(e), NEW b \in r.batch, b <= e
        PROVE  e \in r.batch
    <3>1. Reached(S, T, i - 1) < Threshold(c - 1)
      BY Zenon, <2>1, <2>4, <2>6, Reaching
    <3>2. b = F[c] \/ F[c] < b
      BY Zenon, <2>2, <2>6 DEF Takes
    <3>3. b \in 1..(i - 1)
      BY Zenon, <2>2, <2>6
    <3>4. F[c] = e \/ F[c] < e
      BY SMT, <2>1, <2>4, <2>6, <3>2, <3>3
    <3>5. e - 1 \in 0..Len(events) /\ e - 1 <= i - 1
      BY SMT, <2>1, <2>6
    <3>6. /\ Reached(S, T, e - 1) <= Reached(S, T, i - 1)
          /\ Reached(S, T, e - 1) \in Nat /\ Reached(S, T, i - 1) \in Nat /\ Threshold(c - 1) \in Nat
      BY Zenon, <2>1, <2>4, <3>5, Thresholds DEF Splitting, Base
    <3>7. Reached(S, T, e - 1) < Threshold(c - 1)
      BY SMT, <3>1, <3>6
    <3>8. Takes(S, T, F, c, e)
      BY Zenon, <2>6, <3>4, <3>7 DEF Takes
    <3> QED
      BY Zenon, <2>2, <2>6, <3>8
  <2>7. \A b \in r.batch : b \in 1..(r.i - 1)
    BY Zenon, <2>2
  <2> QED
    BY Zenon, <2>4, <2>5, <2>6, <2>7
(* A process that has queued nothing yet *)
<1>QueuedNothing. ASSUME NEW r, NEW q, Untouched(r, q), r.batch = {}
                  PROVE  QueueOK(r, q) /\ Fresh(r, q)
  <2>. USE <1>QueuedNothing
  <2>1. <<>> \in Seq(1..Len(events)) /\ Len(<<>>) = 0 /\ 1..0 = {} /\ 0 \in 0..0
    BY SMT
  <2>2. CacheEntry.batch_add = 0 /\ DOMAIN CacheEntry = EntryFields
    BY SMT DEF CacheEntry, EntryFields
  <2>3. QueueOK(r, q)
    BY Zenon, <2>1, <2>2 DEF QueueOK, Untouched
  <2> QED
    BY Zenon, <2>2, <2>3 DEF Fresh, Untouched
(* The queues when add_event() has added an event *)
<1>KeepQueue. ASSUME NEW r, NEW q, QueueOK(r, q), NEW i \in 1..Len(events), r.i = i, Len(events) \in Nat,
                     ~Filtered(i), NEW b \in BOOLEAN,
                     \A x \in r.batch : x \in 1..(i - 1),
                     b \/ \E x \in r.batch : x <= i,
                     b => \A e \in 1..(i - 1) : ~Filtered(e) /\ (\E x \in r.batch : x <= e) => e \in r.batch,
                     NEW v, v.i = i + 1, v.batch = IF b THEN r.batch \cup {i} ELSE r.batch,
                     events[i].q = q => /\ v.queue[q] = Append(r.queue[q], i)
                                        /\ v.entry[q].batch_add = r.entry[q].batch_add + (IF b THEN 1 ELSE 0),
                     events[i].q # q => v.queue[q] = r.queue[q] /\ v.entry[q].batch_add = r.entry[q].batch_add
              PROVE  QueueOK(v, q)
  <2>. USE <1>KeepQueue
  <2> DEFINE Q == r.queue[q]
             W == v.queue[q]
             a == r.entry[q].batch_add
             w == v.entry[q].batch_add
  <2>1. /\ Q \in Seq(1..Len(events)) /\ Len(Q) \in Nat /\ a \in 0..Len(Q)
        /\ \A k \in 1..Len(Q) : /\ Q[k] < i /\ events[Q[k]].q = q /\ ~Filtered(Q[k])
                                /\ \E x \in r.batch : x <= Q[k]
                                /\ k <= a <=> Q[k] \in r.batch
        /\ \A k, l \in 1..Len(Q) : k < l => Q[k] < Q[l]
        /\ \A e \in 1..(i - 1) : events[e].q = q /\ ~Filtered(e) /\ (\E x \in r.batch : x <= e)
                                   => \E k \in 1..Len(Q) : Q[k] = e
    <3>1. /\ Q \in Seq(1..Len(events)) /\ a \in 0..Len(Q)
          /\ \A k \in 1..Len(Q) : /\ Q[k] < i /\ events[Q[k]].q = q /\ ~Filtered(Q[k])
                                  /\ \E x \in r.batch : x <= Q[k]
                                  /\ k <= a <=> Q[k] \in r.batch
          /\ \A k, l \in 1..Len(Q) : k < l => Q[k] < Q[l]
          /\ \A e \in 1..(i - 1) : events[e].q = q /\ ~Filtered(e) /\ (\E x \in r.batch : x <= e)
                                     => \E k \in 1..Len(Q) : Q[k] = e
      BY Zenon DEF QueueOK
    <3>2. Len(Q) \in Nat
      BY SMT, <3>1
    <3> QED
      BY Zenon, <3>1, <3>2
  <2>2. \A k \in 1..Len(Q) : Q[k] \in 1..Len(events) /\ Q[k] # i /\ Q[k] < i + 1
    <3> SUFFICES ASSUME NEW k \in 1..Len(Q)
                 PROVE  Q[k] \in 1..Len(events) /\ Q[k] # i /\ Q[k] < i + 1
      BY Zenon
    <3>1. Q[k] \in 1..Len(events) /\ Q[k] < i
      BY Zenon, <2>1, Element
    <3> QED
      BY SMT, <3>1
  <2>3. r.batch \subseteq v.batch /\ v.batch \subseteq r.batch \cup {i} /\ (b <=> i \in v.batch)
    <3>1. i \notin r.batch
      BY SMT
    <3> QED
      BY Zenon, <3>1
  <2>4. \A k \in 1..Len(Q) : /\ \E x \in v.batch : x <= Q[k]
                             /\ k <= a <=> Q[k] \in v.batch
    BY Zenon, <2>1, <2>2, <2>3
  <2>5. ASSUME NEW e \in 1..(i - 1), events[e].q = q, ~Filtered(e), NEW x \in v.batch, x <= e
        PROVE  \E k \in 1..Len(Q) : Q[k] = e
    <3>1. x # i
      BY SMT, <2>5
    <3>2. x \in r.batch
      BY Zenon, <2>3, <2>5, <3>1
    <3> QED
      BY Zenon, <2>1, <2>5, <3>2
  <2>6. v.i - 1 = i /\ 1..i = (1..(i - 1)) \cup {i}
    BY SMT
  <2>7. CASE events[i].q # q
    <3>1. W = Q /\ w = a
      BY Zenon, <2>7
    <3>2. \A e \in 1..(v.i - 1) : events[e].q = q => e \in 1..(i - 1)
      BY Zenon, <2>6, <2>7
    <3>3. \A e \in 1..(v.i - 1) : events[e].q = q /\ ~Filtered(e) /\ (\E x \in v.batch : x <= e)
                                    => \E k \in 1..Len(W) : W[k] = e
      BY Zenon, <2>5, <3>1, <3>2
    <3>4. \A k \in 1..Len(W) : /\ W[k] < v.i /\ events[W[k]].q = q /\ ~Filtered(W[k])
                               /\ \E x \in v.batch : x <= W[k]
                               /\ k <= w <=> W[k] \in v.batch
      BY Zenon, <2>1, <2>2, <2>4, <3>1
    <3>5. /\ W \in Seq(1..Len(events)) /\ w \in 0..Len(W)
          /\ \A k, l \in 1..Len(W) : k < l => W[k] < W[l]
      BY Zenon, <2>1, <3>1
    <3> QED
      BY Zenon, <3>3, <3>4, <3>5 DEF QueueOK
  <2>8. CASE events[i].q = q
    <3>1. W = Append(Q, i) /\ w = a + (IF b THEN 1 ELSE 0)
      BY Zenon, <2>8
    <3> HIDE DEF W, w, Q, a
    <3>2. /\ W \in Seq(1..Len(events)) /\ Len(W) = Len(Q) + 1 /\ W[Len(Q) + 1] = i
          /\ \A k \in 1..Len(Q) : W[k] = Q[k]
      BY SMT, <2>1, <3>1
    <3>3. 1..Len(W) = (1..Len(Q)) \cup {Len(Q) + 1}
      BY SMT, <2>1, <3>2
    <3>4. b => a = Len(Q)
      <4> SUFFICES ASSUME b, 1 <= Len(Q)
                   PROVE  Len(Q) <= a
        BY SMT, <2>1
      <4>1. Len(Q) \in 1..Len(Q) /\ Q[Len(Q)] \in 1..(i - 1)
        BY SMT, <2>1, <2>2
      <4>2. Q[Len(Q)] \in r.batch
        BY Zenon, <2>1, <4>1
      <4> QED
        BY Zenon, <2>1, <4>1, <4>2
    <3>5. w \in 0..Len(W) /\ (b => w = Len(Q) + 1) /\ (~b => w = a)
      BY SMT, <2>1, <3>1, <3>2, <3>4
    <3>6. \A k \in 1..Len(W) : /\ W[k] < v.i /\ events[W[k]].q = q /\ ~Filtered(W[k])
                               /\ \E x \in v.batch : x <= W[k]
                               /\ k <= w <=> W[k] \in v.batch
      <4> SUFFICES ASSUME NEW k \in 1..Len(W)
                   PROVE  /\ W[k] < v.i /\ events[W[k]].q = q /\ ~Filtered(W[k])
                          /\ \E x \in v.batch : x <= W[k]
                          /\ k <= w <=> W[k] \in v.batch
        BY Zenon
      <4>1. CASE k \in 1..Len(Q)
        <5>1. k <= w <=> k <= a
          BY SMT, <2>1, <3>4, <3>5, <4>1
        <5> QED
          BY Zenon, <2>1, <2>2, <2>4, <3>2, <4>1, <5>1
      <4>2. CASE k = Len(Q) + 1
        <5>1. W[k] = i /\ i < i + 1
          BY SMT, <3>2, <4>2
        <5>2. \E x \in v.batch : x <= i
          <6>1. i <= i
            BY SMT
          <6> QED
            BY Zenon, <2>3, <6>1
        <5>3. k <= w <=> b
          BY SMT, <2>1, <3>5, <4>2
        <5> QED
          BY Zenon, <2>3, <2>8, <5>1, <5>2, <5>3
      <4> QED
        BY Zenon, <3>3, <4>1, <4>2
    <3>7. \A k, l \in 1..Len(W) : k < l => W[k] < W[l]
      <4> SUFFICES ASSUME NEW k \in 1..Len(W), NEW l \in 1..Len(W), k < l
                   PROVE  W[k] < W[l]
        BY Zenon
      <4>1. k \in 1..Len(Q)
        BY SMT, <2>1, <3>2
      <4>2. CASE l \in 1..Len(Q)
        BY Zenon, <2>1, <3>2, <4>1, <4>2
      <4>3. CASE l = Len(Q) + 1
        BY Zenon, <2>1, <3>2, <4>1, <4>3
      <4> QED
        BY Zenon, <3>3, <4>2, <4>3
    <3>8. \A e \in 1..(v.i - 1) : events[e].q = q /\ ~Filtered(e) /\ (\E x \in v.batch : x <= e)
                                    => \E k \in 1..Len(W) : W[k] = e
      <4> SUFFICES ASSUME NEW e \in 1..(v.i - 1), events[e].q = q, ~Filtered(e), NEW x \in v.batch, x <= e
                   PROVE  \E k \in 1..Len(W) : W[k] = e
        BY Zenon
      <4>1. CASE e = i
        BY Zenon, <3>2, <3>3, <4>1
      <4>2. CASE e \in 1..(i - 1)
        BY Zenon, <2>5, <3>2, <3>3, <4>2
      <4> QED
        BY Zenon, <2>6, <4>1, <4>2
    <3> QED
      BY Zenon, <3>2, <3>5, <3>6, <3>7, <3>8 DEF QueueOK, W, w
  <2> QED
    BY Zenon, <2>7, <2>8
(* ... and when a filtered one was skipped, or nothing was added *)
<1>SkipQueue. ASSUME NEW r, NEW q, QueueOK(r, q), NEW i \in 1..(Len(events) + 1), r.i = i, Len(events) \in Nat,
                     NEW v, v.i = i \/ (v.i = i + 1 /\ Filtered(i)), v.batch = r.batch,
                     v.queue[q] = r.queue[q] /\ v.entry[q].batch_add = r.entry[q].batch_add
              PROVE  QueueOK(v, q)
  <2>. USE <1>SkipQueue
  <2>1. \A k \in 1..Len(v.queue[q]) : v.queue[q][k] < v.i
    <3>1. r.queue[q] \in Seq(1..Len(events)) /\ \A k \in 1..Len(r.queue[q]) : r.queue[q][k] < i
      BY Zenon DEF QueueOK
    <3>2. \A k \in 1..Len(r.queue[q]) : r.queue[q][k] \in 1..Len(events)
      BY Zenon, <3>1, Element
    <3> QED
      BY SMT, <3>1, <3>2
  <2>2. \A e \in 1..(v.i - 1) : ~Filtered(e) => e \in 1..(i - 1)
    <3>1. CASE v.i = i
      BY Zenon, <3>1
    <3>2. CASE v.i = i + 1 /\ Filtered(i)
      <4>1. v.i - 1 = i /\ 1..i = (1..(i - 1)) \cup {i}
        BY SMT, <3>2
      <4> QED
        BY Zenon, <3>2, <4>1
    <3> QED
      BY Zenon, <3>1, <3>2
  <2> QED
    BY Zenon, <2>1, <2>2 DEF QueueOK
(* One more buffer *)
<1>ShareGrows. ASSUME NEW Q, NEW a, NEW k \in Nat, k >= 1
               PROVE  Widens(Q, a, k)
  <2>. USE <1>ShareGrows
  <2>1. 1..k = (1..(k - 1)) \cup {k}
    BY SMT
  <2> QED
    BY Zenon, <2>1 DEF InShare, Widens
(* get_trace() hands on what is the child's of the next buffer. *)
<1>ShareMatches. ASSUME NEW n, NEW Q \in Seq(1..Len(events)), Len(events) \in Nat, EntryOK(n, Q), n.batch_add \in 0..Len(Q),
                        n.next <= Len(Q), Len(events[Q[n.next]].data) \in Nat
                 PROVE  /\ Share(n, n.buffer_add, n.last_psb_add, Q[n.next]) = ShareOf(Q, n.batch_add, n.next)
                        /\ AtPsb(n, n.buffer_add, n.last_psb_add, Q[n.next]) \in {0, 1}
                        /\ n.batch_add > 0 => (n.last_psb_add + AtPsb(n, n.buffer_add, n.last_psb_add, Q[n.next]) = 0
                                                 <=> NoPsb(Q, n.batch_add, n.next))
  <2>. USE <1>ShareMatches
  <2> DEFINE a == n.batch_add
             e == Q[n.next]
             psb == AtPsb(n, n.buffer_add, n.last_psb_add, e)
  <2>1. /\ n.next \in Nat /\ n.next >= 1 /\ a \in Nat /\ n.last_psb_add \in Nat /\ Len(Q) \in Nat
        /\ a = 0 => n.buffer_add = 0
        /\ a # 0 => n.buffer_add = n.next - 1 /\ a > 0
        /\ a > 0 => (n.last_psb_add = 0 <=> NoPsb(Q, a, n.next - 1))
    BY SMT DEF EntryOK
  <2>2. psb \in {0, 1}
    BY Zenon DEF AtPsb
  <2>3. CASE a = 0
    <3>1. Share(n, n.buffer_add, n.last_psb_add, e) = 0
      BY SMT, <2>3 DEF Share
    <3> QED
      BY SMT, <2>2, <2>3, <3>1 DEF ShareOf
  <2>4. CASE a # 0 /\ n.next <= a
    <3>1. a > 0 /\ n.buffer_add < a /\ ~(n.buffer_add >= a) /\ a # 0
      BY SMT, <2>1, <2>4
    <3>2. Share(n, n.buffer_add, n.last_psb_add, e) = Len(events[e].data)
      BY SMT, <3>1 DEF Share
    <3>3. psb = 0
      BY Zenon, <3>1 DEF AtPsb
    <3>4. NoPsb(Q, a, n.next - 1) /\ NoPsb(Q, a, n.next)
      <4>0. a \in Nat /\ n.next \in Nat /\ n.next <= a
        BY Zenon, <2>1, <2>4
      <4>1. (\A k \in (a + 1)..(n.next - 1) : FALSE) /\ (\A k \in (a + 1)..(n.next) : FALSE)
        BY SMT, <4>0
      <4> QED
        BY Zenon, <4>1 DEF NoPsb
    <3>5. n.last_psb_add + psb = 0
      BY SMT, <2>1, <3>1, <3>3, <3>4
    <3> QED
      BY Zenon, <2>2, <2>4, <3>2, <3>4, <3>5 DEF ShareOf
  <2>5. CASE a # 0 /\ ~(n.next <= a)
    <3>1. a > 0 /\ ~(n.buffer_add < a) /\ n.buffer_add >= a /\ a # 0
      BY SMT, <2>1, <2>5
    <3>2. (a + 1)..n.next = ((a + 1)..(n.next - 1)) \cup {n.next}
      BY SMT, <2>1, <2>5
    <3>3. NoPsb(Q, a, n.next) <=> NoPsb(Q, a, n.next - 1) /\ PsbAt(e) = {}
      BY Zenon, <3>2 DEF NoPsb
    <3>4. CASE n.last_psb_add = 0
      <4>1. Share(n, n.buffer_add, n.last_psb_add, e) = BeforePsb(e)
        BY SMT, <3>1, <3>4 DEF Share
      <4>2. psb = 0 <=> PsbAt(e) = {}
        <5>1. 1 # 0
          BY SMT
        <5> QED
          BY Zenon, <3>1, <3>4, <5>1 DEF AtPsb
      <4>3. NoPsb(Q, a, n.next - 1)
        BY Zenon, <2>1, <3>1, <3>4
      <4>4. n.last_psb_add + psb = psb
        BY SMT, <2>2, <3>4
      <4> QED
        BY Zenon, <2>2, <2>5, <3>3, <4>1, <4>2, <4>3, <4>4 DEF ShareOf
    <3>5. CASE n.last_psb_add # 0
      <4>1. Share(n, n.buffer_add, n.last_psb_add, e) = 0
        BY SMT, <3>1, <3>5 DEF Share
      <4>2. ~NoPsb(Q, a, n.next - 1)
        BY Zenon, <2>1, <3>1, <3>5
      <4>3. n.last_psb_add + psb # 0
        BY SMT, <2>1, <2>2, <3>5
      <4> QED
        BY Zenon, <2>2, <2>5, <3>3, <4>1, <4>2, <4>3 DEF ShareOf
    <3> QED
      BY Zenon, <3>4, <3>5
  <2> QED
    BY Zenon, <2>3, <2>4, <2>5
(* get_trace() keeps the counters and the trace of a queue as EntryOK and  *)
(* TraceOK say.                                                            *)
<1>HandsOn. ASSUME WellOrdered, Base, NEW r, NEW q, QueueOK(r, q), DecodeOK(r, q), r.entry[q].next <= Len(r.queue[q])
            PROVE  LET n == r.entry[q]
                       m == EntryAfter(n, r.queue[q])
                   IN  /\ EntryOK(m, r.queue[q]) /\ m.batch_add = n.batch_add
                       /\ TraceOK(TraceAfter(r.trace[q], n, r.queue[q]), r.queue[q], m)
                       /\ SeenOK(r.seen[q], r.queue[q], m)
  <2>. USE <1>HandsOn
  <2> DEFINE n == r.entry[q]
             Q == r.queue[q]
             t == r.trace[q]
             e == Q[n.next]
             psb == AtPsb(n, n.buffer_add, n.last_psb_add, e)
             add == IF n.batch_add = 0 THEN 0 ELSE 1
             m == EntryAfter(n, Q)
             len == ShareOf(Q, n.batch_add, n.next)
  <2>1. /\ EntryOK(n, Q) /\ Q \in Seq(1..Len(events)) /\ n.batch_add \in 0..Len(Q) /\ n.next <= Len(Q)
        /\ TraceOK(t, Q, n) /\ SeenOK(r.seen[q], Q, n) /\ Len(events) \in Nat
        /\ \A k, l \in 1..Len(Q) : k < l => Q[k] < Q[l]
    BY Zenon, Shape DEF QueueOK, DecodeOK
  <2>2. /\ DOMAIN n = EntryFields /\ n.next \in 1..Len(Q) /\ n.next \in Nat /\ n.batch_add \in Nat /\ Len(Q) \in Nat
        /\ n.last_psb_add \in Nat /\ n.last_psb_lookahead \in Nat /\ n.last_psb_lookahead >= n.last_psb_add
        /\ n.buffer_lookahead \in Nat
        /\ n.buffer_add = IF n.batch_add = 0 THEN 0 ELSE n.next - 1
    BY SMT, <2>1 DEF EntryOK
  <2>3. e \in 1..Len(events)
    BY Zenon, <2>1, <2>2, Element
  <2>4. Len(events[e].data) \in Nat
    BY Zenon, <2>3, EventSize DEF Base
  <2>5. /\ Share(n, n.buffer_add, n.last_psb_add, e) = len
        /\ psb \in {0, 1}
        /\ n.batch_add > 0 => (n.last_psb_add + psb = 0 <=> NoPsb(Q, n.batch_add, n.next))
    BY Zenon, <2>1, <2>4, <1>ShareMatches
  <2> HIDE DEF psb
  <2>6. /\ DOMAIN m = EntryFields /\ m.batch_add = n.batch_add /\ m.next = n.next + 1
        /\ m.last_psb_add = n.last_psb_add + psb /\ m.last_psb_lookahead = n.last_psb_lookahead + psb
        /\ m.buffer_add = n.buffer_add + add
        /\ m.buffer_lookahead = IF n.buffer_add + add > n.buffer_lookahead THEN n.buffer_add + add
                                ELSE n.buffer_lookahead
    BY SMT, <2>2 DEF EntryAfter, EntryFields, psb
  <2> HIDE DEF m, n, Q, t
  <2>7. EntryOK(m, Q)
    <3>1. m.next - 1 = n.next /\ m.next \in 1..(Len(Q) + 1)
      BY SMT, <2>2, <2>6
    <3>2. m.buffer_add = (IF m.batch_add = 0 THEN 0 ELSE m.next - 1) /\ m.buffer_add \in Nat
      BY SMT, <2>2, <2>6
    <3>3. /\ m.last_psb_add \in Nat /\ m.last_psb_lookahead \in Nat /\ m.last_psb_lookahead >= m.last_psb_add
      <4>1. /\ n.last_psb_add \in Nat /\ n.last_psb_lookahead \in Nat /\ n.last_psb_lookahead >= n.last_psb_add
            /\ m.last_psb_add = n.last_psb_add + psb /\ m.last_psb_lookahead = n.last_psb_lookahead + psb
            /\ psb \in {0, 1}
        BY Zenon, <2>2, <2>5, <2>6
      <4> QED
        BY SMT, <4>1
    <3>4. m.buffer_lookahead \in Nat /\ m.buffer_lookahead >= m.buffer_add
      BY SMT, <2>2, <2>6, <3>2
    <3> QED
      BY Zenon, <2>5, <2>6, <3>1, <3>2, <3>3, <3>4 DEF EntryOK
  <2>8. TraceOK(t \o Atoms(e, len), Q, m)
    <3>1. len \in Nat /\ e \in Nat
      BY SMT, <2>3, <2>4, ShareNat
    <3>2. /\ t \in Seq(Pair) /\ InOrder(t)
          /\ \A x : x \in Members(t) <=> InShare(Q, n.batch_add, n.next - 1, x)
      BY Zenon, <2>1 DEF TraceOK
    <3>3. ASSUME NEW x \in Members(t)
          PROVE  x[1] < e
      <4>1. PICK k \in 1..(n.next - 1) : \E j \in 1..ShareOf(Q, n.batch_add, k) : x = <<Q[k], j>>
        BY Zenon, <3>2 DEF InShare
      <4>2. x[1] = Q[k]
        BY SMT, <4>1
      <4>3. k \in 1..Len(Q) /\ k < n.next
        BY SMT, <2>2
      <4> QED
        BY Zenon, <2>1, <2>2, <4>2, <4>3
    <3> HIDE DEF len, e
    <3>4. /\ t \o Atoms(e, len) \in Seq(Pair) /\ InOrder(t \o Atoms(e, len))
          /\ Members(t \o Atoms(e, len)) = Members(t) \cup {<<e, j>> : j \in 1..len}
      BY Zenon, <3>1, <3>2, <3>3, Longer
    <3>5. \A x : InShare(Q, n.batch_add, n.next, x)
            <=> InShare(Q, n.batch_add, n.next - 1, x) \/ x \in {<<e, j>> : j \in 1..len}
      <4>1. n.next >= 1
        BY SMT, <2>2
      <4>2. PICK k \in Nat : k = n.next /\ k >= 1
        BY Zenon, <2>2, <4>1
      <4>3. \A x : InShare(Q, n.batch_add, k, x)
              <=> InShare(Q, n.batch_add, k - 1, x) \/ x \in {<<Q[k], j>> : j \in 1..ShareOf(Q, n.batch_add, k)}
        <5>1. k >= 1
          BY Zenon, <4>2
        <5>2. Widens(Q, n.batch_add, k)
          BY Zenon, <5>1, <1>ShareGrows
        <5> QED
          BY Zenon, <5>2 DEF Widens
      <4>4. Q[k] = e /\ ShareOf(Q, n.batch_add, k) = len
        BY Zenon, <4>2 DEF len, e
      <4> QED
        BY Zenon, <4>2, <4>3, <4>4
    <3>6. m.next - 1 = n.next
      BY SMT, <2>2, <2>6
    <3> QED
      BY Zenon, <2>6, <3>2, <3>4, <3>5, <3>6 DEF TraceOK
  <2>9. SeenOK(r.seen[q], Q, m)
    BY Zenon, <2>1, <2>6 DEF SeenOK
  <2> QED
    BY Zenon, <2>5, <2>6, <2>7, <2>8, <2>9 DEF TraceAfter, m, n, Q, t
(* The loop of lookahead() has a result. *)
<1>LooksExist. ASSUME WellOrdered, NEW n, NEW s, NEW Q, n.next \in Nat, n.next >= 1, NEW stop \in Nat, stop >= n.next
               PROVE  Looking(Looks(n, s, Q, stop), n, s, Q, stop)
  <2>. USE <1>LooksExist
  <2> DEFINE a == n.next
             first == [n |-> n, seen |-> s]
             Bad == {x \in Nat : x >= a /\ ~(\E f : Looking(f, n, s, Q, x))}
  <2>1. \E f : Looking(f, n, s, Q, a - 1)
    <3> DEFINE f == [b \in (a - 1)..(a - 1) |-> first]
    <3>1. (a - 1)..(a - 1) = {a - 1} /\ a - 1 < a
      BY SMT
    <3>2. \A b \in (a - 1)..(a - 1) : b < a
      BY Zenon, <3>1
    <3>3. Looking(f, n, s, Q, a - 1)
      BY Zenon, <3>2 DEF Looking
    <3> QED
      BY Zenon, <3>3
  <2>2. ASSUME NEW x \in Nat, x >= a, NEW f, Looking(f, n, s, Q, x - 1)
        PROVE  \E g : Looking(g, n, s, Q, x)
    <3> DEFINE g == [b \in (a - 1)..x |-> IF b = x THEN LookStep(f[x - 1], Q[x]) ELSE f[b]]
    <3>1. /\ x \in (a - 1)..x /\ x - 1 \in (a - 1)..x /\ x - 1 # x /\ ~(x < a) /\ x - 1 \in (a - 1)..(x - 1)
          /\ \A b \in (a - 1)..x : b # x => b \in (a - 1)..(x - 1)
          /\ \A b \in (a - 1)..(x - 1) : b # x /\ b \in (a - 1)..x /\ (~(b < a) => b - 1 \in (a - 1)..(x - 1))
      BY SMT, <2>2
    <3>2. \A b \in (a - 1)..(x - 1) : f[b] = IF b < a THEN first ELSE LookStep(f[b - 1], Q[b])
      BY Zenon, <2>2 DEF Looking
    <3>3. \A b \in (a - 1)..(x - 1) : g[b] = f[b]
      BY Zenon, <3>1
    <3>4. g[x] = LookStep(g[x - 1], Q[x])
      BY Zenon, <3>1, <3>3
    <3>5. \A b \in (a - 1)..x : g[b] = IF b < a THEN first ELSE LookStep(g[b - 1], Q[b])
      <4> SUFFICES ASSUME NEW b \in (a - 1)..x
                   PROVE  g[b] = IF b < a THEN first ELSE LookStep(g[b - 1], Q[b])
        BY Zenon
      <4> HIDE DEF g
      <4>1. CASE b = x
        BY Zenon, <4>1, <3>1, <3>4
      <4>2. CASE b # x
        BY Zenon, <4>2, <3>1, <3>2, <3>3
      <4> QED
        BY Zenon, <4>1, <4>2
    <3>6. g = [b \in (a - 1)..x |-> g[b]]
      BY Zenon
    <3> HIDE DEF g
    <3>7. Looking(g, n, s, Q, x)
      BY Zenon, <3>5, <3>6 DEF Looking
    <3> QED
      BY Zenon, <3>7
  <2>3. Bad = {}
    <3> SUFFICES ASSUME Bad # {}
                 PROVE  FALSE
      BY Zenon
    <3>1. PICK x \in Bad : \A y \in Bad : x <= y
      BY Zenon, LeastNat
    <3>2. x \in Nat /\ x >= a
      BY Zenon, <3>1
    <3>3. x - 1 = a - 1 \/ (x - 1 \in Nat /\ x - 1 >= a /\ ~(x <= x - 1))
      BY SMT, <3>2
    <3>4. \E f : Looking(f, n, s, Q, x - 1)
      BY Zenon, <2>1, <3>1, <3>3
    <3> QED
      BY Zenon, <2>2, <3>1, <3>2, <3>4
  <2>4. \E f : Looking(f, n, s, Q, stop)
    BY Zenon, <2>3
  <2> QED
    BY Zenon, <2>4 DEF Looks, Looking
(* One step of a look-ahead shows only atoms of the share, and its         *)
(* counters stay ahead.                                                    *)
<1>LooksOn. ASSUME WellOrdered, Base, NEW n, NEW Q \in Seq(1..Len(events)), n.batch_add \in 0..Len(Q), n.last_psb_add \in Nat,
                   n.buffer_add \in Nat, NEW b \in 1..Len(Q), NEW acc, LookOK(acc, n, Q, b - 1)
            PROVE  LookOK(LookStep(acc, Q[b]), n, Q, b)
  <2>. USE <1>LooksOn
  <2> DEFINE a == n.batch_add
             m == acc.n
             e == Q[b]
             count == m.buffer_lookahead
             psbs == m.last_psb_lookahead
             len == Share(m, count, psbs, e)
             psb == AtPsb(m, count, psbs, e)
             add == IF m.batch_add = 0 THEN 0 ELSE 1
             u == LookStep(acc, e)
  <2>1. /\ DOMAIN m = EntryFields /\ m.batch_add = a /\ m.next = n.next
        /\ m.buffer_add = n.buffer_add /\ m.last_psb_add = n.last_psb_add
        /\ psbs \in Nat /\ psbs >= n.last_psb_add /\ count \in Nat /\ count >= n.buffer_add
        /\ a > 0 => count >= b - 1
    BY Zenon DEF LookOK
  <2>0. (a > 0 /\ psbs = 0 => NoPsb(Q, a, b - 1)) /\ SeenOK(acc.seen, Q, n)
    BY Zenon DEF LookOK
  <2>2. a \in Nat /\ Len(Q) \in Nat /\ b \in Nat /\ b >= 1
    BY SMT
  <2>3. psb \in {0, 1} /\ add \in {0, 1} /\ (a > 0 => add = 1)
    BY SMT, <2>1, <2>2 DEF AtPsb
  <2>4. u.seen = acc.seen \cup {<<e, j>> : j \in 1..len}
    BY Zenon DEF LookStep
  <2>5. u.n = [m EXCEPT !.last_psb_lookahead = @ + psb, !.buffer_lookahead = @ + add]
    BY Zenon DEF LookStep
  <2> HIDE DEF u
  <2>6. e \in 1..Len(events) /\ Len(events[e].data) \in Nat
    BY Zenon, Element, EventSize DEF Base
  <2>7. a > 0 /\ psbs + psb = 0 => NoPsb(Q, a, b)
    <3> SUFFICES ASSUME a > 0, psbs + psb = 0, NEW k \in (a + 1)..b
                 PROVE  PsbAt(Q[k]) = {}
      BY Zenon DEF NoPsb
    <3>0. psbs = 0 /\ psb = 0
      <4>1. psbs \in Nat /\ psb \in {0, 1}
        BY Zenon, <2>1, <2>3
      <4> HIDE DEF psbs, psb
      <4> QED
        BY SMT, <4>1
    <3>1. psbs = 0 /\ psb = 0 /\ NoPsb(Q, a, b - 1)
      BY Zenon, <2>0, <3>0
    <3>2. k \in (a + 1)..(b - 1) \/ (k = b /\ count >= a)
      <4>1. count \in Nat /\ count >= b - 1 /\ a \in Nat /\ b \in Nat
        BY Zenon, <2>1, <2>2
      <4> HIDE DEF count, a
      <4> QED
        BY SMT, <4>1
    <3>3. 1 # 0
      BY SMT
    <3> QED
      BY Zenon, <2>1, <3>1, <3>2, <3>3 DEF NoPsb, AtPsb
  <2>8. ASSUME NEW j \in 1..len
        PROVE  j \in 1..ShareOf(Q, a, b)
    <3>1. BeforePsb(e) \in 0..Len(events[e].data)
      BY Zenon, <2>6, FirstPsb
    <3>2. a > 0
      <4>1. m.batch_add = 0 => len = 0
        BY SMT DEF Share
      <4> QED
        BY SMT, <2>1, <2>2, <2>8, <4>1
    <3>3. CASE b <= a
      <4>1. len \in {Len(events[e].data), BeforePsb(e), 0}
        BY SMT DEF Share
      <4>2. j \in 1..Len(events[e].data)
        BY SMT, <2>6, <2>8, <3>1, <4>1
      <4>3. a # 0
        BY SMT, <3>2
      <4> QED
        BY Zenon, <3>3, <4>2, <4>3 DEF ShareOf
    <3>4. CASE ~(b <= a)
      <4>1. count >= a /\ ~(count < a)
        BY SMT, <2>1, <2>2, <3>2, <3>4
      <4>2. psbs = 0
        <5>1. psbs # 0 => len = 0
          BY SMT, <2>1, <3>2, <4>1 DEF Share
        <5> QED
          BY SMT, <2>8, <5>1
      <4>3. len = BeforePsb(e)
        BY SMT, <2>1, <3>2, <4>1, <4>2 DEF Share
      <4>4. NoPsb(Q, a, b - 1) /\ a # 0
        <5>1. a # 0
          BY SMT, <3>2
        <5> QED
          BY Zenon, <2>0, <3>2, <4>2, <5>1
      <4> QED
        BY Zenon, <2>8, <3>4, <4>3, <4>4 DEF ShareOf
    <3> QED
      BY Zenon, <3>3, <3>4
  <2>9. SeenOK(u.seen, Q, n)
    <3> SUFFICES ASSUME NEW x \in {<<e, j>> : j \in 1..len}
                 PROVE  InShare(Q, a, Len(Q), x)
      BY Zenon, <2>0, <2>4 DEF SeenOK
    <3>1. PICK j \in 1..len : x = <<e, j>>
      BY Zenon
    <3> QED
      BY Zenon, <2>8, <3>1 DEF InShare
  <2> HIDE DEF psb, add
  <2>10. /\ DOMAIN u.n = EntryFields /\ u.n.batch_add = m.batch_add /\ u.n.next = m.next
         /\ u.n.buffer_add = m.buffer_add /\ u.n.last_psb_add = m.last_psb_add
         /\ u.n.last_psb_lookahead = psbs + psb /\ u.n.buffer_lookahead = count + add
    BY SMT, <2>1, <2>5 DEF EntryFields
  <2>11. /\ psbs + psb \in Nat /\ psbs + psb >= n.last_psb_add
         /\ count + add \in Nat /\ count + add >= n.buffer_add
         /\ a > 0 => count + add >= b
    <3>1. /\ psbs \in Nat /\ psbs >= n.last_psb_add /\ count \in Nat /\ count >= n.buffer_add
          /\ a > 0 => count >= b - 1 /\ add = 1
      BY Zenon, <2>1, <2>3
    <3>2. psb \in {0, 1} /\ add \in {0, 1} /\ b \in Nat
      BY Zenon, <2>2, <2>3
    <3>3. PICK x, y : x = n.last_psb_add /\ y = n.buffer_add
      BY Zenon
    <3> HIDE DEF psbs, count, a
    <3>4. x \in Nat /\ psbs >= x => psbs + psb \in Nat /\ psbs + psb >= x
      BY SMT, <3>1, <3>2
    <3>5. y \in Nat /\ count >= y => count + add \in Nat /\ count + add >= y
      BY SMT, <3>1, <3>2
    <3>6. a > 0 => count + add >= b
      BY SMT, <3>1, <3>2
    <3> QED
      BY Zenon, <3>1, <3>3, <3>4, <3>5, <3>6
  <2> QED
    BY Zenon, <2>1, <2>7, <2>9, <2>10, <2>11 DEF LookOK, u
(* ... and at the end: the child has seen nothing that is not its own. *)
<1>LooksAll. ASSUME WellOrdered, Base, NEW r, NEW q, QueueOK(r, q), DecodeOK(r, q),
                    NEW stop \in (r.entry[q].next)..Len(r.queue[q])
             PROVE  LET l == Looks(r.entry[q], r.seen[q], r.queue[q], stop)[stop]
                    IN  /\ EntryOK(l.n, r.queue[q]) /\ l.n.batch_add = r.entry[q].batch_add
                        /\ TraceOK(r.trace[q], r.queue[q], l.n)
                        /\ SeenOK(l.seen, r.queue[q], l.n)
  <2>. USE <1>LooksAll
  <2> DEFINE n == r.entry[q]
             Q == r.queue[q]
             s == r.seen[q]
             f == Looks(n, s, Q, stop)
             Bad == {b \in Nat : b >= n.next - 1 /\ b <= stop /\ ~LookOK(f[b], n, Q, b)}
  <2>1. /\ EntryOK(n, Q) /\ Q \in Seq(1..Len(events)) /\ n.batch_add \in 0..Len(Q)
        /\ TraceOK(r.trace[q], Q, n) /\ SeenOK(s, Q, n)
    BY Zenon DEF QueueOK, DecodeOK
  <2>2. /\ DOMAIN n = EntryFields /\ n.next \in Nat /\ n.next >= 1 /\ n.batch_add \in Nat /\ Len(Q) \in Nat
        /\ n.last_psb_add \in Nat /\ n.last_psb_lookahead \in Nat /\ n.last_psb_lookahead >= n.last_psb_add
        /\ n.buffer_lookahead \in Nat /\ n.buffer_add \in Nat /\ n.buffer_lookahead >= n.buffer_add
        /\ n.batch_add > 0 => n.buffer_add >= n.next - 1
        /\ stop \in Nat /\ stop >= n.next /\ stop <= Len(Q)
    <3>1. /\ DOMAIN n = EntryFields /\ n.next \in 1..(Len(Q) + 1)
          /\ n.last_psb_add \in Nat /\ n.last_psb_lookahead \in Nat /\ n.last_psb_lookahead >= n.last_psb_add
          /\ n.buffer_lookahead \in Nat /\ n.buffer_add = (IF n.batch_add = 0 THEN 0 ELSE n.next - 1)
          /\ n.buffer_lookahead >= n.buffer_add
      BY Zenon, <2>1 DEF EntryOK
    <3>2. Len(Q) \in Nat
      BY SMT, <2>1
    <3>3. stop \in (n.next)..Len(Q) /\ n.batch_add \in 0..Len(Q)
      BY Zenon, <2>1
    <3> HIDE DEF n, Q
    <3> QED
      BY SMT, <3>1, <3>2, <3>3
  <2>2a. n.batch_add > 0 => (n.last_psb_add = 0 <=> NoPsb(Q, n.batch_add, n.next - 1))
    BY Zenon, <2>1 DEF EntryOK
  <2>3. Looking(f, n, s, Q, stop)
    BY Zenon, <2>2, <1>LooksExist
  <2> HIDE DEF f
  <2>4. \A b \in (n.next - 1)..stop : f[b] = IF b < n.next THEN [n |-> n, seen |-> s] ELSE LookStep(f[b - 1], Q[b])
    BY Zenon, <2>3 DEF Looking
  <2>5. LookOK(f[n.next - 1], n, Q, n.next - 1)
    <3>1. n.next - 1 \in (n.next - 1)..stop /\ n.next - 1 < n.next
      <4>1. n.next \in Nat /\ n.next >= 1 /\ stop \in Nat /\ stop >= n.next
        BY Zenon, <2>2
      <4> HIDE DEF n
      <4> QED
        BY SMT, <4>1
    <3>2. f[n.next - 1] = [n |-> n, seen |-> s]
      BY Zenon, <2>4, <3>1
    <3>3. f[n.next - 1].n = n /\ f[n.next - 1].seen = s
      BY SMT, <3>2
    <3>4. n.batch_add > 0 => n.buffer_lookahead >= n.next - 1
      BY SMT, <2>2
    <3>5. n.last_psb_lookahead = 0 => n.last_psb_add = 0
      BY SMT, <2>2
    <3> QED
      BY Zenon, <2>1, <2>2, <2>2a, <3>3, <3>4, <3>5 DEF LookOK
  <2>6. Bad = {}
    <3> SUFFICES ASSUME Bad # {}
                 PROVE  FALSE
      BY Zenon
    <3>1. PICK b \in Bad : \A y \in Bad : b <= y
      BY Zenon, LeastNat
    <3>2. b \in Nat /\ b >= n.next - 1 /\ b <= stop /\ ~LookOK(f[b], n, Q, b) /\ b # n.next - 1
      BY Zenon, <2>5, <3>1
    <3> HIDE DEF Bad, n, Q, s
    <3>3. /\ b - 1 \in Nat /\ b - 1 >= n.next - 1 /\ b - 1 <= stop /\ ~(b <= b - 1)
          /\ b \in (n.next - 1)..stop /\ ~(b < n.next) /\ b \in 1..Len(Q)
      BY SMT, <2>2, <3>2
    <3>4. LookOK(f[b - 1], n, Q, b - 1)
      BY Zenon, <3>1, <3>3 DEF Bad
    <3>5. f[b] = LookStep(f[b - 1], Q[b])
      BY Zenon, <2>4, <3>3
    <3> QED
      BY Zenon, <2>1, <2>2, <3>2, <3>3, <3>4, <3>5, <1>LooksOn
  <2>7. LookOK(f[stop], n, Q, stop)
    <3>1. stop >= n.next - 1 /\ stop <= stop
      BY SMT, <2>2
    <3> QED
      BY Zenon, <2>2, <2>6, <3>1
  <2> DEFINE m == f[stop].n
  <2>8. /\ DOMAIN m = EntryFields /\ m.batch_add = n.batch_add /\ m.next = n.next
        /\ m.buffer_add = n.buffer_add /\ m.last_psb_add = n.last_psb_add
        /\ m.last_psb_lookahead \in Nat /\ m.last_psb_lookahead >= n.last_psb_add
        /\ m.buffer_lookahead \in Nat /\ m.buffer_lookahead >= n.buffer_add
        /\ SeenOK(f[stop].seen, Q, n)
    BY Zenon, <2>7 DEF LookOK
  <2> HIDE DEF m, n, Q, s
  <2>9. EntryOK(m, Q)
    BY Zenon, <2>1, <2>8 DEF EntryOK
  <2>10. TraceOK(r.trace[q], Q, m)
    BY Zenon, <2>1, <2>8 DEF TraceOK
  <2>11. SeenOK(f[stop].seen, Q, m)
    BY Zenon, <2>8 DEF SeenOK
  <2> QED
    BY Zenon, <2>8, <2>9, <2>10, <2>11 DEF f, m, n, Q, s
(* A step that leaves the queues alone *)
<1>SameShape. ASSUME NEW r, NEW v, SameQueues(v, r)
              PROVE  /\ Shaped(r) => Shaped(v)
                     /\ \A q : Untouched(r, q) => Untouched(v, q)
                     /\ \A q : Fresh(r, q) => Fresh(v, q)
                     /\ \A q : DecodeOK(r, q) => DecodeOK(v, q)
  BY <1>SameShape, Zenon DEF SameQueues, Shaped, QueueFields, Untouched, Fresh, DecodeOK
(* A step of one process keeps DInv when it keeps it for the process. *)
<1>OneProcess. ASSUME Base, DInv, scene' = scene, events' = events, NEW p \in Proc, NEW v, Becomes(p, v), Shaped(v),
                      p = Parent => \A q \in Queue : Untouched(v, q),
                      p \in Child => ChildOK(v)
               PROVE  DInv'
  <2>. USE <1>OneProcess
  <2>1. /\ Len(procs') = Len(procs) /\ procs'[p] = v /\ Proc' = Proc /\ Child' = Child
        /\ \A o \in Proc : o # p => procs'[o] = procs[o]
        /\ Child \subseteq Proc /\ Parent \in Proc
    BY Zenon, Shape DEF Becomes, Proc, Child
  <2>2. /\ \A o \in Proc : Shaped(procs'[o])
        /\ \A q \in Queue : Untouched(procs'[Parent], q)
        /\ \A c \in Child : ChildOK(procs'[c])
    BY Zenon, <2>1 DEF DInv
  <2> QED
    BY Zenon, <2>1, <2>2, <1>Unmoved DEF DInv, Parent
(* A child in the second loop *)
<1>ChildAdds. ASSUME NEW r, NEW v, r.pc = "add", v.pc = "add", ChildOK(r),
                     \A q \in Queue : QueueOK(r, q) => QueueOK(v, q),
                     \A q \in Queue : Fresh(r, q) => Fresh(v, q)
              PROVE  ChildOK(v)
  <2>. USE <1>ChildAdds
  <2>1. v.pc # "exited"
    BY SMT
  <2> QED
    BY Zenon, <2>1 DEF ChildOK
(* SkipEvent keeps DInv. *)
<1>SkipKeepsD. ASSUME IInv, DInv, NEW p \in Proc, SkipEvent(p)
               PROVE  DInv'
  <2>. USE <1>SkipKeepsD
  <2> DEFINE r == procs[p]
             i == r.i
             v == [r EXCEPT !.i = i + 1]
  <2>1. /\ Base /\ Adding(p) /\ Filtered(i) /\ r.pc = "add" /\ i <= Len(events) /\ scene' = scene /\ events' = events
        /\ p \in DOMAIN procs
    BY Zenon, ProcDomain DEF IInv, SkipEvent, Adding
  <2>2. PICK S, T, F : Splitting(S, T, F)
    BY SMT, <2>1, PastCounting
  <2>3. i \in 1..Len(events) /\ Len(events) \in Nat
    BY Zenon, <2>1, <2>2, Reaching, Shape
  <2>4. procs' = [procs EXCEPT ![p] = v]
    BY Zenon, <2>1 DEF SkipEvent
  <2>5. Becomes(p, v)
    BY Zenon, <2>1, <2>4, Becoming
  <2>6. SameQueues(v, r) /\ v.pc = r.pc /\ v.i = i + 1 /\ v.batch = r.batch
    BY SMT, <2>1 DEF Base, Fields, SameQueues
  <2> HIDE DEF v
  <2>7. i \in 1..(Len(events) + 1)
    BY SMT, <2>3
  <2>8. ASSUME NEW q, QueueOK(r, q)
        PROVE  QueueOK(v, q)
    BY Zenon, <2>1, <2>3, <2>6, <2>7, <2>8, <1>SkipQueue DEF SameQueues
  <2>9. p \in Child => ChildOK(v)
    BY Zenon, <2>1, <2>6, <2>8, <1>ChildAdds, <1>SameShape DEF DInv
  <2>10. Shaped(v) /\ (p = Parent => \A q \in Queue : Untouched(v, q))
    BY Zenon, <2>6, <1>SameShape DEF DInv
  <2> QED
    BY Zenon, <2>1, <2>5, <2>9, <2>10, <1>OneProcess
(* The queues of a child behind an event that it keeps *)
<1>ChildQueues. ASSUME NEW r, NEW b \in BOOLEAN, DOMAIN r = Fields, r.total_event_added # total_event, Shaped(r)
                PROVE  LET v == AddEvent(r, TRUE, b)
                           z == events[r.i].q
                       IN  /\ Shaped(v) /\ v.trace = r.trace /\ v.seen = r.seen
                           /\ \A q \in Queue : q # z => v.queue[q] = r.queue[q] /\ v.entry[q] = r.entry[q]
                           /\ z \in Queue => /\ v.queue[z] = Append(r.queue[z], r.i)
                                             /\ v.entry[z] = Entered(r.entry[z], b)
  <2>. USE <1>ChildQueues
  <2>1. PICK child \in BOOLEAN : child = TRUE /\ child
    BY Zenon
  <2> DEFINE a == AddEvent(r, child, b)
             z == events[r.i].q
  <2>2. /\ Shaped(a) /\ a.trace = r.trace /\ a.seen = r.seen
        /\ \A q \in Queue : q # z => a.queue[q] = r.queue[q] /\ a.entry[q] = r.entry[q]
    BY Zenon, <1>Queued
  <2>4. child /\ z \in Queue => a.queue[z] = Append(r.queue[z], r.i) /\ a.entry[z] = Entered(r.entry[z], b)
    BY Zenon, <1>Queued
  <2>3. a = AddEvent(r, TRUE, b)
    BY Zenon, <2>1
  <2> HIDE DEF a, z
  <2> QED
    BY Zenon, <2>1, <2>2, <2>3, <2>4 DEF z
(* add_event() by a child, or by the parent for the child it forks *)
<1>AddsOK. ASSUME NEW r, NEW b \in BOOLEAN, DOMAIN r = Fields, r.total_event_added # total_event, Shaped(r),
                  NEW i \in 1..Len(events), r.i = i, Len(events) \in Nat, ~Filtered(i),
                  \A x \in r.batch : x \in 1..(i - 1),
                  b \/ \E x \in r.batch : x <= i,
                  b => \A e \in 1..(i - 1) : ~Filtered(e) /\ (\E x \in r.batch : x <= e) => e \in r.batch,
                  \A q \in Queue : QueueOK(r, q) /\ Fresh(r, q), r.pc = "add"
           PROVE  ChildOK(AddEvent(r, TRUE, b)) /\ Shaped(AddEvent(r, TRUE, b))
  <2>. USE <1>AddsOK
  <2> DEFINE v == AddEvent(r, TRUE, b)
             o == events[i].q
  <2>1. /\ Shaped(v) /\ v.trace = r.trace /\ v.seen = r.seen
        /\ \A q \in Queue : q # o => v.queue[q] = r.queue[q] /\ v.entry[q] = r.entry[q]
        /\ o \in Queue => /\ v.queue[o] = Append(r.queue[o], i)
                          /\ v.entry[o] = Entered(r.entry[o], b)
    <3> DEFINE z == events[r.i].q
    <3>1. o = z
      BY Zenon
    <3>2. /\ Shaped(v) /\ v.trace = r.trace /\ v.seen = r.seen
          /\ \A q \in Queue : q # z => v.queue[q] = r.queue[q] /\ v.entry[q] = r.entry[q]
          /\ z \in Queue => /\ v.queue[z] = Append(r.queue[z], r.i)
                            /\ v.entry[z] = Entered(r.entry[z], b)
      BY Zenon, <1>ChildQueues
    <3> HIDE DEF v, o, z
    <3> QED
      BY Zenon, <3>1, <3>2
  <2>2. v.pc = r.pc /\ v.i = i + 1 /\ v.batch = IF b THEN r.batch \cup {i} ELSE r.batch
    <3>1. TRUE \in BOOLEAN
      BY Zenon
    <3> QED
      BY Zenon, <3>1, Added
  <2> HIDE DEF v
  <2>3. ASSUME NEW q \in Queue
        PROVE  QueueOK(v, q) /\ Fresh(v, q)
    <3>1. QueueOK(r, q) /\ Fresh(r, q) /\ DOMAIN r.entry[q] = EntryFields
      BY Zenon DEF Fresh
    <3>2. CASE q # o
      <4>1. v.queue[q] = r.queue[q] /\ v.entry[q] = r.entry[q] /\ v.entry[q].batch_add = r.entry[q].batch_add
        BY Zenon, <2>1, <3>2
      <4>2. Fresh(v, q)
        BY Zenon, <2>1, <3>1, <4>1 DEF Fresh
      <4>3. QueueOK(v, q)
        BY Zenon, <2>2, <3>1, <3>2, <4>1, <1>KeepQueue
      <4> QED
        BY Zenon, <4>2, <4>3
    <3>3. CASE q = o
      <4>1. /\ v.queue[q] = Append(r.queue[q], i)
            /\ v.entry[q] = Entered(r.entry[q], b)
        BY Zenon, <2>1, <3>3
      <4>2. v.entry[q].batch_add = r.entry[q].batch_add + (IF b THEN 1 ELSE 0)
        BY SMT, <3>1, <4>1 DEF EntryFields, Entered
      <4>3. /\ DOMAIN v.entry[q] = EntryFields
            /\ \A f \in EntryFields \ {"batch_add"} : v.entry[q][f] = r.entry[q][f]
        BY Zenon, <3>1, <4>1 DEF Entered
      <4>4. Fresh(v, q)
        BY Zenon, <2>1, <3>1, <4>3 DEF Fresh
      <4>5. QueueOK(v, q)
        <5>1. events[i].q = q /\ v.queue[q] = Append(r.queue[q], i) /\ QueueOK(r, q)
          BY Zenon, <3>1, <3>3, <4>1
        <5> HIDE DEF o
        <5> QED
          BY Zenon, <2>2, <4>2, <5>1, <1>KeepQueue
      <4> QED
        BY Zenon, <4>4, <4>5
    <3> QED
      BY Zenon, <3>2, <3>3
  <2>4. v.pc = "add" /\ v.pc # "exited"
    BY SMT, <2>2
  <2>5. ChildOK(v)
    BY Zenon, <2>3, <2>4 DEF ChildOK
  <2> QED
    BY Zenon, <2>1, <2>5 DEF v
(* KeepEvent keeps DInv. *)
<1>KeepKeepsD. ASSUME IInv, DInv, NEW p \in Proc, KeepEvent(p)
               PROVE  DInv'
  <2>. USE <1>KeepKeepsD
  <2> DEFINE r == procs[p]
             i == r.i
             v == AddEvent(r, p # Parent, InBatch(r))
  <2>1. /\ Base /\ Adding(p) /\ ~Filtered(i) /\ r.pc = "add" /\ i <= Len(events) /\ scene' = scene /\ events' = events
        /\ procs' = [procs EXCEPT ![p] = v]
    BY Zenon DEF IInv, KeepEvent, Adding
  <2>2. PICK S, T, F : Splitting(S, T, F)
    BY SMT, <2>1, PastCounting
  <2>3. i \in 1..Len(events) /\ Len(events) \in Nat /\ r.total_event_added # total_event
    BY Zenon, <2>1, <2>2, Reaching, Shape
  <2>4. Becomes(p, v)
    BY Zenon, <2>1, Becoming
  <2>5. InBatch(r) \in BOOLEAN
    <3>1. PICK k \in Nat : r.parallel_file_count = k
      BY SMT, <2>1, <2>2, Shape DEF Splitting, Files, Proc, Child, Parent
    <3> QED
      BY Zenon, <2>1, <2>2, <3>1, Reaching
  <2>6. DOMAIN r = Fields /\ Shaped(r)
    BY Zenon, <2>1 DEF Base, DInv
  <2>7. CASE p = Parent
    <3>1. PICK child \in BOOLEAN : child = (p # Parent) /\ ~child
      BY Zenon, <2>7
    <3>2. SameQueues(v, r) /\ Shaped(v)
      BY Zenon, <2>3, <2>5, <2>6, <3>1, <1>Queued DEF SameQueues
    <3>3. \A q \in Queue : Untouched(v, q)
      BY Zenon, <2>7, <3>2, <1>SameShape DEF DInv
    <3>4. p \notin Child
      BY Zenon, <2>1, <2>7, Shape
    <3> QED
      BY Zenon, <2>1, <2>4, <3>2, <3>3, <3>4, <1>OneProcess
  <2>8. CASE p # Parent
    <3>1. p \in Child
      BY SMT, <2>8 DEF Proc, Child, Parent
    <3>2. v = AddEvent(r, TRUE, InBatch(r))
      <4>1. (p # Parent) = TRUE
        BY Zenon, <2>8
      <4> QED
        BY Zenon, <4>1
    <3>3. /\ \A x \in r.batch : x \in 1..(i - 1)
          /\ \E x \in r.batch : x <= i
          /\ InBatch(r) => \A e \in 1..(i - 1) :
               ~Filtered(e) /\ (\E x \in r.batch : x <= e) => e \in r.batch
      BY Zenon, <2>1, <2>2, <3>1, <1>Growing
    <3>4. \A q \in Queue : QueueOK(r, q) /\ Fresh(r, q)
      BY Zenon, <2>1, <3>1 DEF DInv, ChildOK
    <3>5. PICK b \in BOOLEAN : b = InBatch(r)
      BY Zenon, <2>5
    <3>6. ChildOK(AddEvent(r, TRUE, b)) /\ Shaped(AddEvent(r, TRUE, b))
      <4> HIDE DEF r, i
      <4> QED
        BY Zenon, <2>1, <2>3, <2>6, <3>3, <3>4, <3>5, <1>AddsOK DEF i
    <3>7. ChildOK(v) /\ Shaped(v)
      BY Zenon, <3>2, <3>5, <3>6
    <3> QED
      BY Zenon, <2>1, <2>4, <2>8, <3>7, <1>OneProcess
  <2> QED
    BY Zenon, <2>7, <2>8
(* ForkWorker keeps DInv. *)
<1>ForkKeepsD. ASSUME IInv, DInv, ForkWorker
               PROVE  DInv'
  <2>. USE <1>ForkKeepsD
  <2> DEFINE g == procs[Parent]
             i == g.i
             n == Len(procs) + 1
             r == [g EXCEPT !.parallel_file_count = g.parallel_file_count + 1]
             a == AddEvent(r, FALSE, TRUE)
             b == AddEvent(r, TRUE, TRUE)
             s == [procs EXCEPT ![Parent] = a]
  <2>1. /\ Base /\ Adding(Parent) /\ g.pc = "add" /\ i <= Len(events) /\ ~Filtered(i)
        /\ procs' = Append(s, b) /\ scene' = scene /\ events' = events
    BY Zenon DEF IInv, ForkWorker, Adding, Forks
  <2>2. Len(procs) \in Nat /\ Len(procs) >= 1 /\ Parent \in Proc /\ Len(events) \in Nat
    BY Zenon, <2>1, Shape
  <2>3. PICK S, T, F : Splitting(S, T, F)
    BY SMT, <2>1, <2>2, PastCounting
  <2>4. i \in 1..Len(events) /\ g.total_event_added # total_event
    BY Zenon, <2>1, <2>2, <2>3, Reaching
  <2>5. g.batch = {} /\ DOMAIN g = Fields /\ Shaped(g) /\ \A q \in Queue : Untouched(g, q)
    BY Zenon, <2>1, <2>2 DEF Base, DInv
  <2>6. /\ DOMAIN r = Fields /\ r.pc = "add" /\ r.i = i /\ r.total_event_added # total_event
        /\ r.batch = {} /\ SameQueues(r, g)
    BY SMT, <2>1, <2>4, <2>5 DEF Fields, SameQueues
  <2> HIDE DEF r
  <2>7. Shaped(r) /\ \A q \in Queue : Untouched(r, q) /\ QueueOK(r, q) /\ Fresh(r, q)
    BY Zenon, <2>5, <2>6, <1>SameShape, <1>QueuedNothing
  <2>8. ChildOK(b) /\ Shaped(b)
    <3>1. TRUE \in BOOLEAN
      BY Zenon
    <3>2. (\A x \in r.batch : x \in 1..(i - 1)) /\ \A e : ~(\E x \in r.batch : x <= e)
      BY Zenon, <2>6
    <3> HIDE DEF i
    <3> QED
      BY Zenon, <2>1, <2>2, <2>4, <2>6, <2>7, <3>1, <3>2, <1>AddsOK
  <2>9. Shaped(a) /\ \A q \in Queue : Untouched(a, q)
    <3>1. TRUE \in BOOLEAN /\ FALSE \in BOOLEAN
      BY Zenon
    <3>2. Shaped(a) /\ SameQueues(a, r)
      BY Zenon, <2>6, <2>7, <3>1, <1>Queued DEF SameQueues
    <3> QED
      BY Zenon, <2>7, <3>2, <1>SameShape
  <2> HIDE DEF a, b
  <2>10. PICK R : procs \in Seq(R)
    BY Zenon, <2>1 DEF Base
  <2>11. /\ s \in Seq(R \cup {a}) /\ Len(s) = Len(procs) /\ s[Parent] = a
         /\ \A o \in Proc : o # Parent => s[o] = procs[o]
    BY SMT, <2>2, <2>10, Replaced DEF Proc
  <2> HIDE DEF s
  <2>12. /\ Len(procs') = n /\ procs'[n] = b
         /\ \A o \in Proc : procs'[o] = s[o]
    BY SMT, <2>1, <2>11, Appended DEF Proc
  <2>13. /\ procs'[Parent] = a
         /\ \A o \in Child : procs'[o] = procs[o]
    BY Zenon, <2>1, <2>2, <2>11, <2>12, Shape
  <2>14. Proc' = Child \cup {Parent, n} /\ Child' = Child \cup {n}
    BY SMT, <2>2, <2>12 DEF Proc, Child, Parent
  <2>15. \A c \in Child : Shaped(procs[c]) /\ ChildOK(procs[c])
    BY Zenon, <2>1, Shape DEF DInv
  <2>16. /\ \A o \in Proc' : Shaped(procs'[o])
         /\ \A q \in Queue : Untouched(procs'[Parent], q)
         /\ \A c \in Child' : ChildOK(procs'[c])
    BY Zenon, <2>8, <2>9, <2>12, <2>13, <2>14, <2>15
  <2> QED
    BY Zenon, <2>1, <2>16, <1>Unmoved DEF DInv, Parent
(* A process that goes on to its next part *)
<1>PcKeepsD. ASSUME IInv, DInv, NEW p \in Proc, NEW pc, procs' = [procs EXCEPT ![p].pc = pc],
                    scene' = scene, events' = events,
                    p \in Child =>
                      /\ pc \in {"decode", "exited"} /\ procs[p].i = Len(events) + 1
                      /\ pc = "exited" => \A q \in Queue : procs[p].entry[q].next > Len(procs[p].queue[q])
             PROVE  DInv'
  <2>. USE <1>PcKeepsD
  <2> DEFINE r == procs[p]
             v == [r EXCEPT !.pc = pc]
  <2>1. Base /\ p \in DOMAIN procs /\ Len(events) \in Nat
    BY Zenon, ProcDomain, Shape DEF IInv
  <2>2. Becomes(p, v)
    <3>1. procs' = [procs EXCEPT ![p] = v]
      BY Zenon, <2>1
    <3> QED
      BY Zenon, <2>1, <3>1, Becoming
  <2>3. SameQueues(v, r) /\ v.pc = pc /\ v.i = r.i /\ v.batch = r.batch
    BY SMT, <2>1 DEF Base, Fields, SameQueues
  <2> HIDE DEF v
  <2>4. ASSUME p \in Child
        PROVE  ChildOK(v)
    <3>1. v.pc # "add" /\ Len(events) + 1 \in 1..(Len(events) + 1)
      BY SMT, <2>1, <2>3, <2>4
    <3>2. ChildOK(r)
      BY Zenon, <2>4 DEF DInv
    <3>3. ASSUME NEW q \in Queue
          PROVE  QueueOK(v, q) /\ DecodeOK(v, q)
      <4>1. QueueOK(r, q) /\ (Fresh(r, q) \/ DecodeOK(r, q))
        BY Zenon, <3>2 DEF ChildOK
      <4>2. DecodeOK(r, q)
        BY Zenon, <4>1, <1>Begins
      <4>3. QueueOK(v, q)
        BY Zenon, <2>1, <2>3, <2>4, <3>1, <4>1, <1>SkipQueue DEF SameQueues
      <4> QED
        BY Zenon, <2>3, <4>2, <4>3, <1>SameShape
    <3>4. v.pc = "exited" => \A q \in Queue : v.entry[q].next > Len(v.queue[q])
      BY Zenon, <2>3, <2>4 DEF SameQueues
    <3> QED
      BY Zenon, <3>1, <3>3, <3>4 DEF ChildOK
  <2>5. Shaped(v) /\ (p = Parent => \A q \in Queue : Untouched(v, q))
    BY Zenon, <2>3, <1>SameShape DEF DInv
  <2> QED
    BY Zenon, <2>1, <2>2, <2>4, <2>5, <1>OneProcess
(* A child's step in one queue *)
<1>DecodeKeepsD. ASSUME IInv, DInv, NEW p \in Child, NEW q \in Queue, procs[p].pc = "decode",
                        scene' = scene, events' = events, NEW v, Becomes(p, v),
                        v.pc = procs[p].pc, v.i = procs[p].i, v.batch = procs[p].batch, v.queue = procs[p].queue, Shaped(v),
                        \A o \in Queue : o # q => /\ v.entry[o] = procs[p].entry[o] /\ v.trace[o] = procs[p].trace[o]
                                                  /\ v.seen[o] = procs[p].seen[o],
                        QueueOK(procs[p], q) /\ DecodeOK(procs[p], q) =>
                          v.entry[q].batch_add = procs[p].entry[q].batch_add /\ DecodeOK(v, q)
                 PROVE  DInv'
  <2>. USE <1>DecodeKeepsD
  <2> DEFINE r == procs[p]
  <2>1. Base /\ p \in Proc /\ p # Parent /\ Len(events) \in Nat
    BY Zenon, Shape DEF IInv
  <2>2. r.pc # "add" /\ r.pc # "count" /\ v.pc # "add" /\ v.pc # "exited"
    BY SMT
  <2>3. r.i = Len(events) + 1 /\ Len(events) + 1 \in 1..(Len(events) + 1)
    <3>1. r.i = Len(events) + 1
      BY Zenon, <2>1, <2>2, Through
    <3> QED
      BY SMT, <2>1, <3>1
  <2>4. ChildOK(r)
    BY Zenon DEF DInv
  <2>5. ASSUME NEW o \in Queue
        PROVE  QueueOK(v, o) /\ DecodeOK(v, o)
    <3>1. QueueOK(r, o) /\ DecodeOK(r, o)
      BY Zenon, <2>2, <2>4 DEF ChildOK
    <3>2. v.entry[o].batch_add = r.entry[o].batch_add /\ DecodeOK(v, o)
      <4>1. CASE o = q
        BY Zenon, <3>1, <4>1
      <4>2. CASE o # q
        BY Zenon, <3>1, <4>2 DEF DecodeOK
      <4> QED
        BY Zenon, <4>1, <4>2
    <3>3. QueueOK(v, o)
      <4>1. PICK i \in 1..(Len(events) + 1) : r.i = i /\ v.i = i
        BY Zenon, <2>3
      <4>2. v.batch = r.batch /\ v.queue[o] = r.queue[o] /\ Len(events) \in Nat
        BY Zenon, <2>1
      <4> HIDE DEF r
      <4> QED
        BY Zenon, <3>1, <3>2, <4>1, <4>2, <1>SkipQueue
    <3> QED
      BY Zenon, <3>2, <3>3
  <2>6. ChildOK(v)
    BY Zenon, <2>2, <2>5 DEF ChildOK
  <2> QED
    BY Zenon, <2>1, <2>6, <1>OneProcess
(* GetTrace keeps DInv. *)
<1>GetTraceKeepsD. ASSUME WellOrdered, IInv, DInv, NEW p \in Child, NEW q \in Queue, GetTrace(p, q)
                   PROVE  DInv'
  <2>. USE <1>GetTraceKeepsD
  <2> DEFINE r == procs[p]
             x == TraceAfter(r.trace[q], r.entry[q], r.queue[q])
             y == EntryAfter(r.entry[q], r.queue[q])
             v == [r EXCEPT !.trace[q] = x, !.entry[q] = y]
  <2>1. /\ Base /\ p \in Proc /\ p \in DOMAIN procs /\ r.pc = "decode" /\ scene' = scene /\ events' = events
        /\ r.entry[q].next <= Len(r.queue[q]) /\ DOMAIN r = Fields /\ Shaped(r)
    BY Zenon, Shape, ProcDomain DEF IInv, Base, GetTrace, DInv
  <2>2. procs' = [procs EXCEPT ![p].trace[q] = x, ![p].entry[q] = y]
    BY Zenon DEF GetTrace, TraceAfter, EntryAfter
  <2> HIDE DEF x, y
  <2>3. procs' = [procs EXCEPT ![p] = v]
    BY Zenon, <2>1, <2>2
  <2>4. Becomes(p, v)
    BY Zenon, <2>1, <2>3, Becoming
  <2>5. /\ v.pc = r.pc /\ v.i = r.i /\ v.batch = r.batch /\ v.queue = r.queue /\ v.seen = r.seen
        /\ v.trace = [r.trace EXCEPT ![q] = x] /\ v.entry = [r.entry EXCEPT ![q] = y]
    BY SMT, <2>1 DEF Fields
  <2> HIDE DEF v
  <2>6. DOMAIN r.trace = Queue /\ DOMAIN r.entry = Queue /\ DOMAIN r.queue = Queue /\ DOMAIN r.seen = Queue
    BY Zenon, <2>1 DEF Shaped, QueueFields
  <2>7. /\ Shaped(v) /\ v.entry[q] = y /\ v.trace[q] = x
        /\ \A o \in Queue : o # q => v.entry[o] = r.entry[o] /\ v.trace[o] = r.trace[o] /\ v.seen[o] = r.seen[o]
    BY Zenon, <2>5, <2>6 DEF Shaped, QueueFields
  <2>8. ASSUME QueueOK(r, q), DecodeOK(r, q)
        PROVE  v.entry[q].batch_add = r.entry[q].batch_add /\ DecodeOK(v, q)
    <3>1. /\ EntryOK(y, r.queue[q]) /\ y.batch_add = r.entry[q].batch_add
          /\ TraceOK(x, r.queue[q], y) /\ SeenOK(r.seen[q], r.queue[q], y)
      BY Zenon, <2>1, <2>8, <1>HandsOn DEF x, y
    <3> QED
      BY Zenon, <2>5, <2>7, <3>1 DEF DecodeOK
  <2> QED
    BY Zenon, <2>1, <2>4, <2>5, <2>7, <2>8, <1>DecodeKeepsD
(* Lookahead keeps DInv, however many buffers it looks at. *)
<1>LookaheadKeepsD. ASSUME WellOrdered, IInv, DInv, NEW p \in Child, NEW q \in Queue, Lookahead(p, q)
                    PROVE  DInv'
  <2>. USE <1>LookaheadKeepsD
  <2> DEFINE r == procs[p]
             n == r.entry[q]
             l(stop) == Looks(n, r.seen[q], r.queue[q], stop)[stop]
  <2>1. /\ Base /\ p \in Proc /\ p \in DOMAIN procs /\ r.pc = "decode" /\ scene' = scene /\ events' = events
        /\ DOMAIN r = Fields /\ Shaped(r)
    BY Zenon, Shape, ProcDomain DEF IInv, Base, Lookahead, DInv
  <2>2. PICK stop \in (n.next)..Len(r.queue[q]) :
          procs' = [procs EXCEPT ![p].entry[q] = l(stop).n, ![p].seen[q] = l(stop).seen, ![p].looks = @ + 1]
    BY Zenon DEF Lookahead, Looks
  <2> DEFINE x == l(stop).seen
             y == l(stop).n
             v == [r EXCEPT !.entry[q] = y, !.seen[q] = x, !.looks = @ + 1]
  <2> HIDE DEF l
  <2>3. procs' = [procs EXCEPT ![p] = v]
    BY Zenon, <2>1, <2>2
  <2>4. Becomes(p, v)
    BY Zenon, <2>1, <2>3, Becoming
  <2> HIDE DEF x, y
  <2>5. /\ v.pc = r.pc /\ v.i = r.i /\ v.batch = r.batch /\ v.queue = r.queue /\ v.trace = r.trace
        /\ v.seen = [r.seen EXCEPT ![q] = x] /\ v.entry = [r.entry EXCEPT ![q] = y]
    BY SMT, <2>1 DEF Fields
  <2> HIDE DEF v
  <2>6. DOMAIN r.trace = Queue /\ DOMAIN r.entry = Queue /\ DOMAIN r.queue = Queue /\ DOMAIN r.seen = Queue
    BY Zenon, <2>1 DEF Shaped, QueueFields
  <2>7. /\ Shaped(v) /\ v.entry[q] = y /\ v.seen[q] = x
        /\ \A o \in Queue : o # q => v.entry[o] = r.entry[o] /\ v.trace[o] = r.trace[o] /\ v.seen[o] = r.seen[o]
    BY Zenon, <2>5, <2>6 DEF Shaped, QueueFields
  <2>8. ASSUME QueueOK(r, q), DecodeOK(r, q)
        PROVE  v.entry[q].batch_add = r.entry[q].batch_add /\ DecodeOK(v, q)
    <3>1. /\ EntryOK(y, r.queue[q]) /\ y.batch_add = r.entry[q].batch_add
          /\ TraceOK(r.trace[q], r.queue[q], y) /\ SeenOK(x, r.queue[q], y)
      BY Zenon, <2>1, <2>2, <2>8, <1>LooksAll DEF x, y, l
    <3> QED
      BY Zenon, <2>5, <2>7, <3>1 DEF DecodeOK
  <2> QED
    BY Zenon, <2>1, <2>4, <2>5, <2>7, <2>8, <1>DecodeKeepsD
<1>. SUFFICES ASSUME WellOrdered, IInv, DInv, [Next]_vars
             PROVE  DInv'
  OBVIOUS
<1>0. Base /\ Parent \in Proc /\ Child \subseteq Proc /\ Parent \notin Child
  BY Zenon, Shape DEF IInv
<1>1. CASE Count \/ Counted
  <2>1. PICK v : Becomes(Parent, v) /\ SameQueues(v, procs[Parent]) /\ scene' = scene /\ events' = events
    <3>1. DOMAIN procs[Parent] = Fields
      BY Zenon, <1>0 DEF Base
    <3>2. CASE Count
      <4>1. SameQueues([procs[Parent] EXCEPT !.i = procs[Parent].i + 1], procs[Parent])
        BY SMT, <3>1 DEF Fields, SameQueues
      <4> QED
        BY Zenon, <1>0, <3>2, <4>1, CountStep DEF Count
    <3>3. CASE Counted
      <4>1. SameQueues([procs[Parent] EXCEPT !.pc = "add", !.i = 1], procs[Parent])
        BY SMT, <3>1 DEF Fields, SameQueues
      <4> QED
        BY Zenon, <1>0, <3>3, <4>1, CountedStep DEF Counted
    <3> QED
      BY Zenon, <1>1, <3>2, <3>3
  <2>2. Shaped(v) /\ \A q \in Queue : Untouched(v, q)
    BY Zenon, <1>0, <2>1, <1>SameShape DEF DInv
  <2> QED
    BY Zenon, <1>0, <2>1, <2>2, <1>OneProcess
<1>2. CASE ForkWorker
  BY Zenon, <1>2, <1>ForkKeepsD
<1>3. CASE WaitPid \/ UNCHANGED vars
  <2>1. scene' = scene /\ events' = events /\ procs' = procs
    BY Zenon, <1>3 DEF WaitPid, vars
  <2> QED
    BY Zenon, <2>1, <1>Unmoved DEF DInv, Proc, Child, Parent
<1>4. CASE ParentExit
  <2>1. procs' = [procs EXCEPT ![Parent].pc = "exited"] /\ scene' = scene /\ events' = events
    BY Zenon, <1>4 DEF ParentExit
  <2> QED
    BY Zenon, <1>0, <2>1, <1>PcKeepsD
<1>5. ASSUME NEW p \in Proc, SkipEvent(p) \/ KeepEvent(p)
      PROVE  DInv'
  BY Zenon, <1>5, <1>SkipKeepsD, <1>KeepKeepsD
<1>6. ASSUME NEW p \in Proc, IndexDone(p)
      PROVE  DInv'
  <2> DEFINE pc == IF p = Parent THEN "wait" ELSE "decode"
  <2>1. /\ procs[p].pc = "add" /\ procs[p].i > Len(events) /\ procs' = [procs EXCEPT ![p].pc = pc]
        /\ scene' = scene /\ events' = events
    BY Zenon, <1>6 DEF IndexDone
  <2>2. procs[p].pc # "count"
    BY SMT, <2>1
  <2>3. procs[p].i = Len(events) + 1
    BY Zenon, <2>1, <2>2, Through
  <2>4. p \in Child => pc \in {"decode", "exited"} /\ pc # "exited"
    BY SMT, <1>0
  <2> HIDE DEF pc
  <2> QED
    BY Zenon, <2>1, <2>3, <2>4, <1>PcKeepsD
<1>7. ASSUME NEW p \in Child, ChildExit(p)
      PROVE  DInv'
  <2>1. /\ procs[p].pc = "decode" /\ procs' = [procs EXCEPT ![p].pc = "exited"] /\ scene' = scene /\ events' = events
        /\ \A q \in Queue : procs[p].entry[q].next > Len(procs[p].queue[q])
    BY Zenon, <1>7 DEF ChildExit
  <2>2. procs[p].pc # "count" /\ procs[p].pc # "add"
    BY SMT, <2>1
  <2>3. procs[p].i = Len(events) + 1
    BY Zenon, <1>0, <2>2, Through
  <2> QED
    BY Zenon, <1>0, <2>1, <2>3, <1>PcKeepsD
<1>8. ASSUME NEW p \in Child, NEW q \in Queue, GetTrace(p, q) \/ Lookahead(p, q)
      PROVE  DInv'
  BY Zenon, <1>8, <1>GetTraceKeepsD, <1>LookaheadKeepsD
<1> QED
  BY Zenon, <1>1, <1>2, <1>3, <1>4, <1>5, <1>6, <1>7, <1>8 DEF Next

(* DInv holds at the start. *)
LEMMA DInitially ==
  ASSUME Init
  PROVE  DInv
<1>1. /\ procs = <<Process>> /\ procs[Parent] = Process /\ Proc = {1} /\ Child = {}
  BY SMT DEF Init, Proc, Child, Parent
<1>2. /\ Process.queue = [q \in Queue |-> <<>>] /\ Process.entry = [q \in Queue |-> CacheEntry]
      /\ Process.trace = [q \in Queue |-> <<>>] /\ Process.seen = [q \in Queue |-> {}]
  BY Zenon DEF Process
<1>3. Shaped(Process) /\ \A q \in Queue : Untouched(Process, q)
  BY Zenon, <1>2 DEF Shaped, QueueFields, Untouched
<1> QED
  BY Zenon, <1>1, <1>3 DEF DInv, Parent

-----------------------------------------------------------------------------
(* What the sequential `perf script' reads of a queue *)
Kept(q, e) == events[e].q = q /\ ~Filtered(e)
Piece(q, e) == IF events[e].q = q /\ ~Filtered(e) THEN Atoms(e, Len(events[e].data)) ELSE <<>>
Uptos(q) ==
  LET upto[e \in 0..Len(events)] ==
        IF e = 0 THEN <<>>
        ELSE upto[e - 1]
             \o (IF events[e].q = q /\ ~Filtered(e) THEN Atoms(e, Len(events[e].data)) ELSE <<>>)
  IN  upto
Upto(f, q, k) == f = [e \in 0..k |-> IF e = 0 THEN <<>> ELSE f[e - 1] \o Piece(q, e)]

InStream(q, k, x) == \E e \in 1..k : Kept(q, e) /\ \E j \in 1..Len(events[e].data) : x = <<e, j>>

(* Atoms of the queue's events, in the order of the index *)
StreamOK(t, q, k) == t \in Seq(Pair) /\ InOrder(t) /\ \A x : x \in Members(t) <=> InStream(q, k, x)

-----------------------------------------------------------------------------
(* A child's share of a queue *)
Rising(Q) == \A k, l \in 1..Len(Q) : k < l => Q[k] < Q[l]

-----------------------------------------------------------------------------
(* What a child that decodes has of a queue *)
LEMMA Reads ==
  ASSUME IInv, DInv, NEW c \in Child, NEW q \in Queue, procs[c].pc # "add"
  PROVE  LET r == procs[c]
             Q == r.queue[q]
             a == r.entry[q].batch_add
             t == r.trace[q]
         IN  /\ r.i = Len(events) + 1
             /\ Q \in Seq(1..Len(events)) /\ Rising(Q) /\ a \in Nat
             /\ \A k \in 1..Len(Q) : /\ Kept(q, Q[k]) /\ (\E b \in r.batch : b <= Q[k])
                                     /\ k <= a <=> Q[k] \in r.batch
             /\ \A e \in 1..Len(events) : Kept(q, e) /\ (\E b \in r.batch : b <= e)
                                            => \E k \in 1..Len(Q) : Q[k] = e
             /\ t \in Seq(Pair) /\ InOrder(t)
             /\ \A x \in Members(t) : InShare(Q, a, Len(Q), x)
             /\ r.pc = "exited" => \A x : InShare(Q, a, Len(Q), x) => x \in Members(t)
<1> DEFINE r == procs[c]
           Q == r.queue[q]
           n == r.entry[q]
           a == n.batch_add
           t == r.trace[q]
<1>1. /\ QueueOK(r, q) /\ EntryOK(n, Q) /\ TraceOK(t, Q, n)
      /\ r.pc = "exited" => n.next > Len(Q)
  BY Zenon DEF DInv, ChildOK, DecodeOK
<1>2. c \in Proc /\ c # Parent /\ Len(events) \in Nat /\ Base
  BY Zenon, Shape DEF IInv
<1>3. r.i = Len(events) + 1
  <2>1. r.pc # "count"
    BY Zenon, <1>2 DEF Base
  <2> QED
    BY Zenon, <1>2, <2>1, Through
<1>4. r.i - 1 = Len(events)
  BY SMT, <1>2, <1>3
<1>5. /\ Q \in Seq(1..Len(events)) /\ Rising(Q) /\ a \in 0..Len(Q)
      /\ \A k \in 1..Len(Q) : /\ Kept(q, Q[k]) /\ (\E b \in r.batch : b <= Q[k])
                              /\ k <= a <=> Q[k] \in r.batch
  BY Zenon, <1>1 DEF QueueOK, Rising, Kept
<1>6. \A e \in 1..Len(events) : Kept(q, e) /\ (\E b \in r.batch : b <= e) => \E k \in 1..Len(Q) : Q[k] = e
  BY Zenon, <1>1, <1>4 DEF QueueOK, Kept
<1>7. t \in Seq(Pair) /\ InOrder(t) /\ \A x : x \in Members(t) <=> InShare(Q, a, n.next - 1, x)
  BY Zenon, <1>1 DEF TraceOK
<1>8. n.next \in 1..(Len(Q) + 1) /\ Len(Q) \in Nat
  <2>1. n.next \in 1..(Len(Q) + 1)
    BY Zenon, <1>1 DEF EntryOK
  <2> QED
    BY SMT, <1>5, <2>1
<1> HIDE DEF r, Q, n, t
<1>9. a \in Nat /\ (\A k \in 1..(n.next - 1) : k \in 1..Len(Q)) /\ (n.next > Len(Q) => n.next - 1 = Len(Q))
  BY SMT, <1>5, <1>8
<1>10. \A x \in Members(t) : InShare(Q, a, Len(Q), x)
  BY Zenon, <1>7, <1>9 DEF InShare
<1>11. r.pc = "exited" => \A x : InShare(Q, a, Len(Q), x) => x \in Members(t)
  BY Zenon, <1>1, <1>7, <1>9
<1> QED
  BY Zenon, <1>3, <1>5, <1>6, <1>7, <1>9, <1>10, <1>11 DEF r, Q, n, t

(* Range of the library, for sequences *)
LEMMA Ranges ==
  ASSUME NEW R, NEW t \in Seq(R)
  PROVE  Range(t) = Members(t)
<1>1. DOMAIN t = 1..Len(t)
  BY SMT
<1> QED
  BY Zenon, <1>1 DEF Range, Members

(* What lookahead() has shown is in the trace of a child that has exited:  *)
(* both are of its share, and the trace is all of it.                      *)
LEMMA ShareLooks ==
  ASSUME IInv, DInv
  PROVE  LookaheadInShare
<1> SUFFICES ASSUME NEW c \in Child, procs[c].pc = "exited", NEW q \in Queue
             PROVE  procs[c].seen[q] \subseteq Range(procs[c].trace[q])
  BY Zenon DEF LookaheadInShare
<1>1. procs[c].pc # "add"
  BY SMT
<1> DEFINE Q == procs[c].queue[q]
           a == procs[c].entry[q].batch_add
           t == procs[c].trace[q]
<1>2. t \in Seq(Pair) /\ \A x : InShare(Q, a, Len(Q), x) => x \in Members(t)
  BY Zenon, <1>1, Reads
<1>3. SeenOK(procs[c].seen[q], Q, procs[c].entry[q])
  BY Zenon, <1>1 DEF DInv, ChildOK, DecodeOK
<1>4. \A x \in procs[c].seen[q] : x \in Members(t)
  BY Zenon, <1>2, <1>3 DEF SeenOK
<1>5. Range(t) = Members(t)
  BY Zenon, <1>2, Ranges
<1> QED
  BY Zenon, <1>4, <1>5

-----------------------------------------------------------------------------
(* Decoding *)
LEMMA DecodesBy ==
  ASSUME NEW t, NEW x \in Decoded(t)
  PROVE  \E k \in 1..Len(t), s \in SyncAt(t) : s <= k /\ x = t[k]
  BY Zenon DEF Decoded

(* An atom of a share is one of an event. *)
AtomOf(Q, x) ==
  \E k \in 1..Len(Q) : \E j \in 1..Len(events[Q[k]].data) : x = <<Q[k], j>> /\ Atom(x) = events[Q[k]].data[j]

(* An atom of the share is an atom of a queued buffer. *)
LEMMA ShareAtom ==
  ASSUME WellOrdered, Base, NEW Q \in Seq(1..Len(events)), NEW a, NEW x, InShare(Q, a, Len(Q), x)
  PROVE  AtomOf(Q, x)
<1>1. PICK k \in 1..Len(Q) : \E j \in 1..ShareOf(Q, a, k) : x = <<Q[k], j>>
  BY Zenon DEF InShare
<1>2. PICK j \in 1..ShareOf(Q, a, k) : x = <<Q[k], j>>
  BY Zenon, <1>1
<1>3. Len(events[Q[k]].data) \in Nat
  BY Zenon, Element, EventSize DEF Base
<1>4. ShareOf(Q, a, k) \in Nat /\ ShareOf(Q, a, k) <= Len(events[Q[k]].data)
  BY Zenon, <1>3, ShareNat
<1>5. j \in 1..Len(events[Q[k]].data)
  BY SMT, <1>3, <1>4
<1>6. x[1] = Q[k] /\ x[2] = j
  BY SMT, <1>2
<1>7. Atom(x) = events[Q[k]].data[j]
  BY Zenon, <1>6 DEF Atom
<1> QED
  BY Zenon, <1>2, <1>5, <1>7 DEF AtomOf

(* Two children decode nothing in common when no PSB is split: the share   *)
(* of the first ends before the first PSB of the batches behind its own,   *)
(* where the second starts to decode.                                      *)
LEMMA AtMostOne == WellOrdered /\ IInv /\ DInv => WholeDecodedOnce
(* A child's share ends before any PSB of a buffer behind the batch. *)
<1>Stops. ASSUME WellOrdered, Base, NEW Q \in Seq(1..Len(events)), Rising(Q), NEW a \in Nat, NEW x, InShare(Q, a, Len(Q), x),
                 NEW l \in 1..Len(Q), ~(l <= a), NEW j \in PsbAt(Q[l])
          PROVE  Lex(x, <<Q[l], j>>)
  <2>. USE <1>Stops
  <2>1. PICK k \in 1..Len(Q) : \E h \in 1..ShareOf(Q, a, k) : x = <<Q[k], h>>
    BY Zenon DEF InShare
  <2>2. PICK h \in 1..ShareOf(Q, a, k) : x = <<Q[k], h>>
    BY Zenon, <2>1
  <2>3. Len(events) \in Nat /\ Q[k] \in 1..Len(events) /\ Len(events[Q[k]].data) \in Nat
    BY Zenon, Shape, Element, EventSize DEF Base
  <2>4. k \in Nat /\ l \in Nat /\ Len(Q) \in Nat
    BY SMT
  <2>5. CASE k < l
    <3>1. Q[k] < Q[l]
      BY Zenon, <2>5 DEF Rising
    <3> QED
      BY SMT, <2>2, <3>1 DEF Lex
  <2>6. CASE ~(k < l)
    <3>1. ~(k <= a)
      BY SMT, <2>4, <2>6
    <3>2. a # 0
      <4>1. a = 0 => ShareOf(Q, a, k) = 0
        BY Zenon DEF ShareOf
      <4> QED
        BY SMT, <2>2, <4>1
    <3>3. NoPsb(Q, a, k - 1)
      <4>1. ~NoPsb(Q, a, k - 1) => ShareOf(Q, a, k) = 0
        BY Zenon, <3>1, <3>2 DEF ShareOf
      <4>2. ShareOf(Q, a, k) # 0
        BY SMT, <2>2
      <4> QED
        BY Zenon, <4>1, <4>2
    <3>4. k = l
      <4>1. l \in (a + 1)..(k - 1) \/ k = l
        BY SMT, <2>4, <2>6
      <4> QED
        BY Zenon, <3>3, <4>1 DEF NoPsb
    <3>5. ShareOf(Q, a, k) = BeforePsb(Q[k])
      BY Zenon, <3>1, <3>2, <3>3 DEF ShareOf
    <3>6. BeforePsb(Q[k]) < j /\ BeforePsb(Q[k]) \in 0..Len(events[Q[k]].data) /\ j \in Nat
      <4>1. j \in PsbAt(Q[k])
        BY Zenon, <3>4
      <4>2. j \in 1..Len(events[Q[k]].data)
        BY Zenon, <4>1 DEF PsbAt
      <4>3. j \in Nat
        BY SMT, <2>3, <4>2
      <4> QED
        BY Zenon, <2>3, <4>1, <4>3, FirstPsb
    <3>7. h < j
      BY SMT, <2>2, <2>3, <3>5, <3>6
    <3> QED
      BY SMT, <2>2, <3>4, <3>7 DEF Lex
  <2> QED
    BY Zenon, <2>5, <2>6
(* The batch of a later child is behind that of an earlier one. *)
<1>Ahead. ASSUME IInv, NEW c \in Child, NEW d \in Child, c < d, procs[c].i = Len(events) + 1,
                 NEW b \in procs[d].batch, NEW e \in 1..Len(events), b <= e
          PROVE  e \notin procs[c].batch /\ \E a \in procs[c].batch : a <= e
  <2>. USE <1>Ahead
  <2>0. Base /\ c \in Proc /\ d \in Proc
    BY Zenon, Shape DEF IInv
  <2>1. PICK S, T, F : Splitting(S, T, F)
    <3>1. procs[Parent].pc # "count"
      <4>1. CASE procs[Parent].pc = "count"
        <5>1. Len(procs) = 1
          BY Zenon, <4>1 DEF IInv, Counting
        <5> QED
          BY SMT, <5>1 DEF Child
      <4> QED
        BY Zenon, <4>1
    <3> QED
      BY Zenon, <3>1 DEF IInv
  <2>2. /\ F[c] \in 1..Len(events) /\ F[d] \in 1..Len(events) /\ F[c] < F[d] /\ ~Filtered(F[c])
        /\ Threshold(d - 2) <= Reached(S, T, F[d] - 1)
    BY Zenon, <2>1 DEF Splitting, Firsts
  <2>3. Len(events) \in Nat /\ c \in Nat /\ d \in Nat /\ c >= 2 /\ d >= 2
    BY Zenon, <2>0, Shape
  <2>4. /\ procs[c].batch = {x \in 1..(procs[c].i - 1) : Takes(S, T, F, c, x)}
        /\ procs[d].batch = {x \in 1..(procs[d].i - 1) : Takes(S, T, F, d, x)}
        /\ procs[d].i \in 1..(Len(events) + 1)
    BY Zenon, <2>0, <2>1 DEF Splitting, Batches, Counters
  <2>5. b \in 1..(procs[d].i - 1) /\ (b = F[d] \/ F[d] < b)
    BY Zenon, <2>4 DEF Takes
  <2>6. F[d] <= e /\ F[c] < e /\ F[c] # e /\ F[c] <= e
    BY SMT, <2>2, <2>3, <2>4, <2>5
  <2>7. F[c] \in procs[c].batch
    <3>1. F[c] \in 1..(procs[c].i - 1)
      BY SMT, <2>2, <2>3
    <3> QED
      BY Zenon, <2>2, <2>4, <3>1 DEF Takes
  <2>8. ASSUME e \in procs[c].batch
        PROVE  FALSE
    <3>1. Reached(S, T, e - 1) < Threshold(c - 1)
      BY Zenon, <2>4, <2>6, <2>8 DEF Takes
    <3>2. /\ e - 1 \in 0..Len(events) /\ F[d] - 1 \in 0..Len(events) /\ F[d] - 1 <= e - 1
          /\ c - 1 \in Nat /\ d - 2 \in Nat /\ c - 1 <= d - 2
      <4>1. F[d] \in 1..Len(events) /\ F[d] <= e
        BY Zenon, <2>2, <2>6
      <4>2. c - 1 \in Nat /\ d - 2 \in Nat /\ c - 1 <= d - 2
        BY SMT, <2>3
      <4> QED
        BY SMT, <2>3, <4>1, <4>2
    <3>3. /\ Threshold(c - 1) <= Threshold(d - 2)
          /\ Reached(S, T, F[d] - 1) <= Reached(S, T, e - 1)
          /\ Threshold(c - 1) \in Nat /\ Threshold(d - 2) \in Nat
          /\ Reached(S, T, F[d] - 1) \in Nat /\ Reached(S, T, e - 1) \in Nat
      BY Zenon, <2>0, <2>1, <3>2, Thresholds DEF Splitting, Base
    <3> QED
      BY SMT, <2>2, <3>1, <3>3
  <2> QED
    BY Zenon, <2>6, <2>7, <2>8
(* A child decodes nothing that a child forked later decodes. *)
<1>Once. ASSUME WellOrdered, IInv, DInv, \A e \in 1..Len(events) : "(" \notin Range(events[e].data),
                NEW c \in Child, NEW d \in Child, c < d, NEW q \in Queue,
                NEW x, x \in Decoded(procs[c].trace[q]), x \in Decoded(procs[d].trace[q])
         PROVE  FALSE
  <2>. USE <1>Once
  <2> DEFINE t == procs[c].trace[q]
             u == procs[d].trace[q]
             Q == procs[c].queue[q]
             W == procs[d].queue[q]
             a == procs[c].entry[q].batch_add
             w == procs[d].entry[q].batch_add
  <2>0. Base /\ Len(events) \in Nat
    BY Zenon, Shape DEF IInv
  <2>1. PICK n \in 1..Len(t), z \in SyncAt(t) : x = t[n]
    BY Zenon, DecodesBy
  <2>2. PICK m \in 1..Len(u), s \in SyncAt(u) : s <= m /\ x = u[m]
    BY Zenon, DecodesBy
  <2>3. procs[c].pc # "add" /\ procs[d].pc # "add"
    <3>1. \A i \in 1..Len(<<>>) : FALSE
      BY SMT
    <3>2. t # <<>> /\ u # <<>>
      BY Zenon, <2>1, <2>2, <3>1
    <3> QED
      BY Zenon, <3>2 DEF DInv, ChildOK, Fresh
  <2>4. /\ procs[c].i = Len(events) + 1
        /\ Q \in Seq(1..Len(events)) /\ Rising(Q) /\ a \in Nat
        /\ \A k \in 1..Len(Q) : k <= a <=> Q[k] \in procs[c].batch
        /\ \A e \in 1..Len(events) : Kept(q, e) /\ (\E b \in procs[c].batch : b <= e)
                                       => \E k \in 1..Len(Q) : Q[k] = e
        /\ t \in Seq(Pair) /\ \A y \in Members(t) : InShare(Q, a, Len(Q), y)
    BY Zenon, <2>3, Reads
  <2>5. /\ W \in Seq(1..Len(events))
        /\ \A k \in 1..Len(W) : Kept(q, W[k]) /\ (\E b \in procs[d].batch : b <= W[k])
        /\ u \in Seq(Pair) /\ InOrder(u) /\ \A y \in Members(u) : InShare(W, w, Len(W), y)
    BY Zenon, <2>3, Reads
  <2> HIDE DEF t, u, Q, W, a, w
  <2>6. s \in 1..Len(u) /\ (Atom(u[s]) = "P" \/ Atom(u[s]) = "(")
    BY Zenon, <2>2 DEF SyncAt
  <2>7. PICK k \in 1..Len(W) : \E j \in 1..Len(events[W[k]].data) :
          u[s] = <<W[k], j>> /\ Atom(u[s]) = events[W[k]].data[j]
    <3>1. InShare(W, w, Len(W), u[s])
      BY Zenon, <2>5, <2>6 DEF Members
    <3>2. PICK y : y = u[s]
      BY Zenon
    <3>3. InShare(W, w, Len(W), y)
      BY Zenon, <3>1, <3>2
    <3>4. AtomOf(W, y)
      BY Zenon, <2>0, <2>5, <3>3, ShareAtom
    <3> QED
      BY Zenon, <3>2, <3>4 DEF AtomOf
  <2>7a. PICK j \in 1..Len(events[W[k]].data) : u[s] = <<W[k], j>> /\ Atom(u[s]) = events[W[k]].data[j]
    BY Zenon, <2>7
  <2> DEFINE e == W[k]
  <2>8. e \in 1..Len(events) /\ Kept(q, e) /\ \E b \in procs[d].batch : b <= e
    BY Zenon, <2>5, Element
  <2>9. j \in PsbAt(e)
    <3>1. events[e].data \in Seq({"P", "(", ")", "d"})
      <4>1. events[e] \in [q : Queue, data : Seq({"P", "(", ")", "d"})]
        BY Zenon, <2>0, <2>8, Constants, Element DEF Base
      <4> QED
        BY SMT, <4>1
    <3>2. events[e].data[j] \in Range(events[e].data)
      BY Zenon, <3>1, Ranges DEF Members
    <3>3. Atom(u[s]) # "("
      BY Zenon, <2>7a, <2>8, <3>2
    <3> QED
      BY Zenon, <2>6, <2>7a, <3>3 DEF PsbAt
  <2>10. e \notin procs[c].batch /\ \E b \in procs[c].batch : b <= e
    <3>1. PICK b \in procs[d].batch : b <= e
      BY Zenon, <2>8
    <3> HIDE DEF e
    <3> QED
      BY Zenon, <2>4, <2>8, <3>1, <1>Ahead
  <2>11. PICK l \in 1..Len(Q) : Q[l] = e /\ ~(l <= a)
    BY Zenon, <2>4, <2>8, <2>10
  <2>12. Lex(x, u[s])
    <3>1. InShare(Q, a, Len(Q), x)
      BY Zenon, <2>1, <2>4 DEF Members
    <3>2. j \in PsbAt(Q[l])
      BY Zenon, <2>9, <2>11
    <3>3. Lex(x, <<Q[l], j>>)
      BY Zenon, <2>0, <2>4, <2>11, <3>1, <3>2, <1>Stops
    <3> QED
      BY Zenon, <2>7a, <2>11, <3>3
  <2>13. m < s
    BY Zenon, <2>2, <2>5, <2>6, <2>12, Positions
  <2> QED
    BY SMT, <2>2, <2>6, <2>13
<1>. SUFFICES ASSUME WellOrdered, IInv, DInv
             PROVE  WholeDecodedOnce
  OBVIOUS
<1> SUFFICES ASSUME \A e \in 1..Len(events) : "(" \notin Range(events[e].data),
                    NEW c \in Child, NEW d \in Child, c # d, NEW q \in Queue,
                    NEW x, x \in Decoded(procs[c].trace[q]), x \in Decoded(procs[d].trace[q])
             PROVE  FALSE
  BY Zenon DEF WholeDecodedOnce, DecodedOnce
<1>1. c \in Nat /\ d \in Nat
  BY Zenon, Shape DEF IInv
<1>2. c < d \/ d < c
  BY SMT, <1>1
<1> QED
  BY Zenon, <1>2, <1>Once

(* What one process decodes is decoded by a child: the child that has the  *)
(* last PSB up to the atom in its batch has the atom in its share.         *)
LEMMA AtLeastOne == WellOrdered /\ IInv /\ DInv => NothingLost
(* The recursive function of Stream exists. *)
<1>UptoExists. ASSUME WellOrdered, NEW q, Len(events) \in Nat
               PROVE  Upto(Uptos(q), q, Len(events))
  <2>. USE <1>UptoExists
  <2> DEFINE Bad == {x \in Nat : ~(\E f : Upto(f, q, x))}
  <2>1. \E f : Upto(f, q, 0)
    <3> DEFINE f == [e \in 0..0 |-> <<>>]
    <3>1. \A e \in 0..0 : e = 0
      BY SMT
    <3>2. Upto(f, q, 0)
      BY Zenon, <3>1 DEF Upto
    <3> QED
      BY Zenon, <3>2
  <2>2. ASSUME NEW x \in Nat, x # 0, NEW f, Upto(f, q, x - 1)
        PROVE  \E g : Upto(g, q, x)
    <3> DEFINE g == [e \in 0..x |-> IF e = x THEN f[x - 1] \o Piece(q, x) ELSE f[e]]
    <3>1. /\ x \in 0..x /\ x - 1 \in 0..x /\ x - 1 # x /\ x - 1 \in 0..(x - 1)
          /\ \A e \in 0..x : e # x => e \in 0..(x - 1)
          /\ \A e \in 0..(x - 1) : e # x /\ e \in 0..x /\ (e # 0 => e - 1 \in 0..(x - 1))
      BY SMT, <2>2
    <3>2. \A e \in 0..(x - 1) : f[e] = IF e = 0 THEN <<>> ELSE f[e - 1] \o Piece(q, e)
      BY Zenon, <2>2 DEF Upto
    <3>3. \A e \in 0..(x - 1) : g[e] = f[e]
      BY Zenon, <3>1
    <3>4. g[x] = g[x - 1] \o Piece(q, x)
      BY Zenon, <3>1, <3>3
    <3>5. \A e \in 0..x : g[e] = IF e = 0 THEN <<>> ELSE g[e - 1] \o Piece(q, e)
      <4> SUFFICES ASSUME NEW e \in 0..x
                   PROVE  g[e] = IF e = 0 THEN <<>> ELSE g[e - 1] \o Piece(q, e)
        BY Zenon
      <4> HIDE DEF g
      <4>1. CASE e = x
        BY Zenon, <4>1, <2>2, <3>1, <3>4
      <4>2. CASE e # x
        BY Zenon, <4>2, <3>1, <3>2, <3>3
      <4> QED
        BY Zenon, <4>1, <4>2
    <3>6. g = [e \in 0..x |-> g[e]]
      BY Zenon
    <3> HIDE DEF g
    <3>7. Upto(g, q, x)
      BY Zenon, <3>5, <3>6 DEF Upto
    <3> QED
      BY Zenon, <3>7
  <2>3. Bad = {}
    <3> SUFFICES ASSUME Bad # {}
                 PROVE  FALSE
      BY Zenon
    <3>1. PICK x \in Bad : \A y \in Bad : x <= y
      BY Zenon, LeastNat
    <3>2. x \in Nat /\ x # 0
      BY Zenon, <2>1, <3>1
    <3> HIDE DEF Bad
    <3>3. x - 1 \in Nat /\ ~(x <= x - 1)
      BY SMT, <3>2
    <3>4. \E f : Upto(f, q, x - 1)
      BY Zenon, <3>1, <3>3 DEF Bad
    <3> QED
      BY Zenon, <2>2, <3>1, <3>2, <3>4 DEF Bad
  <2>4. \E f : Upto(f, q, Len(events))
    BY Zenon, <2>3
  <2> QED
    BY Zenon, <2>4 DEF Uptos, Upto, Piece
(* One event more of the stream *)
<1>StreamGrows. ASSUME Base, NEW q, NEW k \in Nat, k # 0, k <= Len(events), NEW t, StreamOK(t, q, k - 1)
                PROVE  StreamOK(t \o Piece(q, k), q, k)
  <2>. USE <1>StreamGrows
  <2>1. k \in 1..Len(events) /\ 1..k = 1..(k - 1) \cup {k} /\ k \in Nat /\ \A e \in 1..(k - 1) : e < k
    <3>1. Len(events) \in Nat
      BY Zenon, Shape
    <3> QED
      BY SMT, <3>1
  <2>2. Len(events[k].data) \in Nat
    BY Zenon, <2>1, EventSize DEF Base
  <2>3. t \in Seq(Pair) /\ InOrder(t) /\ \A x : x \in Members(t) <=> InStream(q, k - 1, x)
    BY Zenon DEF StreamOK
  <2>4. CASE Kept(q, k)
    <3> DEFINE len == Len(events[k].data)
               u == t \o Atoms(k, len)
    <3>1. Piece(q, k) = Atoms(k, len)
      BY Zenon, <2>4 DEF Piece, Kept
    <3>2. ASSUME NEW x \in Members(t)
          PROVE  x[1] < k
      <4>1. PICK e \in 1..(k - 1) : \E j \in 1..Len(events[e].data) : x = <<e, j>>
        BY Zenon, <2>3 DEF InStream
      <4>2. x[1] = e
        BY SMT, <4>1
      <4> QED
        BY Zenon, <2>1, <4>2
    <3> HIDE DEF len
    <3>3. len \in Nat
      BY Zenon, <2>2 DEF len
    <3>4. u \in Seq(Pair) /\ InOrder(u) /\ Members(u) = Members(t) \cup {<<k, j>> : j \in 1..len}
      BY Zenon, <2>1, <2>3, <3>2, <3>3, Longer
    <3>5. \A x : InStream(q, k, x) <=> InStream(q, k - 1, x) \/ \E j \in 1..len : x = <<k, j>>
      BY Zenon, <2>1, <2>4 DEF InStream, len
    <3> HIDE DEF u
    <3>6. \A x : x \in Members(u) <=> InStream(q, k, x)
      BY Zenon, <2>3, <3>4, <3>5
    <3> QED
      BY Zenon, <3>1, <3>4, <3>6 DEF StreamOK, u
  <2>5. CASE ~Kept(q, k)
    <3>1. Piece(q, k) = <<>>
      BY Zenon, <2>5 DEF Piece, Kept
    <3>2. t \o <<>> = t
      BY SMT, <2>3
    <3>3. \A x : InStream(q, k, x) <=> InStream(q, k - 1, x)
      BY Zenon, <2>1, <2>5 DEF InStream
    <3> QED
      BY Zenon, <2>3, <3>1, <3>2, <3>3 DEF StreamOK
  <2> QED
    BY Zenon, <2>4, <2>5
(* The stream of a queue holds the atoms of its buffers, in their order. *)
<1>StreamIs. ASSUME WellOrdered, Base, NEW q
             PROVE  StreamOK(Stream(q), q, Len(events))
  <2>. USE <1>StreamIs
  <2> DEFINE f == Uptos(q)
             Bad == {k \in Nat : k <= Len(events) /\ ~StreamOK(f[k], q, k)}
  <2>1. Len(events) \in Nat /\ Len(events) <= Len(events)
    <3>1. Len(events) \in Nat
      BY Zenon, Shape
    <3> QED
      BY SMT, <3>1
  <2>2. Upto(f, q, Len(events)) /\ Stream(q) = f[Len(events)]
    BY Zenon, <2>1, <1>UptoExists DEF Stream, Uptos
  <2> HIDE DEF f
  <2>3. \A k \in 0..Len(events) : f[k] = IF k = 0 THEN <<>> ELSE f[k - 1] \o Piece(q, k)
    BY Zenon, <2>2 DEF Upto
  <2>4. StreamOK(<<>>, q, 0)
    <3>1. <<>> \in Seq(Pair) /\ Members(<<>>) = {} /\ InOrder(<<>>) /\ 1..0 = {}
      BY SMT DEF Members, InOrder
    <3> QED
      BY Zenon, <3>1 DEF StreamOK, InStream
  <2>5. Bad = {}
    <3> SUFFICES ASSUME Bad # {}
                 PROVE  FALSE
      BY Zenon
    <3>1. PICK k \in Bad : \A y \in Bad : k <= y
      BY Zenon, LeastNat
    <3>2. k \in Nat /\ k <= Len(events) /\ ~StreamOK(f[k], q, k)
      BY Zenon, <3>1
    <3> HIDE DEF Bad
    <3>3. k \in 0..Len(events)
      BY SMT, <2>1, <3>2
    <3>4. k # 0
      BY Zenon, <2>3, <2>4, <3>2, <3>3
    <3>5. k - 1 \in Nat /\ k - 1 <= Len(events) /\ ~(k <= k - 1)
      BY SMT, <2>1, <3>2, <3>4
    <3>6. StreamOK(f[k - 1], q, k - 1)
      BY Zenon, <3>1, <3>5 DEF Bad
    <3>7. f[k] = f[k - 1] \o Piece(q, k)
      BY Zenon, <2>3, <3>3, <3>4
    <3> QED
      BY Zenon, <3>2, <3>4, <3>6, <3>7, <1>StreamGrows
  <2> QED
    BY Zenon, <2>1, <2>2, <2>5
(* A child's share does not end before a PSB behind the batch. *)
<1>Holds. ASSUME WellOrdered, Base, NEW Q \in Seq(1..Len(events)), Rising(Q), NEW a \in Nat, a # 0,
                 NEW k \in 1..Len(Q), NEW h \in 1..Len(events[Q[k]].data),
                 \A l \in 1..Len(Q) : ~(l <= a) => \A j \in PsbAt(Q[l]) : Lex(<<Q[k], h>>, <<Q[l], j>>)
          PROVE  InShare(Q, a, Len(Q), <<Q[k], h>>)
  <2>. USE <1>Holds
  <2>1. Len(events) \in Nat /\ Q[k] \in 1..Len(events) /\ Len(events[Q[k]].data) \in Nat
    BY Zenon, Shape, Element, EventSize DEF Base
  <2>2. k \in Nat /\ Len(Q) \in Nat /\ h \in Nat /\ h <= Len(events[Q[k]].data)
    BY SMT, <2>1
  <2>3. h \in 1..ShareOf(Q, a, k)
    <3>1. CASE k <= a
      BY Zenon, <3>1 DEF ShareOf
    <3>2. CASE ~(k <= a)
      <4>1. NoPsb(Q, a, k - 1)
        <5> SUFFICES ASSUME NEW l \in (a + 1)..(k - 1), NEW j \in PsbAt(Q[l])
                     PROVE  FALSE
          BY Zenon DEF NoPsb
        <5>1. l \in 1..Len(Q) /\ ~(l <= a) /\ l < k
          BY SMT, <2>2
        <5>2. Lex(<<Q[k], h>>, <<Q[l], j>>)
          BY Zenon, <5>1
        <5>3. Q[l] < Q[k]
          BY Zenon, <5>1 DEF Rising
        <5>4. Q[l] \in 1..Len(events)
          BY Zenon, <5>1, Element
        <5> QED
          BY SMT, <2>1, <5>2, <5>3, <5>4 DEF Lex
      <4>2. \A j \in PsbAt(Q[k]) : h < j
        <5> SUFFICES ASSUME NEW j \in PsbAt(Q[k])
                     PROVE  h < j
          BY Zenon
        <5>1. Lex(<<Q[k], h>>, <<Q[k], j>>)
          BY Zenon, <3>2
        <5> QED
          BY SMT, <2>1, <5>1 DEF Lex
      <4>3. h <= BeforePsb(Q[k]) /\ BeforePsb(Q[k]) \in 0..Len(events[Q[k]].data)
        BY Zenon, <2>1, <2>2, <4>2, FirstPsb
      <4>4. h \in 1..BeforePsb(Q[k])
        BY SMT, <2>1, <4>3
      <4> QED
        BY Zenon, <3>2, <4>1, <4>4 DEF ShareOf
    <3> QED
      BY Zenon, <3>1, <3>2
  <2> QED
    BY Zenon, <2>3 DEF InShare
(* The greatest element of a nonempty bounded set *)
<1>GreatestNat. ASSUME WellOrdered, NEW S \in SUBSET Nat, S # {}, NEW k \in Nat, \A m \in S : m <= k
                PROVE  \E i \in S : \A j \in S : j <= i
  <2>. USE <1>GreatestNat
  <2> DEFINE D == {n \in Nat : \E m \in S : n = k - m}
  <2>1. \A m \in S : k - m \in Nat
    BY SMT
  <2>2. D # {} /\ D \in SUBSET Nat
    BY Zenon, <2>1
  <2>3. PICK n \in D : \A l \in D : n <= l
    BY Zenon, <2>2, LeastNat
  <2>4. PICK i \in S : n = k - i
    BY Zenon, <2>3
  <2>5. \A j \in S : k - i <= k - j
    BY Zenon, <2>1, <2>3, <2>4
  <2> QED
    BY SMT, <2>5
(* What a child decodes is in the queue. *)
<1>ShareInStream. ASSUME WellOrdered, Base, NEW q, NEW Q \in Seq(1..Len(events)), \A k \in 1..Len(Q) : Kept(q, Q[k]),
                         NEW a, NEW x, InShare(Q, a, Len(Q), x)
                  PROVE  InStream(q, Len(events), x)
  <2>. USE <1>ShareInStream
  <2>1. PICK k \in 1..Len(Q) : \E j \in 1..Len(events[Q[k]].data) : x = <<Q[k], j>>
    <3>1. AtomOf(Q, x)
      BY Zenon, ShareAtom
    <3> QED
      BY Zenon, <3>1 DEF AtomOf
  <2>2. Q[k] \in 1..Len(events)
    BY Zenon, Element
  <2> QED
    BY Zenon, <2>1, <2>2 DEF InStream
(* From a PSB of its batch on, a child decodes the queue up to the next    *)
(* PSB at least.                                                           *)
<1>Holding. ASSUME WellOrdered, Base, NEW q, NEW S, StreamOK(S, q, Len(events)),
                   NEW Q \in Seq(1..Len(events)), Rising(Q), \A k \in 1..Len(Q) : Kept(q, Q[k]),
                   NEW a \in Nat, NEW f \in 1..Len(Q), f <= a,
                   \A e \in 1..Len(events) : Kept(q, e) /\ Q[f] <= e => \E k \in 1..Len(Q) : Q[k] = e,
                   NEW s \in 1..Len(S), S[s][1] = Q[f], NEW m \in 1..Len(S), s <= m,
                   \A p \in (s + 1)..m : Atom(S[p]) # "P"
            PROVE  InShare(Q, a, Len(Q), S[m])
  <2>. USE <1>Holding
  <2>1. S \in Seq(Pair) /\ InOrder(S) /\ \A x : x \in Members(S) <=> InStream(q, Len(events), x)
    BY Zenon DEF StreamOK
  <2>2. /\ s \in Nat /\ m \in Nat /\ Len(S) \in Nat /\ f \in Nat /\ f >= 1 /\ a # 0 /\ (s = m \/ s < m)
        /\ Len(Q) \in Nat
    BY SMT, <2>1
  <2>3. PICK e \in 1..Len(events) : Kept(q, e) /\ \E h \in 1..Len(events[e].data) : S[m] = <<e, h>>
    BY Zenon, <2>1 DEF Members, InStream
  <2>4. PICK h \in 1..Len(events[e].data) : S[m] = <<e, h>>
    BY Zenon, <2>3
  <2>5. Len(events) \in Nat /\ Q[f] \in 1..Len(events)
    BY Zenon, Shape, Element
  <2>6. Q[f] <= e
    <3>1. S[m][1] = e
      BY SMT, <2>4
    <3>2. s < m => Lex(S[s], S[m])
      BY Zenon, <2>1 DEF InOrder
    <3>3. s < m => S[s][1] < S[m][1] \/ S[s][1] = S[m][1]
      BY Zenon, <3>2 DEF Lex
    <3>4. Q[f] = e \/ Q[f] < e
      BY Zenon, <2>2, <3>1, <3>3
    <3> QED
      BY SMT, <2>5, <3>4
  <2>7. PICK k \in 1..Len(Q) : Q[k] = e
    BY Zenon, <2>3, <2>6
  <2>8. ASSUME NEW l \in 1..Len(Q), ~(l <= a), NEW j \in PsbAt(Q[l])
        PROVE  Lex(<<Q[k], h>>, <<Q[l], j>>)
    <3>1. f < l
      BY SMT, <2>2, <2>8
    <3>2. Q[f] < Q[l] /\ Q[l] \in 1..Len(events)
      BY Zenon, <3>1, Element DEF Rising
    <3>3. j \in 1..Len(events[Q[l]].data) /\ events[Q[l]].data[j] = "P"
      BY Zenon, <2>8 DEF PsbAt
    <3>4. <<Q[l], j>> \in Members(S)
      BY Zenon, <2>1, <3>2, <3>3 DEF InStream
    <3>5. PICK p \in 1..Len(S) : S[p] = <<Q[l], j>>
      BY Zenon, <3>4 DEF Members
    <3>6. S[p][1] = Q[l] /\ S[p][2] = j
      BY SMT, <3>5
    <3>7. Atom(S[p]) = "P"
      BY Zenon, <3>3, <3>6 DEF Atom
    <3>8. Lex(S[s], S[p])
      BY Zenon, <3>2, <3>6 DEF Lex
    <3>9. s < p
      BY Zenon, <2>1, <3>8, Positions
    <3>10. p \in (s + 1)..m \/ m < p
      BY SMT, <2>2, <3>9
    <3>11. Lex(S[m], S[p])
      BY Zenon, <2>1, <3>7, <3>10 DEF InOrder
    <3> QED
      BY Zenon, <2>4, <2>7, <3>5, <3>11
  <2>9. h \in 1..Len(events[Q[k]].data)
    BY Zenon, <2>7
  <2>10. InShare(Q, a, Len(Q), <<Q[k], h>>)
    BY Zenon, <2>2, <2>8, <2>9, <1>Holds
  <2> QED
    BY Zenon, <2>4, <2>7, <2>10
(* A part of a queue, without gaps, is decoded like the queue. *)
<1>SameSync. ASSUME NEW S \in Seq(Pair), InOrder(S), NEW t \in Seq(Pair), InOrder(t), Members(t) \subseteq Members(S),
                    NEW s \in SyncAt(S), NEW k \in 1..Len(S), s <= k, S[s] \in Members(t), S[k] \in Members(t),
                    Atom(S[s]) # "P" => S[s + 1] \in Members(t)
             PROVE  S[k] \in Decoded(t)
  <2>. USE <1>SameSync
  <2>1. s \in 1..Len(S) /\ (Atom(S[s]) # "P" => s < Len(S) /\ Atom(S[s]) = "(" /\ Atom(S[s + 1]) = ")")
    BY Zenon DEF SyncAt
  <2>2. PICK i \in 1..Len(t) : S[s] = t[i]
    BY Zenon DEF Members
  <2>3. PICK n \in 1..Len(t) : S[k] = t[n]
    BY Zenon DEF Members
  <2>4. Len(S) \in Nat /\ Len(t) \in Nat /\ i \in Nat /\ n \in Nat /\ s \in Nat /\ k \in Nat /\ (s = k \/ s < k)
    BY SMT, <2>1
  <2>5. i <= n
    <3>1. CASE s = k
      <4>1. i = n
        BY Zenon, <2>2, <2>3, <3>1, Positions
      <4> QED
        BY SMT, <2>4, <4>1
    <3>2. CASE s < k
      <4>1. Lex(t[i], t[n])
        BY Zenon, <2>1, <2>2, <2>3, <3>2 DEF InOrder
      <4>2. i < n
        BY Zenon, <4>1, Positions
      <4> QED
        BY SMT, <2>4, <4>2
    <3> QED
      BY Zenon, <2>4, <3>1, <3>2
  <2>6. i \in SyncAt(t)
    <3>1. CASE Atom(S[s]) = "P"
      BY Zenon, <2>2, <3>1 DEF SyncAt
    <3>2. CASE Atom(S[s]) # "P"
      <4>1. s < Len(S) /\ Atom(S[s]) = "(" /\ Atom(S[s + 1]) = ")"
        BY Zenon, <2>1, <3>2
      <4>2. PICK o \in 1..Len(S) : o = s + 1 /\ s < o
        <5>1. s + 1 \in 1..Len(S) /\ s < s + 1
          BY SMT, <2>4, <4>1
        <5> QED
          BY Zenon, <5>1
      <4>3. PICK l \in 1..Len(t) : S[o] = t[l]
        BY Zenon, <3>2, <4>2 DEF Members
      <4>4. Lex(t[i], t[l])
        BY Zenon, <2>1, <2>2, <4>2, <4>3 DEF InOrder
      <4>5. i < l
        BY Zenon, <4>4, Positions
      <4>6. PICK v \in 1..Len(t) : v = i + 1 /\ i < v /\ (v = l \/ v < l)
        <5>1. i + 1 \in 1..Len(t) /\ i < i + 1 /\ (i + 1 = l \/ i + 1 < l)
          BY SMT, <2>4, <4>5
        <5> QED
          BY Zenon, <5>1
      <4>7. PICK r \in 1..Len(S) : S[r] = t[v]
        BY Zenon DEF Members
      <4>8. Lex(S[s], S[r])
        BY Zenon, <2>2, <4>6, <4>7 DEF InOrder
      <4>9. s < r
        BY Zenon, <2>1, <4>8, Positions
      <4>10. v = l
        <5> SUFFICES ASSUME v < l
                     PROVE  FALSE
          BY Zenon, <4>6
        <5>1. Lex(S[r], S[o])
          BY Zenon, <4>3, <4>7 DEF InOrder
        <5>2. r < o
          BY Zenon, <5>1, Positions
        <5> QED
          BY SMT, <2>4, <4>2, <4>9, <5>2
      <4>11. i < Len(t)
        BY SMT, <2>4, <4>5
      <4> QED
        BY Zenon, <2>2, <4>1, <4>2, <4>3, <4>6, <4>10, <4>11 DEF SyncAt
    <3> QED
      BY Zenon, <3>1, <3>2
  <2> QED
    BY Zenon, <2>3, <2>5, <2>6 DEF Decoded
(* The child that decodes an atom of the stream *)
<1>Found. ASSUME WellOrdered, IInv, DInv, procs[Parent].pc = "exited", NEW q \in Queue, NEW x \in Decoded(Stream(q))
          PROVE  \E c \in Child : x \in Decoded(procs[c].trace[q])
  <2>. USE <1>Found
  <2> DEFINE S == Stream(q)
  <2>0. Base /\ Parent \in Proc
    BY Zenon, Shape DEF IInv
  <2>1. StreamOK(S, q, Len(events))
    BY Zenon, <2>0, <1>StreamIs
  <2>2. PICK k \in 1..Len(S), z \in SyncAt(S) : z <= k /\ x = S[k]
    BY Zenon, DecodesBy
  <2> HIDE DEF S
  <2>3. S \in Seq(Pair) /\ InOrder(S) /\ \A y : y \in Members(S) <=> InStream(q, Len(events), y)
    BY Zenon, <2>1 DEF StreamOK
  <2>4. Len(S) \in Nat /\ k \in Nat
    BY SMT, <2>3
  <2>5. SyncAt(S) \subseteq 1..Len(S) /\ SyncAt(S) \subseteq Nat
    <3>1. SyncAt(S) \subseteq 1..Len(S) /\ \A m \in 1..Len(S) : m \in Nat
      BY SMT, <2>4 DEF SyncAt
    <3> QED
      BY Zenon, <3>1
    (* the last PSB up to x *)
  <2>6. PICK s \in SyncAt(S) : s <= k /\ \A y \in SyncAt(S) : y <= k => y <= s
    <3> DEFINE D == {y \in SyncAt(S) : y <= k}
    <3>1. D \in SUBSET Nat /\ D # {} /\ \A m \in D : m <= k
      BY Zenon, <2>2, <2>5
    <3>2. PICK s \in D : \A y \in D : y <= s
      BY Zenon, <2>4, <3>1, <1>GreatestNat
    <3> QED
      BY Zenon, <3>2
  <2>7. s \in 1..Len(S) /\ s \in Nat
    BY Zenon, <2>5
  <2>8. PICK e \in 1..Len(events) : Kept(q, e) /\ S[s][1] = e
    <3>1. PICK e \in 1..Len(events) : Kept(q, e) /\ \E j \in 1..Len(events[e].data) : S[s] = <<e, j>>
      BY Zenon, <2>3, <2>7 DEF Members, InStream
    <3>2. S[s][1] = e
      BY SMT, <3>1
    <3> QED
      BY Zenon, <3>1, <3>2
    (* the child that has it in its batch *)
  <2>9. PICK c \in Child : e \in procs[c].batch
    <3>1. e \in UNION {procs[c].batch : c \in Child}
      BY Zenon, <2>8, Partitioned DEF BatchesPartition, Kept
    <3> QED
      BY Zenon, <3>1
  <2>10. procs[c].pc = "exited" /\ procs[c].pc # "add"
    <3>1. waited = Len(worker_pids) /\ Len(worker_pids) = Len(procs) - 1 /\ Len(procs) \in Nat
      BY Zenon, <2>0, Shape DEF Base
    <3>2. Child = 2..(waited + 1)
      BY SMT, <3>1 DEF Child
    <3>3. procs[c].pc = "exited"
      BY Zenon, <2>0, <3>2 DEF Base
    <3> QED
      BY SMT, <3>3
  <2> DEFINE Q == procs[c].queue[q]
             a == procs[c].entry[q].batch_add
             t == procs[c].trace[q]
  <2>11. /\ Q \in Seq(1..Len(events)) /\ Rising(Q) /\ a \in Nat
         /\ \A i \in 1..Len(Q) : Kept(q, Q[i])
         /\ \A i \in 1..Len(Q) : i <= a <=> Q[i] \in procs[c].batch
         /\ \A d \in 1..Len(events) : Kept(q, d) /\ (\E b \in procs[c].batch : b <= d)
                                        => \E i \in 1..Len(Q) : Q[i] = d
         /\ t \in Seq(Pair) /\ InOrder(t)
         /\ \A y \in Members(t) : InShare(Q, a, Len(Q), y)
         /\ \A y : InShare(Q, a, Len(Q), y) => y \in Members(t)
    BY Zenon, <2>10, Reads
  <2> HIDE DEF Q, a, t
  <2>12. PICK f \in 1..Len(Q) : Q[f] = e /\ f <= a
    <3>1. e <= e
      BY SMT, <2>8
    <3>2. PICK f \in 1..Len(Q) : Q[f] = e
      BY Zenon, <2>8, <2>9, <2>11, <3>1
    <3> QED
      BY Zenon, <2>9, <2>11, <3>2
  <2>13. ASSUME NEW m \in 1..Len(S), s <= m, \A p \in (s + 1)..m : Atom(S[p]) # "P"
         PROVE  S[m] \in Members(t)
    <3>1. \A d \in 1..Len(events) : Kept(q, d) /\ Q[f] <= d => \E i \in 1..Len(Q) : Q[i] = d
      BY Zenon, <2>9, <2>11, <2>12
    <3>2. S[s][1] = Q[f]
      BY Zenon, <2>8, <2>12
    <3>3. InShare(Q, a, Len(Q), S[m])
      BY Zenon, <2>0, <2>1, <2>7, <2>11, <2>12, <2>13, <3>1, <3>2, <1>Holding
    <3> QED
      BY Zenon, <2>11, <3>3
  <2>14. S[s] \in Members(t)
    <3>1. s <= s /\ \A p \in (s + 1)..s : FALSE
      BY SMT, <2>7
    <3> QED
      BY Zenon, <2>7, <2>13, <3>1
  <2>15. S[k] \in Members(t)
    <3>1. \A p \in (s + 1)..k : p \in 1..Len(S) /\ p <= k /\ ~(p <= s)
      BY SMT, <2>4, <2>7
    <3>2. \A p \in (s + 1)..k : Atom(S[p]) # "P"
      BY Zenon, <2>6, <3>1 DEF SyncAt
    <3> QED
      BY Zenon, <2>6, <2>13, <3>2
  <2>16. Atom(S[s]) # "P" => S[s + 1] \in Members(t)
    <3> SUFFICES ASSUME Atom(S[s]) # "P"
                 PROVE  S[s + 1] \in Members(t)
      BY Zenon
    <3>1. s < Len(S) /\ Atom(S[s + 1]) = ")" /\ ")" # "P"
      BY Zenon, <2>6 DEF SyncAt
    <3>2. PICK o \in 1..Len(S) : o = s + 1 /\ s <= o /\ \A p \in (s + 1)..o : p = o
      <4>1. s + 1 \in 1..Len(S) /\ s <= s + 1 /\ \A p \in (s + 1)..(s + 1) : p = s + 1
        BY SMT, <2>4, <2>7, <3>1
      <4> QED
        BY Zenon, <4>1
    <3>3. Atom(S[o]) # "P"
      BY Zenon, <3>1, <3>2
    <3>4. S[o] \in Members(t)
      BY Zenon, <2>13, <3>2, <3>3
    <3> QED
      BY Zenon, <3>2, <3>4
  <2>17. Members(t) \subseteq Members(S)
    BY Zenon, <2>0, <2>3, <2>11, <1>ShareInStream
  <2>18. S[k] \in Decoded(t)
    BY Zenon, <2>3, <2>6, <2>11, <2>14, <2>15, <2>16, <2>17, <1>SameSync
  <2> QED
    BY Zenon, <2>2, <2>18 DEF t
<1>. SUFFICES ASSUME WellOrdered, IInv, DInv
             PROVE  NothingLost
  OBVIOUS
<1> SUFFICES ASSUME procs[Parent].pc = "exited", NEW q \in Queue, NEW x \in Decoded(Stream(q))
             PROVE  \E c \in Child : x \in Decoded(procs[c].trace[q])
  BY Zenon DEF NothingLost
<1> QED
  BY Zenon, <1>Found

-----------------------------------------------------------------------------
(* Every set of natural numbers has a least element, so the above holds.   *)
LOCAL INSTANCE WellFoundedInduction

(* The well-order of the natural numbers, from the library *)
LEMMA WellOrder == WellOrdered
<1> SUFFICES ASSUME NEW S \in SUBSET Nat, S # {}
             PROVE  \E i \in S : \A j \in S : i <= j
  BY Zenon DEF WellOrdered
<1> DEFINE R == OpToRel(<, Nat)
<1>1. \A x, y \in Nat : <<x, y>> \in R <=> x < y
  BY Zenon DEF OpToRel
<1> HIDE DEF R
<1>2. PICK x \in S : \A y \in S : ~(<<y, x>> \in R)
  BY Zenon, NatLessThanWellFounded, WFMin DEF R
<1>3. \A y \in S : ~(y < x)
  BY Zenon, <1>1, <1>2
<1> QED
  BY SMT, <1>3

(* The processes keep the invariant of what they queue and decode, in      *)
(* every interleaving.                                                     *)
LEMMA DecodeInvariant == Spec => []DInv
<1>1. Init => DInv
  BY Zenon, DInitially
<1>2. IInv /\ DInv /\ [Next]_vars => DInv'
  BY Zenon, WellOrder, DInductive
<1> QED
  BY <1>1, <1>2, Invariant, PTL DEF Spec

(* At its exit a child has decoded all that lookahead() has shown to the   *)
(* decoder, however often and far it looked.                               *)
THEOREM LookaheadStays == Spec => []LookaheadInShare
<1>1. IInv /\ DInv => LookaheadInShare
  BY Zenon, ShareLooks
<1> QED
  BY <1>1, Invariant, DecodeInvariant, PTL

(* When no PSB is split over two buffers, no part of the trace is decoded  *)
(* by two children, whatever the sizes of the buffers and the order in     *)
(* which the children run.                                                 *)
THEOREM DecodedByOne == Spec => []WholeDecodedOnce
<1>1. IInv /\ DInv => WholeDecodedOnce
  BY Zenon, AtMostOne, WellOrder
<1> QED
  BY <1>1, Invariant, DecodeInvariant, PTL

(* When the parent exits, the children together have decoded all that one  *)
(* process would have decoded, with PSBs split over two buffers or not.    *)
THEOREM ChildrenDecodeAll == Spec => []NothingLost
<1>1. IInv /\ DInv => NothingLost
  BY Zenon, AtLeastOne, WellOrder
<1> QED
  BY <1>1, Invariant, DecodeInvariant, PTL
=============================================================================
