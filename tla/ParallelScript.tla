--------------------------- MODULE ParallelScript ---------------------------
(***************************************************************************)
(* `perf script' with parallel workers (the changes of this repository to  *)
(* tools/perf/util/auxtrace.c and intel-pt.c).  The process walks the      *)
(* index of trace buffers (auxtrace events); whenever a share of the data  *)
(* is used up it forks a child that takes over from the current event.  A  *)
(* child queues its own batch and everything behind it, decodes the batch, *)
(* and reads on in each queue up to the first PSB, the packet at which the *)
(* next child can start to decode.                                         *)
(*                                                                         *)
(* An event has a queue (a CPU, or a thread in per-thread mode) and data,  *)
(* a sequence of atoms: "P" is a PSB, "(" and ")" are the two parts of a   *)
(* PSB that crosses from one buffer into the next, "d" is anything else.   *)
(* The size of an event is the number of its atoms.                        *)
(***************************************************************************)
EXTENDS Naturals, Sequences, FiniteSets, Functions

CONSTANT Scenario  \* [name -> record]: command line, queues and perf.data files

VARIABLE scene     \* the scenario of this behaviour

parallel_worker == Scenario[scene].workers       \* number of workers
parallel_by_events == Scenario[scene].by_events  \* divide by number of events, or by size
Queue == Scenario[scene].queues                  \* CPUs or threads
FilteredQueue == Scenario[scene].filtered        \* threads that thread__is_filter_by_tid() filters
Inputs == Scenario[scene].inputs                 \* sequences of events
MaxLookahead == Scenario[scene].lookaheads       \* bound on the look-aheads of a child

ASSUME ScriptAssumption ==
  \A n \in DOMAIN Scenario :
       /\ Scenario[n].workers \in Nat /\ Scenario[n].workers > 1
       /\ Scenario[n].by_events \in BOOLEAN
       /\ Scenario[n].filtered \subseteq Scenario[n].queues
       /\ Scenario[n].inputs \subseteq
            Seq([q : Scenario[n].queues, data : Seq({"P", "(", ")", "d"})])
       /\ Scenario[n].lookaheads \in Nat

VARIABLES
  events,               \* the index of perf.data
  total_event,          \* events in the index
  total_auxtrace_size,  \* their size, without the filtered ones
  procs,                \* the processes: 1 is the parent, the others children
  worker_pids,          \* sequence of the children the parent forked
  waited                \* how many of them it has waited for

vars == <<scene, events, total_event, total_auxtrace_size, procs, worker_pids, waited>>

Parent == 1
Proc == 1..Len(procs)
Child == 2..Len(procs)
Filtered(e) == events[e].q \in FilteredQueue

(* parallel_cache_entry, and how far get_trace() is in the queue *)
CacheEntry == [batch_add |-> 0, buffer_add |-> 0, last_psb_add |-> 0,
               buffer_lookahead |-> 0, last_psb_lookahead |-> 0, next |-> 1]

(* What fork() copies.  batch, trace, seen and looks are history: the      *)
(* events of the batch, the atoms that get_trace() handed to the decoder,  *)
(* those that lookahead() showed it, and the number of look-aheads.        *)
Process ==
  [pc |-> "count", i |-> 1, total_event_added |-> 0, auxtrace_size_added |-> 0,
   parallel_file_count |-> 0, queue |-> [q \in Queue |-> <<>>],
   entry |-> [q \in Queue |-> CacheEntry],
   batch |-> {}, trace |-> [q \in Queue |-> <<>>], seen |-> [q \in Queue |-> {}], looks |-> 0]

Init ==
  /\ scene \in DOMAIN Scenario
  /\ events \in Inputs
  /\ total_event = 0 /\ total_auxtrace_size = 0
  /\ procs = <<Process>>
  /\ worker_pids = <<>> /\ waited = 0

-----------------------------------------------------------------------------
(* auxtrace_queues__process_index() *)

(* The first loop over the index: total number and size *)
Count ==
  LET i == procs[Parent].i
  IN  /\ procs[Parent].pc = "count" /\ i <= Len(events)
      /\ total_event' = total_event + 1
      /\ total_auxtrace_size' = total_auxtrace_size + (IF Filtered(i) THEN 0 ELSE Len(events[i].data))
      /\ procs' = [procs EXCEPT ![Parent].i = i + 1]
      /\ UNCHANGED <<scene, events, worker_pids, waited>>

Counted ==
  /\ procs[Parent].pc = "count" /\ procs[Parent].i > Len(events)
  /\ procs' = [procs EXCEPT ![Parent].pc = "add", ![Parent].i = 1]
  /\ UNCHANGED <<scene, events, total_event, total_auxtrace_size, worker_pids, waited>>

parallel_step == total_event \div parallel_worker + 1

(* Mutant: rounded down. *)
parallel_auxtrace_size_down == IF total_auxtrace_size < parallel_worker THEN 1
                               ELSE total_auxtrace_size \div parallel_worker
parallel_auxtrace_size == total_auxtrace_size \div parallel_worker + 1

(* Mutant: the boundary event belongs to two batches. *)
InBatchTooLong(r) ==
  IF parallel_by_events THEN r.total_event_added <= r.parallel_file_count * parallel_step
  ELSE r.auxtrace_size_added <= r.parallel_file_count * parallel_auxtrace_size

InBatch(r) ==
  IF parallel_by_events THEN r.total_event_added < r.parallel_file_count * parallel_step
  ELSE r.auxtrace_size_added < r.parallel_file_count * parallel_auxtrace_size

(* add_event() from the test against total_event on: the event is counted, *)
(* and a child adds it to its batch and its queue.                         *)
AddEvent(r, child, in_batch) ==
  LET q == events[r.i].q
      s == [r EXCEPT !.i = @ + 1]
      t == [s EXCEPT !.total_event_added = @ + 1,
                     !.auxtrace_size_added = @ + Len(events[r.i].data)]
  IN  IF r.total_event_added = total_event THEN s
      ELSE IF ~child THEN t
      ELSE [t EXCEPT !.queue[q] = Append(@, r.i),
                     !.entry[q].batch_add = @ + (IF in_batch THEN 1 ELSE 0),
                     !.batch = @ \cup (IF in_batch THEN {r.i} ELSE {})]

Adding(p) == procs[p].pc = "add" /\ procs[p].i <= Len(events)

(* Per-thread mode: add_indexed_event() skips a filtered thread. *)
SkipEvent(p) ==
  /\ Adding(p) /\ Filtered(procs[p].i)
  /\ procs' = [procs EXCEPT ![p].i = @ + 1]
  /\ UNCHANGED <<scene, events, total_event, total_auxtrace_size, worker_pids, waited>>

Forks(p) ==
  p = Parent /\ ~InBatch(procs[p]) /\ procs[p].total_event_added < total_event

(* add_event() without a fork *)
KeepEvent(p) ==
  /\ Adding(p) /\ ~Filtered(procs[p].i) /\ ~Forks(p)
  /\ procs' = [procs EXCEPT ![p] = AddEvent(@, p # Parent, InBatch(@))]
  /\ UNCHANGED <<scene, events, total_event, total_auxtrace_size, worker_pids, waited>>

(* add_event() that forks: the new child takes the event into its batch. *)
ForkWorker ==
  /\ Adding(Parent) /\ ~Filtered(procs[Parent].i) /\ Forks(Parent)
  /\ LET r == [procs[Parent] EXCEPT !.parallel_file_count = @ + 1]
     IN  procs' = Append([procs EXCEPT ![Parent] = AddEvent(r, FALSE, TRUE)],
                         AddEvent(r, TRUE, TRUE))
  /\ worker_pids' = Append(worker_pids, Len(procs) + 1)
  /\ UNCHANGED <<scene, events, total_event, total_auxtrace_size, waited>>

(* The end of the second loop: the parent waits, a child decodes. *)
IndexDone(p) ==
  /\ procs[p].pc = "add" /\ procs[p].i > Len(events)
  /\ procs' = [procs EXCEPT ![p].pc = IF p = Parent THEN "wait" ELSE "decode"]
  /\ UNCHANGED <<scene, events, total_event, total_auxtrace_size, worker_pids, waited>>

(* waitpid() for one worker after the other, then exit(0) *)
WaitPid ==
  /\ procs[Parent].pc = "wait" /\ waited < Len(worker_pids)
  /\ procs[worker_pids[waited + 1]].pc = "exited"
  /\ waited' = waited + 1
  /\ UNCHANGED <<scene, events, total_event, total_auxtrace_size, procs, worker_pids>>

ParentExit ==
  /\ procs[Parent].pc = "wait" /\ waited = Len(worker_pids)
  /\ procs' = [procs EXCEPT ![Parent].pc = "exited"]
  /\ UNCHANGED <<scene, events, total_event, total_auxtrace_size, worker_pids, waited>>

-----------------------------------------------------------------------------
(* intel_pt_get_trace() and intel_pt_lookahead() of a child *)

(* memmem() of the PSB pattern: it finds a PSB that is whole. *)
PsbAt(e) == {j \in 1..Len(events[e].data) : events[e].data[j] = "P"}
BeforePsb(e) ==
  IF PsbAt(e) = {} THEN Len(events[e].data)
  ELSE (CHOOSE j \in PsbAt(e) : \A k \in PsbAt(e) : j <= k) - 1

(* Mutants: nothing, or everything, of the buffers behind the batch. *)
ShareBatchOnly(entry, count, psb, e) ==
  IF count < entry.batch_add THEN Len(events[e].data) ELSE 0
ShareAll(entry, count, psb, e) ==
  IF entry.batch_add = 0 THEN 0 ELSE Len(events[e].data)

(* How much of buffer e is used when `count' buffers of the queue came     *)
(* before it and the last PSB was met psb times.                           *)
Share(entry, count, psb, e) ==
  CASE entry.batch_add = 0 -> 0
    [] entry.batch_add > 0 /\ count < entry.batch_add -> Len(events[e].data)
    [] entry.batch_add > 0 /\ count >= entry.batch_add /\ psb = 0 -> BeforePsb(e)
    [] OTHER -> 0

(* Did Share() stop at a PSB? *)
AtPsb(entry, count, psb, e) ==
  IF entry.batch_add > 0 /\ count >= entry.batch_add /\ psb = 0 /\ PsbAt(e) # {} THEN 1 ELSE 0

Atoms(e, len) == [j \in 1..len |-> <<e, j>>]

(* Mutant: buffer_lookahead falls behind buffer_add. *)
GetTraceLags(p, q) ==
  LET r == procs[p]
      n == r.entry[q]
      e == r.queue[q][n.next]
      psb == AtPsb(n, n.buffer_add, n.last_psb_add, e)
      add == IF n.batch_add = 0 THEN 0 ELSE 1
  IN  /\ r.pc = "decode" /\ n.next <= Len(r.queue[q])
      /\ procs' = [procs EXCEPT
           ![p].trace[q] = @ \o Atoms(e, Share(n, n.buffer_add, n.last_psb_add, e)),
           ![p].entry[q] =
              [n EXCEPT !.next = @ + 1,
                        !.last_psb_add = @ + psb,
                        !.last_psb_lookahead = @ + psb,
                        !.buffer_add = @ + add]]
      /\ UNCHANGED <<scene, events, total_event, total_auxtrace_size, worker_pids, waited>>

GetTrace(p, q) ==
  LET r == procs[p]
      n == r.entry[q]
      e == r.queue[q][n.next]
      psb == AtPsb(n, n.buffer_add, n.last_psb_add, e)
      add == IF n.batch_add = 0 THEN 0 ELSE 1
  IN  /\ r.pc = "decode" /\ n.next <= Len(r.queue[q])
      /\ procs' = [procs EXCEPT
           ![p].trace[q] = @ \o Atoms(e, Share(n, n.buffer_add, n.last_psb_add, e)),
           ![p].entry[q] =
              [n EXCEPT !.next = @ + 1,
                        !.last_psb_add = @ + psb,
                        !.last_psb_lookahead = @ + psb,
                        !.buffer_add = @ + add,
                        !.buffer_lookahead =
                           IF n.buffer_add + add > @ THEN n.buffer_add + add ELSE @]]
      /\ UNCHANGED <<scene, events, total_event, total_auxtrace_size, worker_pids, waited>>

(* The loop of lookahead() over the buffers that follow the current one,   *)
(* until the callback is satisfied (at buffer `stop') or none is left.     *)
LookStep(acc, e) ==
  LET n == acc.n
      len == Share(n, n.buffer_lookahead, n.last_psb_lookahead, e)
      psb == AtPsb(n, n.buffer_lookahead, n.last_psb_lookahead, e)
  IN  [n |-> [n EXCEPT !.last_psb_lookahead = @ + psb,
                       !.buffer_lookahead = @ + (IF n.batch_add = 0 THEN 0 ELSE 1)],
       seen |-> acc.seen \cup {<<e, j>> : j \in 1..len}]

Lookahead(p, q) ==
  LET r == procs[p]
      n == r.entry[q]
  IN  /\ r.pc = "decode" /\ r.looks < MaxLookahead
      /\ \E stop \in n.next..Len(r.queue[q]) :
           LET look[b \in (n.next - 1)..stop] ==
                 IF b < n.next THEN [n |-> n, seen |-> r.seen[q]]
                 ELSE LookStep(look[b - 1], r.queue[q][b])
           IN  procs' = [procs EXCEPT ![p].entry[q] = look[stop].n, ![p].seen[q] = look[stop].seen,
                                      ![p].looks = @ + 1]
      /\ UNCHANGED <<scene, events, total_event, total_auxtrace_size, worker_pids, waited>>

(* Every queue is exhausted: the child leaves. *)
ChildExit(p) ==
  /\ procs[p].pc = "decode"
  /\ \A q \in Queue : procs[p].entry[q].next > Len(procs[p].queue[q])
  /\ procs' = [procs EXCEPT ![p].pc = "exited"]
  /\ UNCHANGED <<scene, events, total_event, total_auxtrace_size, worker_pids, waited>>

Next ==
  \/ Count \/ Counted \/ ForkWorker \/ WaitPid \/ ParentExit
  \/ \E p \in Proc : SkipEvent(p) \/ KeepEvent(p) \/ IndexDone(p)
  \/ \E p \in Child : ChildExit(p) \/ \E q \in Queue : GetTrace(p, q) \/ Lookahead(p, q)

Spec == Init /\ [][Next]_vars

-----------------------------------------------------------------------------
(* The stock decoder synchronises at the first PSB it sees, whole or split *)
(* over two buffers, and decodes all that follows.                         *)
Atom(a) == events[a[1]].data[a[2]]
SyncAt(trace) ==
  {j \in 1..Len(trace) :
     \/ Atom(trace[j]) = "P"
     \/ Atom(trace[j]) = "(" /\ j < Len(trace) /\ Atom(trace[j + 1]) = ")"}
Decoded(trace) == {trace[j] : j \in {k \in 1..Len(trace) : \E s \in SyncAt(trace) : s <= k}}

(* The same for the sequential `perf script', which reads all of a queue. *)
Stream(q) ==
  LET upto[e \in 0..Len(events)] ==
        IF e = 0 THEN <<>>
        ELSE upto[e - 1]
             \o (IF events[e].q = q /\ ~Filtered(e) THEN Atoms(e, Len(events[e].data)) ELSE <<>>)
  IN  upto[Len(events)]

-----------------------------------------------------------------------------
(* Properties *)

(* add_event() stores a pid at worker_pids[parallel_file_count], an array  *)
(* of parallel_worker elements: it forks no more often than that, however  *)
(* uneven the events are.                                                  *)
WorkerPidsInBounds == Len(worker_pids) <= parallel_worker

(* The children's batches do not overlap, and when the parent exits every  *)
(* event that is not filtered is in one: the threshold at which a child    *)
(* stops counting is the one at which the parent forks the next child.     *)
BatchesPartition ==
  /\ \A c, d \in Child : c # d => procs[c].batch \cap procs[d].batch = {}
  /\ procs[Parent].pc = "exited" =>
       UNION {procs[c].batch : c \in Child} = {e \in 1..Len(events) : ~Filtered(e)}

(* No part of the trace is decoded by two children, so no branch appears   *)
(* twice in the scripts that func_latency reads.                           *)
DecodedOnce ==
  \A c, d \in Child : c # d =>
    \A q \in Queue : Decoded(procs[c].trace[q]) \cap Decoded(procs[d].trace[q]) = {}

(* ... which the search of get_trace() for the first PSB behind the batch  *)
(* ensures when every PSB is whole.                                        *)
WholeDecodedOnce ==
  (\A e \in 1..Len(events) : "(" \notin Range(events[e].data)) => DecodedOnce

(* When the parent exits, and func_latency goes on to read the scripts,    *)
(* the children together have decoded what one process would have decoded. *)
NothingLost ==
  procs[Parent].pc = "exited" =>
    \A q \in Queue : Decoded(Stream(q)) \subseteq UNION {Decoded(procs[c].trace[q]) : c \in Child}

(* A look-ahead never shows the decoder data behind the child's own share, *)
(* which it would use for its clock but never decode.                      *)
LookaheadInShare ==
  \A c \in Child : procs[c].pc = "exited" =>
    \A q \in Queue : procs[c].seen[q] \subseteq Range(procs[c].trace[q])
=============================================================================
