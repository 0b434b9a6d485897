--------------------------- MODULE IntelPtQueues ---------------------------
(***************************************************************************)
(* How perf script turns the Intel PT data of several CPUs (or threads)    *)
(* into one stream of samples, each with a time and the thread that ran    *)
(* (tools/perf/util/intel-pt.c).  Every queue has a decoder, one branch    *)
(* ahead of the samples; a heap orders the queues by the time of the       *)
(* branch held back.  intel_pt_process_queues(until) takes the earliest    *)
(* queue in turn, up to the next queue's time or `until'.  The thread of a *)
(* queue is the current thread of its CPU, which the context switch        *)
(* records set; when the kernel is traced too, sync_switch waits for both  *)
(* the record and the branch to __switch_to.                               *)
(*                                                                         *)
(* `trace' is what the processor and the kernel left behind: what each     *)
(* decoder will return, in order, with the thread that really ran.  The    *)
(* kind of an item is what the code asks of a decoder state:               *)
(*   "ip"        a branch within user or within kernel space;              *)
(*   "user"      a branch from the kernel, or from nowhere, to user space; *)
(*   "end"       tracing stops (to_ip is 0);                               *)
(*   "ptss"      a call of the function that writes the switch record;     *)
(*   "switch_ip" the branch to __switch_to;                                *)
(*   "error", "kernel_error"  a decoding error at a user, a kernel address.*)
(***************************************************************************)
EXTENDS AuxtraceHeap

CONSTANTS nr_queues,  \* queues->nr_queues
          Traces      \* the recordings considered

(* With per-CPU buffers queue q is that of CPU q.                          *)
Queues == 0..(nr_queues - 1)

VARIABLES
  trace,        \* [items, queue_tid, have_sched_switch, tracing_kernel, ...]
  heap,         \* pt->heap
  ptq,          \* the intel_pt_queue of each queue
  current,      \* machine__get_current_tid of each CPU
  sync_switch,  \* pt->sync_switch
  kernel_start, \* whether pt->kernel_start is known
  until,        \* the bound of the intel_pt_process_queues call under way
  turn,         \* the queue being run, its bound and the next step; or Idle
  out           \* the samples synthesized so far

queueVars == <<trace, heap, ptq, current, sync_switch, kernel_start, until, turn, out>>

NoTid == -1
Idle == [at |-> "idle"]
Errors == {"error", "kernel_error"}

Items(q) == trace.items[q]

Held(q) == Items(q)[ptq[q].pos]

NewPtq(q) ==
  [pos |-> 0, have_sample |-> FALSE, timestamp |-> 0, tid |-> trace.queue_tid[q],
   next_tid |-> NoTid, switch_state |-> "NOT_TRACING", sync_switch |-> FALSE,
   on_heap |-> FALSE]

QueuesInit ==
  /\ trace \in Traces
  /\ heap = <<>>
  /\ ptq = [q \in Queues |-> NewPtq(q)]
  /\ current = [q \in Queues |-> NoTid]
  /\ sync_switch = FALSE
  /\ kernel_start = FALSE
  /\ until = 0
  /\ turn = Idle
  /\ out = <<>>

(* intel_pt_setup_queues: every queue is decoded up to its first state     *)
(* that is not an error and has a time (none has one before the first      *)
(* timing packet), which is held back, and put on the heap.                *)
First(q) ==
  LET good == {i \in 1..Len(Items(q)) : Items(q)[i].kind \notin Errors /\ Items(q)[i].ts # 0} IN
  IF good = {} THEN 0 ELSE CHOOSE i \in good : \A j \in good : i <= j

SetupHeap ==
  LET add[n \in 0..nr_queues] ==
        IF n = 0 THEN <<>>
        ELSE IF First(n - 1) = 0 THEN add[n - 1]
        ELSE auxtrace_heap__add(add[n - 1], n - 1, Items(n - 1)[First(n - 1)].ts)
  IN add[nr_queues]

intel_pt_setup_queues ==
  /\ heap' = SetupHeap
  /\ ptq' = [q \in Queues |->
               IF First(q) = 0 THEN [ptq[q] EXCEPT !.pos = Len(Items(q))]
               ELSE [ptq[q] EXCEPT !.pos = First(q), !.have_sample = TRUE, !.on_heap = TRUE,
                                   !.timestamp = Items(q)[First(q)].ts]]

(* intel_pt_set_pid_tid_cpu: the thread a queue's samples get.             *)
TidOf(q, cur) ==
  IF trace.queue_tid[q] = NoTid \/ trace.have_sched_switch # 0 THEN cur[q] ELSE ptq[q].tid

(* intel_pt_next_tid.                                                      *)
Next_tid(q) ==
  IF ptq[q].next_tid = NoTid THEN current ELSE [current EXCEPT ![q] = ptq[q].next_tid]

(* intel_pt_process_queues: one turn of its loop starts with the earliest  *)
(* queue.  The first turn of all finds the kernel's addresses, and with    *)
(* them whether context switches can be synchronised (intel_pt_run_decoder,*)
(* intel_pt_enable_sync_switch).                                           *)
Enabled_sync ==
  ~kernel_start /\ trace.per_cpu_mmaps /\ trace.have_sched_switch = 3 /\ trace.tracing_kernel

(* Mutant: the queue runs up to the bound of the whole call.               *)
BoundWhole(rest) == until

Bound(rest) ==
  IF rest = <<>> \/ rest[1].ordinal + 1 > until THEN until ELSE rest[1].ordinal + 1

Waiting == heap # <<>> /\ heap[1].ordinal < until

StartTurn ==
  /\ turn = Idle
  /\ Waiting
  /\ LET q == heap[1].queue IN
     \E rest \in {auxtrace_heap__pop(heap)} :
       /\ heap' = rest
       /\ turn' = [at |-> "sample", queue |-> q, bound |-> Bound(rest)]
       /\ ptq' = [p \in Queues |->
            [ptq[p] EXCEPT !.tid = IF p = q THEN TidOf(q, current) ELSE @,
                           !.sync_switch = IF Enabled_sync THEN TRUE ELSE @]]
       /\ sync_switch' = (sync_switch \/ Enabled_sync)
       /\ kernel_start' = TRUE
       /\ UNCHANGED <<trace, current, until, out>>

(* intel_pt_sample: the state held back becomes a sample.  A branch to     *)
(* __switch_to then switches the thread if the record of the switch came   *)
(* first, and otherwise stops the queue until it comes.                    *)
StateAfter(p, kind) ==
  CASE ~p.sync_switch -> p.switch_state
    [] p.sync_switch /\ kind = "switch_ip" ->
         IF p.switch_state \in {"NOT_TRACING", "UNKNOWN", "EXPECTING_SWITCH_IP"}
         THEN "TRACING" ELSE "EXPECTING_SWITCH_EVENT"
    [] p.sync_switch /\ kind = "end" -> "NOT_TRACING"
    [] p.sync_switch /\ kind \notin {"switch_ip", "end"} ->
         IF p.switch_state = "NOT_TRACING" THEN "UNKNOWN"
         ELSE IF p.switch_state = "UNKNOWN" /\ kind = "ptss" THEN "TRACING"
         ELSE p.switch_state

Switches(p, kind) == p.sync_switch /\ kind = "switch_ip"

(* A mutant: the branch to __switch_to never waits for the record.         *)
WaitsNever(p, kind) == FALSE

Waits(p, kind) == Switches(p, kind) /\ StateAfter(p, kind) = "EXPECTING_SWITCH_EVENT"

Sample ==
  /\ turn.at = "sample"
  /\ LET q == turn.queue
         p == ptq[q]
         kind == Held(q).kind
         switched == Switches(p, kind) /\ StateAfter(p, kind) = "TRACING" /\ p.next_tid # NoTid
     IN IF ~p.have_sample
        THEN /\ turn' = [turn EXCEPT !.at = "decode"]
             /\ UNCHANGED <<out, ptq, current>>
        ELSE /\ out' = Append(out, [queue |-> q, pos |-> p.pos, time |-> p.timestamp,
                                    tid |-> p.tid])
             /\ turn' = IF Waits(p, kind) THEN Idle ELSE [turn EXCEPT !.at = "decode"]
             /\ current' = IF switched THEN Next_tid(q) ELSE current
             /\ ptq' = [ptq EXCEPT ![q] =
                  [p EXCEPT !.have_sample = FALSE,
                            !.switch_state = StateAfter(p, kind),
                            !.tid = IF switched THEN TidOf(q, Next_tid(q)) ELSE @,
                            !.next_tid = IF switched THEN NoTid ELSE @,
                            !.on_heap = ~Waits(p, kind)]]
  /\ UNCHANGED <<trace, heap, sync_switch, kernel_start, until>>

(* intel_pt_run_decoder after intel_pt_sample: the next state of the       *)
(* decoder.  At the end of the data the queue leaves the heap for good.    *)
NoData ==
  /\ turn.at = "decode"
  /\ ptq[turn.queue].pos = Len(Items(turn.queue))
  /\ turn' = Idle
  /\ ptq' = [ptq EXCEPT ![turn.queue].on_heap = FALSE]
  /\ UNCHANGED <<trace, heap, current, sync_switch, kernel_start, until, out>>

(* A decoding error is reported, and ends the synchronisation of the queue *)
(* when it is the kernel's code that was lost.                             *)
DecodeError ==
  /\ turn.at = "decode"
  /\ ptq[turn.queue].pos < Len(Items(turn.queue))
  /\ LET q == turn.queue
         p == ptq[q]
         item == Items(q)[p.pos + 1]
         lost == p.sync_switch /\ item.kind = "kernel_error"
         applied == lost /\ p.next_tid # NoTid
     IN /\ item.kind \in Errors
        /\ current' = IF applied THEN Next_tid(q) ELSE current
        /\ ptq' = [ptq EXCEPT ![q] =
             [p EXCEPT !.pos = @ + 1,
                       !.timestamp = item.est,
                       !.sync_switch = IF lost THEN FALSE ELSE @,
                       !.tid = IF applied THEN TidOf(q, Next_tid(q)) ELSE @,
                       !.next_tid = IF applied THEN NoTid ELSE @]]
        /\ out' = Append(out, [queue |-> q, pos |-> p.pos + 1, time |-> item.est,
                               tid |-> ptq'[q].tid])
        /\ turn' = [turn EXCEPT !.at = "sample"]
  /\ UNCHANGED <<trace, heap, sync_switch, kernel_start, until>>

(* A decoded branch is held back; the queue goes back to the heap when the *)
(* branch is not before the bound of the turn.                             *)
Timestamp(p, item) ==
  IF item.kind = "user" \/ /\ p.sync_switch /\ p.switch_state = "UNKNOWN"
                           /\ item.kind = "switch_ip" /\ p.next_tid = NoTid
  THEN item.est
  ELSE IF item.ts > p.timestamp THEN item.ts ELSE p.timestamp

Decode ==
  /\ turn.at = "decode"
  /\ ptq[turn.queue].pos < Len(Items(turn.queue))
  /\ LET q == turn.queue
         p == ptq[q]
         item == Items(q)[p.pos + 1]
     IN /\ item.kind \notin Errors
        /\ \E ts \in {Timestamp(p, item)} :
             /\ ptq' = [ptq EXCEPT ![q] = [p EXCEPT !.pos = @ + 1, !.have_sample = TRUE,
                                                   !.timestamp = ts]]
             /\ IF ts >= turn.bound
                THEN turn' = Idle /\ heap' = auxtrace_heap__add(heap, q, ts)
                ELSE turn' = [turn EXCEPT !.at = "sample"] /\ heap' = heap
  /\ UNCHANGED <<trace, current, sync_switch, kernel_start, until, out>>

Turn == StartTurn \/ Sample \/ NoData \/ DecodeError \/ Decode

(* intel_pt_process_queues returns.  A mutant: only when the heap is empty.*)
ProcessedAll == turn = Idle /\ heap = <<>>

Processed == turn = Idle /\ ~Waiting

(***************************************************************************)
(* What intel_pt_process_event does with a record after the queues.  The   *)
(* three handlers set current, ptq and heap; e is the record.              *)
(***************************************************************************)
HasQueue(cpu) == trace.per_cpu_mmaps /\ ptq[cpu].pos # 0

(* intel_pt_process_itrace_start.                                          *)
ItraceStart(e) ==
  /\ current' = IF trace.per_cpu_mmaps THEN [current EXCEPT ![e.cpu] = e.tid] ELSE current
  /\ UNCHANGED <<ptq, heap>>

(* intel_pt_context_switch_in: the new thread is on the CPU.               *)
SwitchIn(e) ==
  /\ current' = [current EXCEPT ![e.cpu] = e.tid]
  /\ ptq' = IF sync_switch /\ HasQueue(e.cpu) /\ ptq[e.cpu].sync_switch
            THEN [ptq EXCEPT ![e.cpu] =
                   [@ EXCEPT !.next_tid = NoTid,
                             !.switch_state =
                               IF @ \in {"EXPECTING_SWITCH_EVENT", "EXPECTING_SWITCH_IP"}
                               THEN "TRACING" ELSE @]]
            ELSE ptq
  /\ UNCHANGED heap

(* intel_pt_sync_switch and intel_pt_context_switch: thread e.tid is next. *)
Synced(cpu) == sync_switch /\ HasQueue(cpu) /\ ptq[cpu].sync_switch

(* A mutant: a queue stopped at __switch_to is not resumed.                *)
ResumesNever(cpu) == FALSE

Resumes(cpu) == ptq[cpu].switch_state = "EXPECTING_SWITCH_EVENT" /\ ~ptq[cpu].on_heap

SwitchTo(e) ==
  LET p == ptq[e.cpu]
      later == Synced(e.cpu) /\ p.switch_state \in {"UNKNOWN", "TRACING"}
  IN /\ current' = IF later THEN current ELSE [current EXCEPT ![e.cpu] = e.tid]
     /\ heap' = IF Synced(e.cpu) /\ Resumes(e.cpu)
                THEN auxtrace_heap__add(heap, e.cpu, e.ts) ELSE heap
     /\ ptq' = IF ~Synced(e.cpu) THEN ptq
               ELSE IF later
               THEN [ptq EXCEPT ![e.cpu].next_tid = e.tid,
                                ![e.cpu].switch_state = "EXPECTING_SWITCH_IP"]
               ELSE [ptq EXCEPT ![e.cpu] =
                      [@ EXCEPT !.next_tid = NoTid,
                                !.timestamp = IF Resumes(e.cpu) THEN e.ts ELSE @,
                                !.on_heap = IF Resumes(e.cpu) THEN TRUE ELSE @,
                                !.switch_state = IF @ = "EXPECTING_SWITCH_EVENT"
                                                 THEN "TRACING" ELSE @]]

(* intel_pt_context_switch: with have_sched_switch 3 the record of the     *)
(* switch out names the next thread, otherwise only the switch in counts.  *)
ContextSwitch(e) ==
  IF trace.have_sched_switch = 3
  THEN IF e.type = "in" THEN SwitchIn(e) ELSE SwitchTo([e EXCEPT !.tid = e.next])
  ELSE IF e.type = "in" THEN SwitchTo(e) ELSE UNCHANGED <<current, ptq, heap>>

HandleEvent(e) ==
  CASE e.type = "itrace_start" -> ItraceStart(e)
    [] e.type \in {"in", "out"} -> ContextSwitch(e)
    [] e.type \in {"aux", "other"} -> UNCHANGED <<current, ptq, heap>>
=============================================================================
