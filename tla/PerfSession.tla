---------------------------- MODULE PerfSession ----------------------------
(***************************************************************************)
(* From the ring buffers of the kernel to the samples of perf script.      *)
(*                                                                         *)
(* `perf record' passes over the ring buffers of the CPUs again and again, *)
(* appends what it finds to perf.data and closes every pass that found     *)
(* something with a FINISHED_ROUND record (builtin-record.c).  `perf       *)
(* script' reads the file, sorts the records (OrderedEvents) and delivers  *)
(* each to the Intel PT code (IntelPtQueues), which first decodes every    *)
(* queue up to the record's time (session.c, intel-pt.c).                  *)
(*                                                                         *)
(* A trace's `events' are the records the kernel writes on each CPU, in    *)
(* time order, with times that are monotonic across CPUs, as the comment   *)
(* on perf_event__process_finished_round assumes.  A full ring buffer      *)
(* (trace.ring_size records) loses what does not fit.                      *)
(***************************************************************************)
EXTENDS IntelPtQueues, OrderedEvents

VARIABLES
  phase,      \* "record", "read", "flush", "deliver", "flushed", "drain", "done"
  written,    \* how many of its events each CPU has written or lost
  ring,       \* the ring buffer of each CPU
  mmap,       \* the buffer the pass under way reads next
  hit,        \* whether the pass has written a record
  data,       \* perf.data, or what of it is still to be read: events and rounds
  lost,       \* the records lost in full ring buffers
  new_data,   \* pt->queues.new_data
  oe,         \* session->ordered_events
  flushing,   \* the flush under way: [how, last_ts]
  delivered   \* the events delivered so far

recordVars == <<written, ring, mmap, hit, lost>>
scriptVars == <<new_data, oe, flushing, delivered>>
vars == <<phase, data, recordVars, scriptVars, queueVars>>

(* The records of a recording: on each CPU with a buffer, in time order    *)
Event ==
  [id : Nat \ {0}, ts : Nat \ {0}, cpu : Queues, type : {"itrace_start", "in", "out", "aux", "other"},
   tid : Int, next : Int]

TraceOK(t) ==
  /\ t.nr_mmaps \in 1..nr_queues
  /\ t.events \in [Queues -> Seq(Event)]
  /\ \A c \in Queues :
       /\ c >= t.nr_mmaps => t.events[c] = <<>>
       /\ \A i \in 1..(Len(t.events[c]) - 1) : t.events[c][i].ts <= t.events[c][i + 1].ts

ASSUME TraceAssumption ==
  /\ nr_queues \in Nat
  /\ \A t \in Traces : TraceOK(t)

Round == [type |-> "round"]
NoFlush == [how |-> "NONE", last_ts |-> 0]

Init ==
  /\ QueuesInit
  /\ phase = "record"
  /\ written = [c \in Queues |-> 0]
  /\ ring = [c \in Queues |-> <<>>]
  /\ mmap = 0
  /\ hit = FALSE
  /\ data = <<>>
  /\ lost = {}
  /\ new_data = TRUE
  /\ oe = NewEvents
  /\ flushing = NoFlush
  /\ delivered = <<>>

(***************************************************************************)
(* perf record                                                             *)
(***************************************************************************)
Unwritten == {c \in Queues : written[c] < Len(trace.events[c])}

NextEvent(c) == trace.events[c][written[c] + 1]

(* The kernel writes records in the order of their times.                  *)
KernelWrites(c) ==
  /\ phase = "record"
  /\ c \in Unwritten
  /\ \A d \in Unwritten : NextEvent(c).ts <= NextEvent(d).ts
  /\ written' = [written EXCEPT ![c] = @ + 1]
  /\ \/ /\ Len(ring[c]) < trace.ring_size
        /\ ring' = [ring EXCEPT ![c] = Append(@, NextEvent(c))]
        /\ UNCHANGED lost
     \/ /\ Len(ring[c]) >= trace.ring_size
        /\ lost' = lost \cup {NextEvent(c).id}
        /\ UNCHANGED ring
  /\ UNCHANGED <<phase, mmap, hit, data, scriptVars, queueVars>>

(* record__mmap_read_evlist: one buffer of the pass, and after the last    *)
(* the mark of the round.  A pass that finds only trace data (at most one  *)
(* per recording here) marks a round as well.                              *)
ReadMmap ==
  /\ phase = "record"
  /\ \E aux \in IF trace.aux /\ data = <<>> THEN BOOLEAN ELSE {FALSE} :
     LET found == aux \/ ring[mmap] # <<>>
         last  == mmap = trace.nr_mmaps - 1
         copied == data \o ring[mmap]
     IN /\ data' = IF last /\ (hit \/ found) THEN Append(copied, Round) ELSE copied
        /\ hit' = IF last THEN FALSE ELSE hit \/ found
        /\ mmap' = IF last THEN 0 ELSE mmap + 1
        /\ ring' = [ring EXCEPT ![mmap] = <<>>]
  /\ UNCHANGED <<phase, written, lost, scriptVars, queueVars>>

(* Recording stops after a pass that finds nothing more.                   *)
StopRecord ==
  /\ phase = "record"
  /\ Unwritten = {}
  /\ mmap = 0 /\ ~hit
  /\ \A c \in Queues : ring[c] = <<>>
  /\ phase' = "read"
  /\ UNCHANGED <<data, recordVars, scriptVars, queueVars>>

(***************************************************************************)
(* perf script                                                             *)
(***************************************************************************)
(* perf_session__process_event: a record with a time is queued.            *)
QueueEvent ==
  /\ phase = "read"
  /\ data # <<>>
  /\ data[1].type # "round"
  /\ oe' = queue_event(oe, data[1])
  /\ data' = Tail(data)
  /\ UNCHANGED <<phase, new_data, flushing, delivered, recordVars, queueVars>>

(* A child of --parallel passes over the PERF_RECORD_AUX events before its *)
(* share, and those after the last PSB it needs: either may be so here.    *)
SkipAux ==
  /\ phase = "read"
  /\ data # <<>>
  /\ data[1].type = "aux"
  /\ data' = Tail(data)
  /\ UNCHANGED <<phase, recordVars, scriptVars, queueVars>>

(* ordered_events__flush: nothing to do when the queue is empty.           *)
Flush(how) ==
  IF oe.list = <<>>
  THEN UNCHANGED <<oe, flushing>>
  ELSE /\ oe' = FlushBegun(oe, how)
       /\ flushing' = [how |-> how, last_ts |-> LastTimestamp(oe)]

(* perf_event__process_finished_round.                                     *)
FinishedRound ==
  /\ phase = "read"
  /\ data # <<>>
  /\ data[1].type = "round"
  /\ data' = Tail(data)
  /\ Flush("ROUND")
  /\ phase' = IF oe.list = <<>> THEN "read" ELSE "flush"
  /\ UNCHANGED <<new_data, delivered, recordVars, queueVars>>

(* __perf_session__process_events at the end of the file: the final flush. *)
EndOfFile ==
  /\ phase = "read"
  /\ data = <<>>
  /\ Flush("FINAL")
  /\ phase' = IF oe.list = <<>> THEN "flushed" ELSE "flush"
  /\ UNCHANGED <<new_data, delivered, data, recordVars, queueVars>>

(* The queues are set up by the first call that finds new data, and        *)
(* decoded up to a time.                                                   *)
ProcessQueues(timestamp) ==
  /\ new_data' = FALSE
  /\ IF new_data THEN intel_pt_setup_queues ELSE UNCHANGED <<heap, ptq>>
  /\ until' = timestamp
  /\ UNCHANGED <<trace, current, sync_switch, kernel_start, turn, out>>

(* do_flush delivers the next event: intel_pt_process_event sets up new    *)
(* queues and processes all queues up to the time of the event ...         *)
Deliver ==
  /\ phase = "flush"
  /\ Due(oe)
  /\ phase' = "deliver"
  /\ ProcessQueues(oe.list[1].ts)
  /\ UNCHANGED <<oe, flushing, delivered, data, recordVars>>

RunQueues ==
  /\ phase \in {"deliver", "drain"}
  /\ Turn
  /\ UNCHANGED <<phase, data, recordVars, scriptVars>>

(* ... and then handles the event itself.                                  *)
Handled ==
  /\ phase = "deliver"
  /\ Processed
  /\ HandleEvent(oe.list[1])
  /\ delivered' = Append(delivered, oe.list[1])
  /\ oe' = ordered_events__delete(oe)
  /\ phase' = "flush"
  /\ UNCHANGED <<new_data, flushing, data, recordVars>>
  /\ UNCHANGED <<trace, sync_switch, kernel_start, until, turn, out>>

(* The end of do_flush and of __ordered_events__flush.                     *)
Flushed ==
  /\ phase = "flush"
  /\ ~Due(oe)
  /\ oe' = FlushDone(oe, flushing.how, flushing.last_ts)
  /\ flushing' = NoFlush
  /\ phase' = IF flushing.how = "FINAL" THEN "flushed" ELSE "read"
  /\ UNCHANGED <<new_data, delivered, data, recordVars, queueVars>>

(* auxtrace__flush_events (intel_pt_flush) decodes what is left.           *)
IntelPtFlush ==
  /\ phase = "flushed"
  /\ phase' = "drain"
  /\ ProcessQueues(ULLONG_MAX)
  /\ UNCHANGED <<oe, flushing, delivered, data, recordVars>>

Finish ==
  /\ phase = "drain"
  /\ Processed
  /\ phase' = "done"
  /\ UNCHANGED <<data, recordVars, scriptVars, queueVars>>

Record == (\E c \in Queues : KernelWrites(c)) \/ ReadMmap \/ StopRecord
Script ==
  \/ QueueEvent \/ SkipAux \/ FinishedRound \/ EndOfFile
  \/ Deliver \/ RunQueues \/ Handled \/ Flushed \/ IntelPtFlush \/ Finish
Next == Record \/ Script
Spec == Init /\ [][Next]_vars /\ WF_vars(Script)

-----------------------------------------------------------------------------
(* Properties *)

(* Records reach the Intel PT code in the order of their times, although   *)
(* the file holds them in the order of the passes: when the queues are     *)
(* decoded up to the time of a record, no earlier record is still in the   *)
(* list or unread in the file.  It is what the rounds of perf record are   *)
(* for (comment at session.c:1048), and lost records do not change it.     *)
DeliveredInOrder ==
  /\ phase = "deliver" => /\ \A i \in 1..Len(oe.list) : until <= oe.list[i].ts
                         /\ \A i \in 1..Len(data) : data[i].type # "round" => until <= data[i].ts
  /\ \A i, j \in 1..Len(delivered) : i < j => delivered[i].ts <= delivered[j].ts

(* The insertion point: the list stays sorted and `last', from which       *)
(* queue_event walks without looking at the list's head, is in the list    *)
(* whenever the queue is used.                                             *)
QueueSound ==
  /\ Sorted(oe.list)
  /\ phase = "read" => LastQueued(oe)

(* The heap holds every queue that is waiting for its turn, once, under    *)
(* the time of the branch it holds back, the earliest on top.              *)
HeapSound ==
  /\ HeapOrdered(heap)
  /\ \A i, j \in 1..Len(heap) : heap[i].queue = heap[j].queue => i = j
  /\ \A i \in 1..Len(heap) :
       /\ heap[i].ordinal = ptq[heap[i].queue].timestamp
       /\ turn # Idle => turn.queue # heap[i].queue
  /\ turn = Idle => \A q \in Queues :
       ptq[q].on_heap <=> \E i \in 1..Len(heap) : heap[i].queue = q

(* Items whose thread is certain: user-level ones when the clock is exact, *)
(* and kernel ones from the first call of the switch function on that is   *)
(* not passed over for want of a time, as long as no kernel code was lost, *)
(* when all of the kernel is traced.                                       *)
Settled(q, i) ==
  /\ trace.whole_kernel
  /\ \E j \in First(q)..(i - 1) : Items(q)[j].kind = "ptss"
  /\ \A j \in 1..i : Items(q)[j].kind # "kernel_error"

Certain(q, i) == (trace.exact /\ Items(q)[i].user) \/ Settled(q, i)

(* Every sample is given the thread that ran the branch, across context    *)
(* switches, migrations and decoding errors, whatever the order in which   *)
(* record passes, switch records and branches to __switch_to are met.      *)
Attributed ==
  lost = {} => \A k \in 1..Len(out) :
    Certain(out[k].queue, out[k].pos) => out[k].tid = Items(out[k].queue)[out[k].pos].tid

(* Samples come out in the order of their times, also between queues, when *)
(* the times are exact.                                                    *)
OutInOrder ==
  trace.exact => \A i, j \in 1..Len(out) : i < j => out[i].time <= out[j].time

(* When perf script is done every branch from the first good one on has    *)
(* been turned into a sample, once and in order: no queue is left waiting  *)
(* for a switch record, unless one was lost.                               *)
AllDecoded ==
  phase = "done" /\ lost = {} => \A q \in Queues :
    LET mine == SelectSeq(out, LAMBDA s : s.queue = q)
        n    == IF First(q) = 0 THEN 0 ELSE Len(Items(q)) - First(q) + 1
    IN Len(mine) = n /\ \A k \in 1..n : mine[k].pos = First(q) + k - 1

(* Reading perf.data comes to an end.                                      *)
ScriptEnds == phase = "read" ~> phase = "done"
=============================================================================
