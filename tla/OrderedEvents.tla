--------------------------- MODULE OrderedEvents ---------------------------
(***************************************************************************)
(* The queue in which perf sorts the records of perf.data by time          *)
(* (tools/perf/util/ordered-events.c).  Records of several CPUs arrive in  *)
(* the order `perf record' drained the ring buffers; the queue holds them  *)
(* back and hands over, at the end of every round, those no later round    *)
(* can precede.                                                            *)
(*                                                                         *)
(* A queue is a record: `list' is the time-ordered list, `last' the        *)
(* identity of the record queued last (0 for NULL), which is where the     *)
(* next insertion starts to search.  An event has an identity `id' > 0 and *)
(* a timestamp `ts' > 0.  Allocation (alloc_event) always succeeds:        *)
(* max_alloc_size is (u64)-1 unless perf's configuration says otherwise,   *)
(* so the HALF flush of a full queue does not occur.                       *)
(***************************************************************************)
EXTENDS Integers, Sequences

ULLONG_MAX == 1000000

NewEvents ==
  [list |-> <<>>, last |-> 0, max_timestamp |-> 0, next_flush |-> 0, last_flush |-> 0]

Least(S) == CHOOSE i \in S : \A j \in S : i <= j

Greatest(S) == CHOOSE i \in S : \A j \in S : j <= i

InsertBefore(list, i, e) == SubSeq(list, 1, i - 1) \o <<e>> \o SubSeq(list, i, Len(list))

IndexOf(list, id) == CHOOSE i \in 1..Len(list) : list[i].id = id

(* Where the two search loops of queue_event stop: the first later event    *)
(* behind position i, the last event not later before it.                  *)
After(list, i, ts) == {j \in (i + 1)..Len(list) : list[j].ts > ts}

Before(list, i, ts) == {j \in 1..(i - 1) : list[j].ts <= ts}

queue_event(oe, e) ==
  LET list == oe.list
      i    == IndexOf(list, oe.last)
      later == After(list, i, e.ts)
      earlier == Before(list, i, e.ts)
      queued(l) == [oe EXCEPT !.list = l, !.last = e.id]
      newest(l) == [oe EXCEPT !.list = l, !.last = e.id, !.max_timestamp = e.ts]
  IN CASE oe.last = 0 -> newest(<<e>> \o list)
       [] oe.last # 0 /\ list[i].ts <= e.ts /\ later = {} -> newest(Append(list, e))
       [] oe.last # 0 /\ list[i].ts <= e.ts /\ later # {} ->
            queued(InsertBefore(list, Least(later), e))
       [] oe.last # 0 /\ list[i].ts > e.ts /\ earlier = {} -> queued(<<e>> \o list)
       [] oe.last # 0 /\ list[i].ts > e.ts /\ earlier # {} ->
            queued(InsertBefore(list, Greatest(earlier) + 1, e))

(* do_flush: the next event it delivers, and what it does after the loop.  *)
Due(oe) == oe.list # <<>> /\ oe.next_flush # 0 /\ oe.list[1].ts <= oe.next_flush

ordered_events__delete(oe) ==
  [oe EXCEPT !.list = Tail(oe.list), !.last_flush = oe.list[1].ts]

(* The position to search from next: last_ts is the timestamp of the last  *)
(* queued event when the flush began.                                      *)
Relocated(oe, last_ts) ==
  IF oe.next_flush = 0 THEN oe.last
  ELSE IF oe.list = <<>> THEN 0
  ELSE IF last_ts <= oe.next_flush THEN oe.list[Len(oe.list)].id
  ELSE oe.last

LastTimestamp(oe) == IF oe.last = 0 THEN 0 ELSE oe.list[IndexOf(oe.list, oe.last)].ts

(* A mutant: the round flushes up to its own maximum, a round too early.   *)
FlushBegunNow(oe, how) ==
  [oe EXCEPT !.next_flush = IF how = "FINAL" THEN ULLONG_MAX ELSE oe.max_timestamp]

(* __ordered_events__flush before and after do_flush.                      *)
FlushBegun(oe, how) == IF how = "FINAL" THEN [oe EXCEPT !.next_flush = ULLONG_MAX] ELSE oe

FlushDone(oe, how, last_ts) ==
  [oe EXCEPT !.last = Relocated(oe, last_ts),
             !.next_flush = IF how = "ROUND" THEN oe.max_timestamp ELSE oe.next_flush]

(* What the insertion relies on and keeps: the list is sorted, identities  *)
(* are unique, and `last' is in the list unless it is empty.               *)
Sorted(list) == \A i, j \in 1..Len(list) : i < j => list[i].ts <= list[j].ts

LastQueued(oe) ==
  IF oe.list = <<>> THEN oe.last = 0 ELSE \E i \in 1..Len(oe.list) : oe.list[i].id = oe.last
=============================================================================
