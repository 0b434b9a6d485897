------------------------------ MODULE FuncStat -------------------------------
(***************************************************************************)
(* The statistics of src/stat_tools.cc and include/stat_tools.h.  Every    *)
(* traced thread has a FuncStat of its own, to which ThreadJob::do_analyze *)
(* adds the invocations of the target it found; print_stat() merges those  *)
(* of all the threads, in the order of an unordered_map, and prints the    *)
(* result.                                                                 *)
(*                                                                         *)
(* An invocation is [caller, t, s, child]: the latency t, the off-CPU time *)
(* s in it, and the sequence child of the calls [name, t, s] it made; one  *)
(* whose begin or end is not in the trace has t = Unknown.  A Distribution *)
(* is [slots, total, count]; a Bucket maps names to [count, total].        *)
(* Left out are the layout, the timeline, sched_count (a number that is    *)
(* added up and printed) and the time_interval (an invocation outside it   *)
(* is ignored as one outside the latency_interval is).                     *)
(***************************************************************************)
EXTENDS Integers, Sequences, SequencesExt

CONSTANTS LatencyMin, LatencyMax,  \* FuncStat::Option::latency_interval
          CodeBlock                \* FuncStat::Option::code_block

Unknown == -1
SELF == "*self"
UNKNOWN == "unknown"

At(f, k, default) == IF k \in DOMAIN f THEN f[k] ELSE default
MergeWith(op(_, _), zero, f, g) ==
  [k \in DOMAIN f \cup DOMAIN g |-> op(At(f, k, zero), At(g, k, zero))]
Empty == [k \in {} |-> 0]

-----------------------------------------------------------------------------
(* Distribution *)
EmptyDist == [slots |-> <<>>, total |-> 0, count |-> 0]

Low(i) == IF i = 0 THEN 0 ELSE 2^i
High(i) == 2^(i + 1) - 1
SlotOf(val) == CHOOSE i \in 0 .. 29 : Low(i) <= val /\ val <= High(i)

(* The slots of a vector resized to the longer of two lengths, added up *)
AddSlots(a, b) ==
  [j \in 1 .. (IF Len(a) < Len(b) THEN Len(b) ELSE Len(a)) |-> At(a, j, 0) + At(b, j, 0)]

merge_slots(d, e) ==
  [slots |-> AddSlots(d.slots, e.slots),
   total |-> d.total + e.total, count |-> d.count + e.count]

assign_slot(d, val) ==
  LET i == SlotOf(val) + 1
  IN  [slots |-> AddSlots(d.slots, [j \in 1 .. i |-> IF j = i THEN 1 ELSE 0]),
       total |-> d.total + val, count |-> d.count + 1]

-----------------------------------------------------------------------------
(* Bucket, Latency, LatencyChild and LatencyCaller *)
NoElement == [count |-> 0, total |-> 0]
AddElement(e, f) == [count |-> e.count + f.count, total |-> e.total + f.total]
add_bucket(b, c) == MergeWith(AddElement, NoElement, b, c)
add_val(b, key, val) == add_bucket(b, [k \in {key} |-> [count |-> 1, total |-> val]])

EmptyChild == [target |-> Empty, sched |-> Empty]
add_child(c, d) == [target |-> add_bucket(c.target, d.target),
                    sched |-> add_bucket(c.sched, d.sched)]

(* LatencyChild::add_target() and add_sched(): no time off CPU, no entry *)
AddCall(c, name, t, s) ==
  [target |-> add_val(c.target, name, t),
   sched |-> IF s = 0 THEN c.sched ELSE add_val(c.sched, name, s)]

EmptyLatency == [target |-> EmptyDist, sched |-> EmptyDist, unknown_count |-> 0]
MergeLatency(l, m) ==
  [target |-> merge_slots(l.target, m.target), sched |-> merge_slots(l.sched, m.sched),
   unknown_count |-> l.unknown_count + m.unknown_count]
(* add_target(), and add_sched() when there was any *)
AddLatency(l, t, s) ==
  [l EXCEPT !.target = assign_slot(@, t), !.sched = IF s = 0 THEN @ ELSE assign_slot(@, s)]

EmptyCaller == [latency |-> EmptyLatency, children |-> EmptyChild]
MergeCaller(c, d) == [latency |-> MergeLatency(c.latency, d.latency),
                      children |-> add_child(c.children, d.children)]

-----------------------------------------------------------------------------
(* FuncStat *)
EmptyStat == [latency |-> EmptyLatency, children |-> EmptyChild, callers |-> Empty]

(* callers[caller], which operator[] creates *)
Caller(stat, caller) == At(stat.callers, caller, EmptyCaller)
WithCaller(stat, caller, c) ==
  [k \in DOMAIN stat.callers \cup {caller} |-> IF k = caller THEN c ELSE stat.callers[k]]

Calls(calls) == FoldLeft(LAMBDA c, e : AddCall(c, e.name, e.t, e.s), EmptyChild, calls)
TargetTotal(calls) == FoldLeft(LAMBDA n, e : n + e.t, 0, calls)
SchedTotal(calls) == FoldLeft(LAMBDA n, e : n + e.s, 0, calls)

Rest(all, part) == IF all > part THEN all - part ELSE 0

(* The calls of an invocation, and what of it none of them accounts for *)
ChildrenOf(inv) ==
  IF CodeBlock \/ inv.t = Unknown THEN Calls(inv.child)
  ELSE AddCall(Calls(inv.child), SELF, Rest(inv.t, TargetTotal(inv.child)),
               Rest(inv.s, SchedTotal(inv.child)))

add_unknown_latency(stat, child, caller) ==
  LET c == Caller(stat, caller)
      callers == WithCaller(stat, caller, [c EXCEPT !.children = add_child(@, child)])
  IN  IF caller = UNKNOWN THEN [stat EXCEPT !.callers = callers]
      ELSE [stat EXCEPT !.callers = callers, !.children = add_child(@, child),
                        !.latency.unknown_count = @ + 1]

(* FuncStat::add() outside timeline mode, or add_unknown_latency() *)
add(stat, inv) ==
  LET c == Caller(stat, inv.caller)
      child == ChildrenOf(inv)
  IN  IF inv.t = Unknown THEN add_unknown_latency(stat, child, inv.caller)
      ELSE IF inv.t < LatencyMin \/ inv.t > LatencyMax THEN stat
      ELSE [latency |-> AddLatency(stat.latency, inv.t, inv.s),
            children |-> add_child(stat.children, child),
            callers |-> WithCaller(stat, inv.caller,
                          [latency |-> AddLatency(c.latency, inv.t, inv.s),
                           children |-> add_child(c.children, child)])]

merge(stat, other) ==
  [latency |-> MergeLatency(stat.latency, other.latency),
   children |-> add_child(stat.children, other.children),
   callers |-> MergeWith(MergeCaller, EmptyCaller, stat.callers, other.callers)]

-----------------------------------------------------------------------------
(* print(), print_latency() and print_child(), without their layout *)
get_avg(e) == IF e.count = 0 THEN 0 ELSE e.total \div e.count

(* The off-CPU time is averaged over the calls; oncpu is target - sched. *)
print_child(c) ==
  [name \in DOMAIN c.target |->
     LET t == c.target[name]
         s == At(c.sched, name, NoElement).total
     IN  [cnt |-> t.count, avg |-> get_avg(t), sched |-> s \div t.count, oncpu |-> t.total - s]]

print_latency(l) ==
  [slots |-> l.target.slots, sched_slots |-> l.sched.slots,
   trace_count |-> l.target.count + l.unknown_count, avg |-> get_avg(l.target),
   sched |-> IF l.target.count = 0 THEN 0 ELSE l.sched.total \div l.target.count]

(* The gathered part only when some latency is known, and not all are 0    *)
print(stat) ==
  LET complete == stat.latency.target.total > 0
      shown == {k \in DOMAIN stat.callers : ~(complete /\ k = UNKNOWN)}
      timed == {k \in shown : k # UNKNOWN /\ stat.callers[k].latency.target.count > 0}
  IN  [all |-> IF complete THEN <<print_latency(stat.latency), print_child(stat.children)>> ELSE <<>>,
       callers |-> [k \in timed |-> print_latency(stat.callers[k].latency)],
       calls |-> [k \in shown |-> print_child(stat.callers[k].children)]]

=============================================================================
