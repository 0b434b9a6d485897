---------------------------- MODULE ThreadAnalyze ----------------------------
(***************************************************************************)
(* ThreadJob::do_analyze() of src/func_latency.cc: the state machine that  *)
(* turns the actions of one traced thread into latencies of the target     *)
(* function and of its children, fed by the traced thread of TracedThread. *)
(*                                                                         *)
(* ctx holds the local variables of do_analyze(), stat what it leaves in   *)
(* FuncStat and in the global status.  A pointer to an action is the       *)
(* action itself; NoAction is the null pointer.  The buckets of a          *)
(* LatencyChild are the sequence of the values added to them.              *)
(***************************************************************************)
EXTENDS TracedThread, SequencesExt

CONSTANT SchedMod  \* 2^32: do_analyze() keeps one schedule in a uint32_t

(* The command line, as far as the analysis reads it *)
OffCpu == Scenario[scene].offcpu           \* param.offcpu
CodeBlock == Scenario[scene].code_block    \* param.code_block
Ancestor == Scenario[scene].ancestor       \* is param.ancestor set?
AncestorFilter == Scenario[scene].ancestor_latency \* can param.ancestor_latency exclude a call?
LatencyMin == Scenario[scene].latency_interval[1]
LatencyMax == Scenario[scene].latency_interval[2]

VARIABLES frames, clock, lost,   \* the traced thread
          begun, completed,      \* target invocations it really began / left
          ctx, stat

vars == <<scene, frames, clock, lost, begun, completed, ctx, stat>>

EmptyContext ==
  [stack |-> <<>>, child |-> <<>>, sched_in_target |-> 0, sched_in_child |-> 0,
   sched_begin |-> NoAction, target_begin |-> NoAction, prev_target_error |-> FALSE,
   ancestor_begin |-> NoAction, cursor |-> NoAction, wrong_chain |-> TRUE,
   no_hw_int_from_head |-> TRUE]

EmptyStat ==
  [count |-> 0, last |-> NoAction, unknown_count |-> 0, sched_count |-> 0, miss |-> 0]

-----------------------------------------------------------------------------
(* ParseJob::decode_to_actions(): the flags of an action, and which        *)
(* actions are kept at all.                                                *)
FromTarget(a) == a.from = "target"
ToTarget(a) == a.to = "target"

SchedBegin(a) ==
  OffCpu /\ a.to = "__schedule" /\ a.toff = 0 /\ a.type \in {"CALL", "TR_START"}
SchedEnd(a) ==
  OffCpu /\ ~SchedBegin(a) /\ a.from = "__schedule" /\ a.type \in {"RETURN", "TR_END_RETURN"}

AncestorBegin(a) ==
  Ancestor /\ a.to = "ancestor" /\ a.toff = 0 /\ a.type \in {"CALL", "TR_START"}
AncestorEnd(a) ==
  Ancestor /\ ~AncestorBegin(a) /\ a.from = "ancestor" /\ a.type \in {"RETURN", "TR_END_RETURN"}

Kept(a) ==
  /\ a # NoAction
  /\ a.type = "ERROR" \/
       (/\ FromTarget(a) \/ ToTarget(a) \/ SchedBegin(a) \/ SchedEnd(a)
             \/ AncestorBegin(a) \/ AncestorEnd(a)
        /\ ~(~CodeBlock /\ FromTarget(a) /\ ToTarget(a)))

-----------------------------------------------------------------------------
(* The lambdas of do_analyze() *)

ClearContext(c) ==
  [c EXCEPT !.stack = <<>>, !.child = <<>>, !.sched_in_child = 0, !.sched_in_target = 0,
            !.sched_begin = NoAction, !.ancestor_begin = NoAction]

(* Mutant: the off-CPU time of the whole target is charged to the child. *)
AddOneChildTargetSched(c, a1, a2, unknown) ==
  [c EXCEPT !.child = Append(@, [kind |-> IF unknown THEN "unknown" ELSE "call",
                                 lo |-> 0, hi |-> 0, starts |-> {},
                                 t |-> IF unknown THEN 0 ELSE a2.ts - a1.ts,
                                 s |-> IF unknown THEN 0 ELSE c.sched_in_target]),
            !.sched_in_child = 0]

(* One value of a child: an unknown latency counts zero. *)
AddOneChild(c, a1, a2, unknown) ==
  [c EXCEPT !.child = Append(@, [kind |-> IF unknown THEN "unknown" ELSE "call",
                                 lo |-> 0, hi |-> 0, starts |-> {},
                                 t |-> IF unknown THEN 0 ELSE a2.ts - a1.ts,
                                 s |-> IF unknown THEN 0 ELSE c.sched_in_child]),
            !.sched_in_child = 0]

(* History: where the run that ends here really began, and where control   *)
(* was when the runs before it were nothing but a jump                     *)
Starts == {Top(frames).off} \cup Top(frames).lone

(* Mutant: the cursor stays behind. *)
AddCodeBlockNoCursor(c, a1, a2) ==
  IF a2.foff = a1.toff THEN c
  ELSE [c EXCEPT !.child = Append(@, [kind |-> "block", lo |-> a1.toff, hi |-> a2.foff,
                                      starts |-> Starts,
                                      t |-> a2.ts - a1.ts, s |-> c.sched_in_child]),
                 !.sched_in_child = 0]

(* Mutant: the time stamps are swapped. *)
AddCodeBlockSwapped(c, a1, a2) ==
  IF a2.foff = a1.toff THEN c
  ELSE [c EXCEPT !.child = Append(@, [kind |-> "block", lo |-> a1.toff, hi |-> a2.foff,
                                      starts |-> Starts,
                                      t |-> a1.ts - a2.ts, s |-> c.sched_in_child]),
                 !.sched_in_child = 0,
                 !.cursor = a2]

(* The block from where a1 landed to where a2 left; nothing happens when   *)
(* that is the same instruction: not even the cursor moves then.           *)
AddCodeBlock(c, a1, a2) ==
  IF a2.foff = a1.toff THEN c
  ELSE [c EXCEPT !.child = Append(@, [kind |-> "block", lo |-> a1.toff, hi |-> a2.foff,
                                      starts |-> Starts,
                                      t |-> a2.ts - a1.ts, s |-> c.sched_in_child]),
                 !.sched_in_child = 0,
                 !.cursor = a2]

TargetTotal(child) == FoldLeft(LAMBDA n, e : n + e.t, 0, child)
SchedTotal(child) == FoldLeft(LAMBDA n, e : n + e.s, 0, child)

(* FuncStat::add(): outside the latency interval nothing is counted. *)
StatAdd(s, call, ret, lat_s, child, truth) ==
  LET lat_t == ret.ts - call.ts
  IN  IF lat_t < LatencyMin \/ lat_t > LatencyMax THEN s
      ELSE [s EXCEPT !.count = @ + 1,
                     !.last = [type |-> "latency", t |-> lat_t, s |-> lat_s,
                               kids |-> TargetTotal(child), kids_s |-> SchedTotal(child),
                               ret |-> ret.ts, truth |-> truth]]

(* add_unknown_latency() counts the call when the caller is known. *)
AddUnknownLatency(s, known) == [s EXCEPT !.unknown_count = @ + (IF known THEN 1 ELSE 0)]

-----------------------------------------------------------------------------
(* The body of the loop, one action per exit of it.  `truth' is the target *)
(* invocation the traced thread leaves with this action, if it leaves one. *)

(* init_action() dropped it, or the branch was not traced. *)
Dropped(a) ==
  /\ ~Kept(a)
  /\ UNCHANGED <<ctx, stat>>

(* Lost trace data: discard the chain. *)
OnError(a) ==
  /\ Kept(a) /\ a.type = "ERROR"
  /\ stat' = AddUnknownLatency(stat, FALSE)
  /\ ctx' = [ClearContext(ctx) EXCEPT !.prev_target_error = TRUE]

(* Mutant: any branch into the target is a call. *)
IsBeginAny(a) == ToTarget(a) /\ ctx.no_hw_int_from_head

IsBegin(a) == a.toff = 0 /\ ToTarget(a) /\ ctx.no_hw_int_from_head

(* The trace time that an error cost: since the last begin of the target. *)
MissTime(a) ==
  IF ctx.prev_target_error /\ ctx.target_begin # NoAction
    THEN a.ts - ctx.target_begin.ts ELSE 0

(* Mutant: target_begin stays at the first begin. *)
NewChainStale(a) ==
  [ctx EXCEPT !.stack = <<a>>, !.child = <<>>, !.sched_in_target = 0, !.sched_in_child = 0,
              !.sched_begin = NoAction, !.prev_target_error = FALSE,
              !.target_begin = IF @ = NoAction THEN a ELSE @, !.wrong_chain = FALSE, !.cursor = a]

NewChain(a) ==
  [ctx EXCEPT !.stack = <<a>>, !.child = <<>>, !.sched_in_target = 0, !.sched_in_child = 0,
              !.sched_begin = NoAction, !.prev_target_error = FALSE,
              !.target_begin = a, !.wrong_chain = FALSE, !.cursor = a]

(* The target is called: close the previous round, start a chain. *)
OnTargetBegin(a) ==
  /\ Kept(a) /\ a.type # "ERROR" /\ IsBegin(a)
  /\ LET noReturn == ctx.target_begin # NoAction /\ Len(ctx.stack) = 2
         c == IF noReturn THEN AddOneChild(ctx, Last(ctx.stack), a, TRUE) ELSE ctx
         known == ~ctx.wrong_chain /\ ctx.target_begin # NoAction
         s == IF c.child # <<>> THEN AddUnknownLatency(stat, known) ELSE stat
     IN  stat' = [s EXCEPT !.miss = @ + MissTime(a)]
  /\ ctx' = NewChain(a)

(* Mutant: actions outside the ancestor are kept. *)
FilteredMarksOnly(a) == Ancestor /\ (AncestorBegin(a) \/ AncestorEnd(a))

(* The ancestor filter consumes the action. *)
Filtered(a) ==
  Ancestor /\ (AncestorBegin(a) \/ AncestorEnd(a) \/ ctx.ancestor_begin = NoAction)

(* Not an error and not a begin of the target: the rest of the loop body *)
Ordinary(a) == Kept(a) /\ a.type # "ERROR" /\ ~IsBegin(a)

(* With an ancestor_latency interval the code looks ahead for the end of   *)
(* the ancestor and forgets the begin when the interval excludes the call: *)
(* either outcome is possible.                                             *)
OnAncestor(a) ==
  /\ Ordinary(a) /\ Filtered(a)
  /\ \E begin \in (IF AncestorBegin(a) THEN {a} ELSE {})
                   \cup (IF ~AncestorBegin(a) \/ AncestorFilter THEN {NoAction} ELSE {}) :
       ctx' = [ctx EXCEPT !.ancestor_begin = begin]
  /\ UNCHANGED stat

Unfiltered(a) == Ordinary(a) /\ ~Filtered(a)

OnSchedBegin(a) ==
  /\ Unfiltered(a) /\ SchedBegin(a)
  /\ ctx' = [ctx EXCEPT !.sched_begin = a]
  /\ UNCHANGED stat

OnSchedEnd(a) ==
  /\ Unfiltered(a) /\ SchedEnd(a)
  /\ IF ctx.sched_begin = NoAction THEN UNCHANGED <<ctx, stat>>
     ELSE LET sched_time == (a.ts - ctx.sched_begin.ts) % SchedMod
          IN  /\ ctx' = [ctx EXCEPT !.sched_in_target = @ + sched_time,
                                    !.sched_in_child = @ + sched_time,
                                    !.sched_begin = NoAction]
              /\ stat' = [stat EXCEPT !.sched_count = @ + 1]

Jump(a) == a.type \in {"JMP", "JCC"}

OnInnerJump(a) ==
  /\ Unfiltered(a) /\ ~SchedBegin(a) /\ ~SchedEnd(a)
  /\ Jump(a) /\ FromTarget(a) /\ ToTarget(a)
  /\ ctx' = AddCodeBlock(ctx, ctx.cursor, a)
  /\ UNCHANGED stat

(* Mutant: a jump out of the target is always a call. *)
ConvertedToCall(a) == IF Jump(a) THEN [a EXCEPT !.type = "CALL"] ELSE a

(* A jump out of the target is a call (to the start of a function) or a    *)
(* return, a jump into it a return.                                        *)
Converted(a) ==
  IF ~Jump(a) THEN a
  ELSE [a EXCEPT !.type = IF FromTarget(a) /\ a.toff = 0 THEN "CALL" ELSE "RETURN"]

(* What the switch finds: the converted action and the context in which    *)
(* the interrupt flag has been updated.                                    *)
Switched(a, types) ==
  /\ Unfiltered(a) /\ ~SchedBegin(a) /\ ~SchedEnd(a)
  /\ ~(Jump(a) /\ FromTarget(a) /\ ToTarget(a))
  /\ Converted(a).type \in types
HeadFlag(a) ==
  [ctx EXCEPT !.no_hw_int_from_head = ~(a.type = "HW_INT" /\ FromTarget(a) /\ a.foff = 0)]

OnTraceStart(a) ==
  /\ Switched(a, {"TR_START"})
  /\ LET c == HeadFlag(a)
         top == IF c.stack = <<>> THEN "empty" ELSE Last(c.stack).type
     IN  ctx' = CASE top \in {"TR_END_HW_INT", "TR_END_CALL"} ->
                       [AddOneChild(c, Last(c.stack), a, FALSE) EXCEPT
                          !.stack = Front(c.stack), !.cursor = a]
                  [] top = "TR_END" ->
                       [c EXCEPT !.stack = Front(@), !.sched_in_child = 0, !.cursor = a]
                  [] OTHER ->
                       [c EXCEPT !.stack = <<>>, !.wrong_chain = TRUE,
                                 !.sched_in_child = 0, !.cursor = a]
  /\ UNCHANGED stat

(* Mutant: the off-CPU time of the target is reset as well. *)
OnChildCallReset(a) ==
  /\ Switched(a, {"HW_INT", "TR_END_HW_INT", "CALL", "TR_END_SYSCALL", "TR_END_CALL"})
  /\ LET c == HeadFlag(a)
         b == IF CodeBlock THEN AddCodeBlock(c, c.cursor, a) ELSE c
     IN  ctx' = [b EXCEPT !.stack = Append(@, Converted(a)), !.sched_begin = NoAction,
                          !.sched_in_target = 0, !.sched_in_child = 0, !.cursor = a]
  /\ UNCHANGED stat

OnChildCall(a) ==
  /\ Switched(a, {"HW_INT", "TR_END_HW_INT", "CALL", "TR_END_SYSCALL", "TR_END_CALL"})
  /\ LET c == HeadFlag(a)
         b == IF CodeBlock THEN AddCodeBlock(c, c.cursor, a) ELSE c
     IN  ctx' = [b EXCEPT !.stack = Append(@, Converted(a)), !.sched_begin = NoAction,
                          !.sched_in_child = 0, !.cursor = a]
  /\ UNCHANGED stat

OnTraceEnd(a) ==
  /\ Switched(a, {"TR_END"})
  /\ ctx' = [HeadFlag(a) EXCEPT !.stack = Append(@, a), !.cursor = a]
  /\ UNCHANGED stat

Returning == {"IRET", "RETURN", "TR_END_RETURN"}

(* The chain is complete: only the call of the target is on the stack. *)
TargetDone(a) == Len(ctx.stack) = 1 /\ FromTarget(a) /\ ToTarget(ctx.stack[1])
(* The last call on the stack came from the target and returns to it. *)
ChildDone(a) ==
  ctx.stack # <<>> /\ FromTarget(Last(ctx.stack)) /\ Converted(a).type # "TR_END_RETURN"

OnTargetReturn(a, truth) ==
  /\ Switched(a, Returning) /\ TargetDone(a)
  /\ stat' = StatAdd(stat, ctx.stack[1], a, ctx.sched_in_target, ctx.child, truth)
  /\ ctx' = [HeadFlag(a) EXCEPT !.child = <<>>, !.sched_in_target = 0,
                                !.stack = <<>>, !.cursor = a]

OnChildReturn(a) ==
  /\ Switched(a, Returning) /\ ~TargetDone(a) /\ ChildDone(a)
  /\ ctx' = [AddOneChild(HeadFlag(a), Last(ctx.stack), a, FALSE) EXCEPT
               !.stack = Front(ctx.stack), !.cursor = a]
  /\ UNCHANGED stat

OnWrongReturn(a) ==
  /\ Switched(a, Returning) /\ ~TargetDone(a) /\ ~ChildDone(a)
  /\ ctx' = [HeadFlag(a) EXCEPT !.stack = <<>>, !.wrong_chain = TRUE,
                                !.sched_in_target = 0, !.sched_in_child = 0, !.cursor = a]
  /\ UNCHANGED stat

(* `default': only the cursor moves. *)
OnOther(a) ==
  /\ Switched(a, {"SYSCALL", "SYSRET"})
  /\ ctx' = [HeadFlag(a) EXCEPT !.cursor = a]
  /\ UNCHANGED stat

Analyze(a, truth) ==
  \/ Dropped(a) \/ OnError(a) \/ OnTargetBegin(a) \/ OnAncestor(a)
  \/ OnSchedBegin(a) \/ OnSchedEnd(a) \/ OnInnerJump(a) \/ OnTraceStart(a)
  \/ OnChildCall(a) \/ OnTraceEnd(a) \/ OnTargetReturn(a, truth)
  \/ OnChildReturn(a) \/ OnWrongReturn(a) \/ OnOther(a)

-----------------------------------------------------------------------------
Init ==
  /\ scene \in DOMAIN Scenario
  /\ frames = <<Frame("root", "call", 0)>>
  /\ clock = 0 /\ lost = FALSE /\ begun = 0 /\ completed = 0
  /\ ctx = EmptyContext /\ stat = EmptyStat

Began(t) == Len(t.frames) > Len(frames) /\ Top(t.frames).fn = "target"

(* The thread transfers control; while data is lost nobody sees it. *)
Step ==
  \E d \in Ticks :
    /\ clock + d <= MaxClock
    /\ clock' = clock + d
    /\ \E t \in Transfers(frames, clock + d) :
         /\ frames' = t.frames
         /\ begun' = begun + (IF Began(t) THEN 1 ELSE 0)
         /\ completed' = completed + (IF t.left # NoAction THEN 1 ELSE 0)
         /\ IF lost THEN UNCHANGED <<ctx, stat>> ELSE Analyze(t.act, t.left)
    /\ UNCHANGED <<scene, lost>>

Lose ==
  /\ "loss" \in Kinds /\ ~lost /\ clock < MaxClock
  /\ lost' = TRUE /\ clock' = clock + 1
  /\ Analyze(Error(clock + 1), NoAction)
  /\ UNCHANGED <<scene, frames, begun, completed>>

Resync ==
  /\ lost /\ clock < MaxClock /\ CanResume(frames)
  /\ lost' = FALSE /\ clock' = clock + 1
  /\ Analyze(Resume(frames, clock + 1), NoAction)
  /\ UNCHANGED <<scene, frames, begun, completed>>

Next == Step \/ Lose \/ Resync
Spec == Init /\ [][Next]_vars

-----------------------------------------------------------------------------
(* Properties *)

(* A latency that do_analyze() records is the latency of one invocation of *)
(* the target: the call it starts from is the call of the invocation that  *)
(* really ends, whatever was lost, interrupted, unwound or tail-called in  *)
(* between.                                                                *)
LatencyIsReal ==
  stat.last # NoAction =>
    /\ stat.last.truth # NoAction
    /\ stat.last.t = stat.last.ret - stat.last.truth.start

(* The trace holds every branch, and no jump leaves the target for good to *)
(* another function.                                                       *)
Complete ==
  Mode = "kernel" /\ Kinds \cap {"loss", "tail"} = {} /\ ~CodeBlock /\ ~Ancestor

(* The off-CPU time and the time of the children that are charged to an    *)
(* invocation are exactly its own.                                         *)
ChargesAreExact ==
  stat.last # NoAction =>
    /\ stat.last.s = stat.last.truth.offcpu
    /\ stat.last.kids = stat.last.truth.kids

(* The charges of do_analyze() are exact when the trace is complete.       *)
ExactWhenComplete == Complete => ChargesAreExact

(* Children and code blocks never overlap: together they take no longer    *)
(* than the invocation, so the *self latency of FuncStat::add() is not     *)
(* clipped at zero; the same for the off-CPU time.                         *)
ChildrenFit ==
  stat.last # NoAction =>
    /\ stat.last.kids <= stat.last.t
    /\ stat.last.kids_s <= stat.last.s
    /\ stat.last.s <= stat.last.t

(* Every invocation that returns is recorded.                              *)
EveryReturnRecorded == stat.count = completed

(* do_analyze() misses no invocation of a complete trace.                  *)
RecordedWhenComplete == Complete => EveryReturnRecorded

(* What lost data adds to the statistics stays within what happened: the   *)
(* `trace count' that is printed, recorded plus unknown latencies, never   *)
(* exceeds the number of calls of the target, and the missing trace time   *)
(* is made of disjoint stretches of the trace.                             *)
LossWithinTrace == stat.count + stat.unknown_count <= begun /\ stat.miss <= clock

(* The assertion in add_code_block(): a code block is not off CPU for      *)
(* longer than it takes.                                                   *)
BlockSchedFits == \A i \in 1..Len(ctx.child) :
  ctx.child[i].kind = "block" => ctx.child[i].t >= ctx.child[i].s

(* A code block begins where the run that it ends really began or, since   *)
(* add_code_block() leaves the cursor where it is when a run is nothing    *)
(* but a jump, at such a jump: then the block spans several runs, which is *)
(* not "from the point one branch ends to the point another branch starts" *)
(* (README.md:143).  Nothing else that happens in between (calls, returns, *)
(* interrupts, system calls) leaves the cursor behind.                     *)
BlockStartsReached == \A i \in 1..Len(ctx.child) :
  ctx.child[i].kind = "block" => ctx.child[i].lo \in ctx.child[i].starts

(* With an ancestor only invocations inside it are recorded: the return    *)
(* happens while the ancestor is on the stack.                             *)
OnlyInsideAncestor ==
  [][Ancestor /\ stat'.count # stat.count =>
       \E i \in 1..Len(frames') : frames'[i].fn = "ancestor"]_vars
=============================================================================
