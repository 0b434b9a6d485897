---------------------------- MODULE TracedThread ----------------------------
(***************************************************************************)
(* The traced thread as `perf script' shows it to func_latency: a call     *)
(* stack that grows and shrinks, and the branch record that every control  *)
(* transfer leaves in the trace.  This is the environment of the analyser  *)
(* in ThreadAnalyze; it stands for the CPU, the kernel's Intel PT driver   *)
(* and the stock part of perf's decoder, none of which is pt_perf code.    *)
(*                                                                         *)
(* Besides what the trace contains, a frame carries what really happened   *)
(* (when it was entered, how long it was off CPU, how long it spent in     *)
(* functions it called, where its current straight-line run began, and     *)
(* where it jumped from as soon as it had landed there: `lone').  The      *)
(* analyser never reads that; the properties compare with it.              *)
(***************************************************************************)
EXTENDS Integers, Sequences, FiniteSets

CONSTANTS
  Scenario,    \* [name -> record]: what is traced, how, and with which bounds
  Ticks        \* possible distances between two transfers

VARIABLE scene \* the scenario of this behaviour

Mode == Scenario[scene].mode           \* "kernel": everything is traced (-o);
                                       \* "user": user space only;
                                       \* "ip": only the target function (-i)
CallGraph == Scenario[scene].graph     \* [function -> set of functions it calls]
Kinds == Scenario[scene].kinds         \* its transfers, a subset of AllKinds
HeadInt == Scenario[scene].head_int    \* may an interrupt hit the target's first instruction?
MaxOff == Scenario[scene].max_off      \* offsets inside the target are 0..MaxOff+1
MaxDepth == Scenario[scene].max_depth  \* bound on the call stack
MaxClock == Scenario[scene].max_clock  \* bound on the time stamp

AllKinds == {"int", "syscall", "sched", "tail", "unwind", "jcc", "loss"}

UserFn == {"root", "ancestor", "target", "child"}

ASSUME TraceAssumption ==
  /\ \A n \in DOMAIN Scenario :
       /\ Scenario[n].mode \in {"kernel", "user", "ip"}
       /\ Scenario[n].graph \in [UserFn -> SUBSET UserFn]
       /\ Scenario[n].kinds \subseteq AllKinds
       /\ Scenario[n].head_int \in BOOLEAN
       /\ {Scenario[n].max_off, Scenario[n].max_depth, Scenario[n].max_clock} \subseteq Nat
  /\ Ticks \subseteq Nat

NoAction == [type |-> "none"]

Frame(fn, via, ts) ==
  [fn |-> fn, via |-> via, off |-> 0, lone |-> {}, start |-> ts, offcpu |-> 0, kids |-> 0]

-----------------------------------------------------------------------------
(* What the trace shows of a branch: both ends traced, only the source, or *)
(* only the destination (the source is then the symbol [unknown]).         *)
Traced(fn) == CASE Mode = "kernel" -> TRUE
                [] Mode = "user" -> fn \in UserFn
                [] Mode = "ip" -> fn = "target"

InnerType == [call |-> "CALL", ret |-> "RETURN", jmp |-> "JMP", jcc |-> "JCC",
              int |-> "HW_INT", iret |-> "IRET", syscall |-> "SYSCALL", sysret |-> "SYSRET"]
EndType == [call |-> "TR_END_CALL", ret |-> "TR_END_RETURN", jmp |-> "TR_END", jcc |-> "TR_END",
            int |-> "TR_END_HW_INT", iret |-> "TR_END_RETURN", syscall |-> "TR_END_SYSCALL",
            sysret |-> "TR_END_RETURN"]

Branch(kind, from, foff, to, toff, ts) ==
  CASE Traced(from) /\ Traced(to) ->
         [type |-> InnerType[kind], from |-> from, foff |-> foff, to |-> to, toff |-> toff, ts |-> ts]
    [] Traced(from) /\ ~Traced(to) ->
         [type |-> EndType[kind], from |-> from, foff |-> foff, to |-> to, toff |-> toff, ts |-> ts]
    [] ~Traced(from) /\ Traced(to) ->
         [type |-> "TR_START", from |-> "[unknown]", foff |-> 0, to |-> to, toff |-> toff, ts |-> ts]
    [] OTHER -> NoAction

Error(ts) == [type |-> "ERROR", from |-> "none", foff |-> 0, to |-> "none", toff |-> 0, ts |-> ts]

-----------------------------------------------------------------------------
(* One transfer: the branch, the stack after it, and the target invocation *)
(* it leaves for good (NoAction when it leaves none).                      *)
Transfer(act, frames, left) == [act |-> act, frames |-> frames, left |-> left]

Top(frames) == frames[Len(frames)]
Pop(frames) == SubSeq(frames, 1, Len(frames) - 1)
SetTop(frames, f) == [frames EXCEPT ![Len(frames)] = f]
Left(f) == IF f.fn = "target" THEN f ELSE NoAction

(* A frame's off is where its current straight-line run began (the last    *)
(* branch into it landed there); it can branch from there on.  Only the    *)
(* target's offsets matter to the analyser.                                *)
Sources(f) == IF f.fn = "target" THEN {f.off} \cup (f.off..MaxOff) ELSE {f.off}
After(f, foff) == IF f.fn = "target" THEN foff + 1 ELSE 1

Push(frames, g, via, kind, foff, resume, ts) ==
  LET f == Top(frames)
  IN  Transfer(Branch(kind, f.fn, foff, g, 0, ts),
               Append(SetTop(frames, [f EXCEPT !.off = resume, !.lone = {}]), Frame(g, via, ts)),
               NoAction)

Calls(frames, ts) ==
  LET f == Top(frames)
  IN  IF f.fn \notin UserFn \/ Len(frames) >= MaxDepth THEN {}
      ELSE {Push(frames, g, "call", "call", foff, After(f, foff), ts) :
              g \in CallGraph[f.fn], foff \in Sources(f)}

Interrupts(frames, ts) ==
  LET f == Top(frames)
  IN  IF "int" \notin Kinds \/ f.fn \notin UserFn THEN {}
      ELSE {Push(frames, "kernel", "int", "int", foff, foff, ts) :
              foff \in {o \in Sources(f) : o > 0 \/ f.fn # "target" \/ HeadInt}}

Syscalls(frames, ts) ==
  LET f == Top(frames)
  IN  IF "syscall" \notin Kinds \/ f.fn \notin UserFn THEN {}
      ELSE {Push(frames, "kernel", "syscall", "syscall", foff, After(f, foff), ts) :
              foff \in Sources(f)}

Schedules(frames, ts) ==
  IF "sched" \notin Kinds \/ Top(frames).fn # "kernel" THEN {}
  ELSE {Push(frames, "__schedule", "call", "call", 1, 1, ts)}

(* Leaving the top frame for its caller.  Time in __schedule is off-CPU    *)
(* time of every frame below; time in a called function or an interrupt is *)
(* child time of the caller.                                               *)
Return(frames, kind, foff, ts) ==
  LET f == Top(frames)
      rest == Pop(frames)
      c == Top(rest)
      spent == ts - f.start
      back == SetTop(rest, [c EXCEPT !.kids = @ + (IF f.via = "syscall" THEN 0 ELSE spent)])
  IN  Transfer(Branch(kind, f.fn, foff, c.fn, c.off, ts),
               IF f.fn # "__schedule" THEN back
               ELSE [i \in 1..Len(back) |-> [back[i] EXCEPT !.offcpu = @ + spent]],
               Left(f))

Returns(frames, ts) ==
  LET f == Top(frames)
      kind == CASE f.via = "int" -> "iret" [] f.via = "syscall" -> "sysret" [] OTHER -> "ret"
  IN  IF Len(frames) = 1 THEN {}
      ELSE {Return(frames, kind, foff, ts) : foff \in Sources(f)}

(* An exception unwinds the top frame: a jump into the caller. *)
Unwinds(frames, ts) ==
  LET f == Top(frames)
  IN  IF "unwind" \notin Kinds \/ Len(frames) = 1 \/ f.fn \notin UserFn THEN {}
      ELSE {Return(frames, "jmp", foff, ts) : foff \in Sources(f)}

(* A tail call: the target jumps to the start of another function. *)
TailCalls(frames, ts) ==
  LET f == Top(frames)
  IN  IF "tail" \notin Kinds \/ f.fn # "target" THEN {}
      ELSE {Transfer(Branch("jmp", "target", foff, "child", 0, ts),
                     SetTop(frames, Frame("child", f.via, ts)), Left(f)) : foff \in Sources(f)}

(* A jump inside the target; it lands behind the first instruction.  It    *)
(* may be the only instruction of its run.                                 *)
Jumped(f, from, to) ==
  [f EXCEPT !.off = to, !.lone = IF from = f.off THEN @ \cup {from} ELSE @]
InnerJumps(frames, ts) ==
  LET f == Top(frames)
  IN  IF "jcc" \notin Kinds \/ f.fn # "target" THEN {}
      ELSE {Transfer(Branch("jcc", "target", o[1], "target", o[2], ts),
                     SetTop(frames, Jumped(f, o[1], o[2])), NoAction) :
              o \in Sources(f) \X (1..MaxOff)}

Transfers(frames, ts) ==
  UNION {Calls(frames, ts), Returns(frames, ts), Interrupts(frames, ts), Syscalls(frames, ts),
         Schedules(frames, ts), Unwinds(frames, ts), TailCalls(frames, ts), InnerJumps(frames, ts)}

(* After a loss the decoder resumes with a trace start at the current      *)
(* instruction, past the first one of the target.                          *)
CanResume(frames) == Top(frames).fn # "target" \/ Top(frames).off > 0
Resume(frames, ts) ==
  IF Traced(Top(frames).fn)
    THEN [type |-> "TR_START", from |-> "[unknown]", foff |-> 0,
          to |-> Top(frames).fn, toff |-> Top(frames).off, ts |-> ts]
    ELSE NoAction
=============================================================================
