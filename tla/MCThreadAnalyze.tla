--------------------------- MODULE MCThreadAnalyze ---------------------------
(* The scenarios of the runs of ThreadAnalyze. *)
EXTENDS ThreadAnalyze, TLC

(* The target calls a child and is called from one place. *)
PlainGraph == [f \in UserFn |->
  CASE f = "root" -> {"target", "child"}
    [] f = "target" -> {"child"}
    [] OTHER -> {}]

(* The target also calls itself, directly and through the child. *)
RecursiveGraph == [f \in UserFn |->
  CASE f = "root" -> {"target"}
    [] f = "target" -> {"child", "target"}
    [] f = "child" -> {"target"}
    [] OTHER -> {}]

(* The target is called inside the ancestor and outside of it, and calls   *)
(* the ancestor.                                                           *)
AncestorGraph == [f \in UserFn |->
  CASE f = "root" -> {"target", "ancestor"}
    [] f = "ancestor" -> {"target"}
    [] f = "target" -> {"child", "ancestor"}
    [] OTHER -> {}]

Base ==
  [mode |-> "kernel", graph |-> PlainGraph, kinds |-> {"int"}, head_int |-> FALSE,
   max_off |-> 1, max_depth |-> 3, max_clock |-> 9,
   offcpu |-> FALSE, code_block |-> FALSE, ancestor |-> FALSE,
   ancestor_latency |-> FALSE, latency_interval |-> <<0, 100>>]

(* A complete trace, with interrupts also on the target's first instruction *)
Clean == [Base EXCEPT !.kinds = {"int", "syscall", "sched", "unwind"},
                      !.head_int = TRUE, !.offcpu = TRUE, !.max_clock = 11]
(* Trace data is lost. *)
Lossy == [Base EXCEPT !.kinds = {"int", "sched", "tail", "unwind", "loss"}, !.offcpu = TRUE]
(* A recursive target, and a latency interval that excludes calls *)
Recursive == [Base EXCEPT !.graph = RecursiveGraph, !.kinds = {"int", "sched", "loss"},
                          !.offcpu = TRUE, !.max_depth = 4, !.latency_interval = <<2, 5>>]
(* Code blocks *)
Blocks == [Base EXCEPT !.kinds = {"int", "sched", "jcc"}, !.head_int = TRUE,
                       !.offcpu = TRUE, !.code_block = TRUE, !.max_off = 2, !.max_clock = 8]
(* Hardware ip filtering: only the target is traced. *)
Ip == [Base EXCEPT !.mode = "ip", !.kinds = {"int", "tail", "unwind", "loss"}]
(* Inside an ancestor only, with a latency interval of the ancestor *)
Inside == [Base EXCEPT !.graph = AncestorGraph, !.kinds = {"int", "loss"},
                       !.ancestor = TRUE, !.ancestor_latency = TRUE, !.max_depth = 4]

AllScenarios ==
  "clean" :> Clean @@ "lossy" :> Lossy @@ "recursive" :> Recursive @@
  "blocks" :> Blocks @@ "ip" :> Ip @@ "inside" :> Inside

(* Where the code and a statement of the repository disagree *)
BlockSyscall ==
  "block_syscall" :> [Base EXCEPT !.kinds = {"syscall", "sched", "jcc"}, !.offcpu = TRUE,
                                  !.code_block = TRUE, !.max_off = 2, !.max_clock = 12]
UserSyscall == "user_syscall" :> [Base EXCEPT !.mode = "user", !.kinds = {"syscall"}]
==============================================================================
