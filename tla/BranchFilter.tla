---------------------------- MODULE BranchFilter ----------------------------
(***************************************************************************)
(* Which branches reach the analysis.  get_script_filter() (func_latency.cc)*)
(* asks perf to drop what the analysis does not need: the function filter   *)
(* and the thread filter of intel_pt_synth_branch_sample() (intel-pt.c) and *)
(* the dlfilter (perf_dlfilter.cc).  init_action() of                       *)
(* ParseJob::decode_to_actions() decides again over what perf printed.      *)
(* A branch is [tid, ts, type, from, to]; from and to are addresses.        *)
(***************************************************************************)
EXTENDS Naturals, FiniteSets

CONSTANTS
  Symbols,           \* symbol tables: [name, dso, start, end], end exclusive
  Code,              \* [mapped address -> [dso, addr]], addr relative to the dso
  MAX_FILTER_SYMBOL  \* 1024

Kernel == "kernel"
Unknown == [name |-> "[unknown]", addr |-> 0, offset |-> 0]

(* map__find_symbol(): the symbols that cover an address (none or one) *)
Covering(a) ==
  {s \in Symbols : a \in DOMAIN Code /\ s.dso = Code[a].dso
                   /\ s.start <= Code[a].addr /\ Code[a].addr < s.end}
HasSymbol(a) == Covering(a) # {}
SymbolOf(a) == CHOOSE s \in Covering(a) : TRUE

(* perf_sample_get_output_symbol(): what is printed for an address *)
Output(a) == IF HasSymbol(a)
             THEN [name |-> SymbolOf(a).name, addr |-> a, offset |-> Code[a].addr - SymbolOf(a).start]
             ELSE Unknown
Name(a) == Output(a).name

-----------------------------------------------------------------------------
(* The filter that perf applies; `p' holds the parameters of func_latency   *)

(* func_filter_init(): the names given with --func_filter *)
func_filter(p) == {p.target, p.ancestor} \ {""}

(* func_filter_generate_fil_sym(): their symbols in --opt_dso_name, in the  *)
(* order of addresses and at most MAX_FILTER_SYMBOL of them                 *)
fil_syms(p) ==
  LET matching == {s \in Symbols : s.dso = p.binary /\ s.name \in func_filter(p)}
  IN  {s \in matching : Cardinality({t \in matching : t.start < s.start}) < MAX_FILTER_SYMBOL}

is_schedule_func(a) == Name(a) \in {"__schedule", "__sched_text_start"}
is_target_func_name(p, a) == HasSymbol(a) /\ Name(a) \in func_filter(p)
is_target_func_ip(p, a) ==
  a \in DOMAIN Code /\ \E s \in fil_syms(p) : s.start <= Code[a].addr /\ Code[a].addr <= s.end

ScheduleBranch(b) ==
  /\ b.to \in DOMAIN Code /\ Code[b.to].dso = Kernel
  /\ is_schedule_func(b.from) \/ is_schedule_func(b.to)

func_filter_by_sym(p, b) ==
  ~(is_target_func_name(p, b.from) \/ is_target_func_name(p, b.to) \/ ScheduleBranch(b))

(* Mutant: the filter by address forgets the schedule function *)
func_filter_by_ip_only(p, b) == ~(is_target_func_ip(p, b.from) \/ is_target_func_ip(p, b.to))

func_filter_by_ip(p, b) ==
  ~(is_target_func_ip(p, b.from) \/ is_target_func_ip(p, b.to) \/ ScheduleBranch(b))

thread__is_filter_by_tid(p, tid) == p.tids # {} /\ tid \notin p.tids

(* intel_pt_synth_branch_sample(): TRUE when the branch becomes a sample *)
Synthesized(p, b) ==
  /\ ~thread__is_filter_by_tid(p, b.tid)
  /\ ~(fil_syms(p) # {} /\ func_filter_by_ip(p, b))
  /\ ~func_filter_by_sym(p, b)

(* filter_event() of the dlfilter, used when it exists unless code blocks   *)
(* are analysed: drops a branch whose ends have the same symbol name        *)
dlfilter(p, b) ==
  /\ p.dlfilter /\ ~p.code_block
  /\ HasSymbol(b.from) /\ HasSymbol(b.to) /\ Name(b.from) = Name(b.to)

Printed(p, b) == Synthesized(p, b) /\ ~dlfilter(p, b)

-----------------------------------------------------------------------------
(* init_action() on an action [tid, ts, type, from, to] whose from and to   *)
(* are symbols [name, addr, offset]                                         *)

Begins(a, names) == a.to.name \in names /\ a.to.offset = 0 /\ a.type \in {"call", "tr strt"}
Ends(a, names) == a.from.name \in names /\ a.type \in {"return", "tr end return"}

init_for_sched(a) ==
  Begins(a, {"__schedule", "__sched_text_start"}) \/ Ends(a, {"__schedule", "__sched_text_start"})
init_for_ancestor(p, a) == Begins(a, {p.ancestor}) \/ Ends(a, {p.ancestor})

Added(p, a) ==
  LET from_target == a.from.name = p.target
      to_target == a.to.name = p.target
  IN  /\ \/ from_target \/ to_target
         \/ p.offcpu /\ init_for_sched(a)
         \/ p.ancestor # "" /\ init_for_ancestor(p, a)
      /\ p.code_block \/ ~(from_target /\ to_target)

(* What the analysis should see of a branch that the decoder found *)
ActionOf(b) == [tid |-> b.tid, ts |-> b.ts, type |-> b.type,
                from |-> Output(b.from), to |-> Output(b.to)]
Needed(p, b) == ~thread__is_filter_by_tid(p, b.tid) /\ Added(p, ActionOf(b))
=============================================================================
