----------------------------- MODULE ActionMerge -----------------------------
(***************************************************************************)
(* From the scripts of perf to the actions of a thread (func_latency.cc,   *)
(* func_latency.h): assign_parse_jobs() divides the script among parse     *)
(* jobs (ranges of lines of one text file, or one file of the parallel     *)
(* `perf script' each), a ParseJob reads its lines into one set of parsed  *)
(* and one set of error actions per thread and sorts them,                 *)
(* assign_thread_jobs() finds the threads, and                             *)
(* ThreadJob::extract_actions() merges the sets of its thread by time.     *)
(* The pool runs the jobs of a phase in any order (ParallelWorker); a      *)
(* thread job starts when all parse jobs are done.                         *)
(***************************************************************************)
EXTENDS Naturals, Sequences

CONSTANTS
  Tid,             \* the traced threads
  Inputs,          \* command lines with the scripts that perf wrote for them
  LinesPerWorker,  \* 100: below that many lines per worker one job reads all
  UINT32_MAX, UINT64_MAX

(* What a line is: an error "Lost trace data", another trace error (an     *)
(* invalid action), a branch from or to the target, a branch that only     *)
(* begins or ends a schedule or an ancestor, and any other branch.         *)
LineKind == {"error", "noise", "target", "mark", "other"}
Line == [tid : Tid, ts : Nat, kind : LineKind]
Input == [worker_num : Nat \ {0}, parallel_script : BOOLEAN, out_of_order : BOOLEAN,
          files : Seq(Seq(Line))]

(* Time stamps and line numbers fit; with cyc=1 perf writes the branches   *)
(* of a thread in the order of time.  A file may be missing: the parallel  *)
(* script forks at most one child per worker, and can have forked fewer.   *)
InTime(in) == \A f \in 1..Len(in.files) : \A k, l \in 1..Len(in.files[f]) :
  LET a == in.files[f][k]
      b == in.files[f][l]
  IN  k < l /\ a.tid = b.tid /\ a.kind \in {"target", "mark"} /\ b.kind \in {"target", "mark"}
        => a.ts <= b.ts

ASSUME InputAssumption ==
  /\ LinesPerWorker \in Nat /\ UINT32_MAX \in Nat /\ UINT64_MAX \in Nat
  /\ \A in \in Inputs :
       /\ in \in Input
       /\ IF in.parallel_script THEN Len(in.files) <= in.worker_num ELSE Len(in.files) = 1
       /\ \A f \in 1..Len(in.files) :
            /\ Len(in.files[f]) <= UINT32_MAX
            /\ \A l \in 1..Len(in.files[f]) : in.files[f][l].ts < UINT64_MAX
       /\ in.out_of_order \/ InTime(in)

VARIABLES
  input,           \* param and the script files
  phase,           \* of analyze_funcs(): "assign", "parse", "extract"
  parse_jobs,      \* sequence of [file, from, to]
  lnum,            \* [parse job -> lines it has read]
  parsed_actions,  \* [parse job -> [Tid -> sequence of actions]]
  error_actions,   \* [parse job -> [Tid -> sequence of actions]]
  sorted,          \* the parse jobs whose exec() has returned
  thread_jobs,     \* the threads that have a thread job
  real,            \* gstat.real
  pointers,        \* [Tid -> [source -> actions taken from it]]
  actions,         \* [Tid -> sequence of actions]: ThreadJob::actions
  extracted        \* the thread jobs whose extract_actions() has returned

parseVars == <<parse_jobs, lnum, parsed_actions, error_actions, sorted>>
threadVars == <<thread_jobs, real, pointers, actions, extracted>>
vars == <<input, phase, parseVars, threadVars>>

Init ==
  /\ input \in Inputs
  /\ phase = "assign"
  /\ parse_jobs = <<>> /\ lnum = <<>>
  /\ parsed_actions = <<>> /\ error_actions = <<>> /\ sorted = {}
  /\ thread_jobs = {} /\ real = <<UINT64_MAX, 0>>
  /\ pointers = [t \in Tid |-> <<>>] /\ actions = [t \in Tid |-> <<>>] /\ extracted = {}

-----------------------------------------------------------------------------
(* assign_parse_jobs() *)

File(f) == IF f <= Len(input.files) THEN input.files[f] ELSE <<>>
WholeFile(f) == [file |-> f, from |-> 0, to |-> UINT32_MAX]

Step(total) == total \div input.worker_num + 1

(* The lines of worker i (from 1 on) of a file with total lines *)
LineRange(i, total) ==
  [file |-> 1, from |-> (i - 1) * Step(total),
   to |-> IF i * Step(total) < total THEN i * Step(total) ELSE total]

ParseJobs ==
  LET total == Len(File(1))
      workers == 1..input.worker_num
  IN  IF input.parallel_script THEN [i \in workers |-> WholeFile(i)]
      ELSE IF total > LinesPerWorker * input.worker_num THEN [i \in workers |-> LineRange(i, total)]
      ELSE <<WholeFile(1)>>

Job == 1..Len(parse_jobs)
NoActions == [t \in Tid |-> <<>>]

AssignParseJobs ==
  /\ phase = "assign"
  /\ phase' = "parse"
  /\ parse_jobs' = ParseJobs
  /\ lnum' = [j \in 1..Len(ParseJobs) |-> 0]
  /\ parsed_actions' = [j \in 1..Len(ParseJobs) |-> NoActions]
  /\ error_actions' = [j \in 1..Len(ParseJobs) |-> NoActions]
  /\ UNCHANGED <<input, sorted, threadVars>>

-----------------------------------------------------------------------------
(* ParseJob::exec() *)

Content(j) == File(parse_jobs[j].file)
Action(line, f, l) == [tid |-> line.tid, ts |-> line.ts, kind |-> line.kind, file |-> f, line |-> l]

(* One turn of read_actions_from_text_file(): a line outside the range, an *)
(* invalid one and one that init_action() discards leave nothing.          *)
ReadLine(j) ==
  LET line == Content(j)[lnum[j] + 1]
      mine == parse_jobs[j].from <= lnum[j] /\ lnum[j] < parse_jobs[j].to
      a == Action(line, parse_jobs[j].file, lnum[j] + 1)
  IN  /\ phase = "parse" /\ j \notin sorted /\ lnum[j] < Len(Content(j))
      /\ lnum' = [lnum EXCEPT ![j] = @ + 1]
      /\ parsed_actions' = IF mine /\ line.kind \in {"target", "mark"}
                             THEN [parsed_actions EXCEPT ![j][a.tid] = Append(@, a)]
                             ELSE parsed_actions
      /\ error_actions' = IF mine /\ line.kind = "error"
                            THEN [error_actions EXCEPT ![j][a.tid] = Append(@, a)]
                            ELSE error_actions
      /\ UNCHANGED <<input, phase, parse_jobs, sorted, threadVars>>

(* std::stable_sort() by ts: the positions in the order of the result.     *)
(* There is exactly one such p.                                            *)
Before(s, k, l) == s[k].ts < s[l].ts \/ (s[k].ts = s[l].ts /\ k < l)
Orders(s) == {p \in [1..Len(s) -> 1..Len(s)] :
                \A k, l \in 1..Len(s) : k < l => Before(s, p[k], p[l])}
StableSorts(s) == {[k \in 1..Len(s) |-> s[p[k]]] : p \in Orders(s)}

(* One of the ways (there is one) to sort the set of every thread *)
SortedSets(sets) ==
  {r \in [Tid -> UNION {StableSorts(sets[t]) : t \in Tid}] :
     \A t \in Tid : r[t] \in StableSorts(sets[t])}

(* sort_actions(), when the file is read *)
SortActions(j) ==
  /\ phase = "parse" /\ j \notin sorted /\ lnum[j] = Len(Content(j))
  /\ \E e \in SortedSets(error_actions[j]) :
       error_actions' = [error_actions EXCEPT ![j] = e]
  /\ \E p \in (IF input.out_of_order THEN SortedSets(parsed_actions[j]) ELSE {parsed_actions[j]}) :
       parsed_actions' = [parsed_actions EXCEPT ![j] = p]
  /\ sorted' = sorted \cup {j}
  /\ UNCHANGED <<input, phase, parse_jobs, lnum, threadVars>>

-----------------------------------------------------------------------------
(* assign_thread_jobs(): a thread that has a branch from or to the target, *)
(* and the range of time of all actions                                    *)

(* The sets of a thread, in the order in which extract_actions() numbers   *)
(* them from 0 on: the parsed actions of the first job, its error actions, *)
(* the parsed actions of the second job ...                                *)
Sources == 1..(2 * Len(parse_jobs))
Source(t, i) ==
  IF i % 2 = 1 THEN parsed_actions[(i + 1) \div 2][t] ELSE error_actions[i \div 2][t]

Sets == {Source(t, i) : t \in Tid, i \in Sources} \ {<<>>}
Least(S) == CHOOSE x \in S : \A y \in S : x <= y
Greatest(S) == CHOOSE x \in S : \A y \in S : x >= y

(* Mutant: the last action is taken for the first one. *)
MinTimestampLast(s) == s[Len(s)].ts

MinTimestamp(s) == s[1].ts
MaxTimestamp(s) == s[Len(s)].ts

AssignThreadJobs ==
  /\ phase = "parse" /\ sorted = Job
  /\ phase' = "extract"
  /\ thread_jobs' = {t \in Tid : \E j \in Job : \E k \in 1..Len(parsed_actions[j][t]) :
                       parsed_actions[j][t][k].kind = "target"}
  /\ real' = <<Least({real[1]} \cup {MinTimestamp(s) : s \in Sets}),
               Greatest({real[2]} \cup {MaxTimestamp(s) : s \in Sets})>>
  /\ pointers' = [t \in Tid |-> [i \in Sources |-> 0]]
  /\ UNCHANGED <<input, parseVars, actions, extracted>>

-----------------------------------------------------------------------------
(* ThreadJob::extract_actions() *)

Extracting(t) == phase = "extract" /\ t \in thread_jobs \ extracted

(* Mutant: the sources end one too early. *)
RemainingButLast(t) ==
  {i \in Sources : i < 2 * Len(parse_jobs) /\ pointers[t][i] < Len(Source(t, i))}

(* The sources that have an action left *)
Remaining(t) == {i \in Sources : pointers[t][i] < Len(Source(t, i))}
NextAction(t, i) == Source(t, i)[pointers[t][i] + 1]

(* Mutant: min_ts is not updated. *)
IsMinFirst(t, i) == \A k \in Remaining(t) : i <= k

(* Mutant: the last of several equal time stamps. *)
IsMinLast(t, i) ==
  \A k \in Remaining(t) : NextAction(t, i).ts < NextAction(t, k).ts
                            \/ (NextAction(t, i).ts = NextAction(t, k).ts /\ k <= i)

(* The scan over the sources keeps the first that is strictly below all    *)
(* before it (and below UINT64_MAX).                                       *)
IsMin(t, i) ==
  \A k \in Remaining(t) : NextAction(t, i).ts < NextAction(t, k).ts
                            \/ (NextAction(t, i).ts = NextAction(t, k).ts /\ i <= k)

(* One turn of the loop *)
ExtractNext(t) ==
  /\ Extracting(t)
  /\ \E i \in Remaining(t) :
       /\ NextAction(t, i).ts < UINT64_MAX
       /\ IsMin(t, i)
       /\ actions' = [actions EXCEPT ![t] = Append(@, NextAction(t, i))]
       /\ pointers' = [pointers EXCEPT ![t][i] = @ + 1]
  /\ UNCHANGED <<input, phase, parseVars, thread_jobs, real, extracted>>

(* min_action == nullptr *)
ExtractDone(t) ==
  /\ Extracting(t)
  /\ \A i \in Remaining(t) : NextAction(t, i).ts >= UINT64_MAX
  /\ extracted' = extracted \cup {t}
  /\ UNCHANGED <<input, phase, parseVars, thread_jobs, real, pointers, actions>>

Next ==
  \/ AssignParseJobs \/ AssignThreadJobs
  \/ \E j \in Job : ReadLine(j) \/ SortActions(j)
  \/ \E t \in Tid : ExtractNext(t) \/ ExtractDone(t)

Spec == Init /\ [][Next]_vars

-----------------------------------------------------------------------------
(* Properties *)

(* do_analyze() goes through the actions of a thread in the order of time, *)
(* errors included, however the lines were divided among the parse jobs.   *)
ThreadOrder ==
  \A t \in Tid : \A k, l \in 1..Len(actions[t]) : k < l => actions[t][k].ts <= actions[t][l].ts

IsError(a) == a.kind = "error"
EarlierLine(a, b) == a.file < b.file \/ (a.file = b.file /\ a.line < b.line)

(* The result does not depend on the number of workers: branches with the  *)
(* same time stamp stay in the order in which perf wrote them, and so do   *)
(* errors.  (An error and a branch of the same time may change places.)    *)
FileOrder ==
  \A t \in Tid : \A k, l \in 1..Len(actions[t]) :
    LET a == actions[t][k]
        b == actions[t][l]
    IN  k < l /\ IsError(a) = IsError(b) /\ a.ts = b.ts => EarlierLine(a, b)

(* The lines of thread t that are kept *)
KeptActions(t) ==
  {a \in UNION {{Action(File(f)[l], f, l) : l \in 1..Len(File(f))} : f \in 1..Len(input.files)} :
     a.tid = t /\ a.kind \in {"target", "mark", "error"}}

(* The assertion of extract_actions(), and more: no line of the script is  *)
(* lost between two ranges of lines or left behind by the merge.           *)
NothingDropped ==
  \A t \in extracted : {actions[t][k] : k \in 1..Len(actions[t])} = KeptActions(t)

(* The real trace time that is printed spans all actions of all threads.   *)
RealSpansActions ==
  phase = "extract" =>
    LET stamps == {a.ts : a \in UNION {KeptActions(t) : t \in Tid}}
    IN  stamps # {} => real = <<Least(stamps), Greatest(stamps)>>
=============================================================================
