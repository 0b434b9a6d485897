----------------------------- MODULE MainProgram -----------------------------
(***************************************************************************)
(* The whole program func_latency: main(), check_parameter() and           *)
(* sig_handler() of src/func_latency.cc, perf_record() and perf_script()   *)
(* of src/pt_linux_perf.cc, exec_cmd_killable() of src/sys_tools.cc, and   *)
(* the processes of the perf it starts, as far as they make and remove     *)
(* files: perf script forks its workers and waits for them, and passes a   *)
(* SIGINT on to them.                                                      *)
(*                                                                         *)
(* One SIGINT may arrive at any time, from the terminal (to every process) *)
(* or from kill (to func_latency alone).  A process that is told by kill() *)
(* handles the signal in a later step of its own.  system() ignores the    *)
(* SIGINT in func_latency while the command runs, so a command is two      *)
(* steps: the call, and its end.                                           *)
(*                                                                         *)
(* A recording is "old" (left by an earlier use of the program) or "new";  *)
(* Trace says which invocations of the target each of them holds, per      *)
(* thread, and to which share of a parallel perf script each belongs.  The *)
(* analysis of one thread is that of ThreadAnalyze: here it finds exactly  *)
(* the invocations in the files that were read.                            *)
(***************************************************************************)
EXTENDS FuncStat, FiniteSets, FiniteSetsExt

CONSTANTS Commands,  \* the command lines
          Trace,     \* recording -> thread -> its invocations
          Shares     \* into how many shares perf script can divide each recording

VARIABLES cmd, param,   \* the command line, and what is known of it
          pc,           \* where main() is
          perf_data,    \* the recording in the file perf.data, or "none"
          recorded,     \* did perf record succeed?
          script_out,   \* the files script_out*, by number; Single is script_out
          perf,         \* the processes of perf script
          current_cmd,  \* is current_cmd_pid set?
          pool,         \* was worker_pool.start() called?
          sigint,       \* what has become of the SIGINT in func_latency
          late,         \* history: the files perf could still open when the handler removed them
          todo,         \* the jobs not done: files to parse, then threads to merge
          parsed,       \* the files as they were read
          added,        \* how many invocations of each thread have been analysed
          stats, total, \* the statistics of each thread, and all merged
          report        \* what has been printed

vars == <<cmd, param, pc, perf_data, recorded, script_out, perf, current_cmd,
          pool, sigint, late, todo, parsed, added, stats, total, report>>
files == <<perf_data, script_out>>
fate == <<pool, sigint, late>>
job == <<todo, parsed, added, stats, total, report>>

Threads == DOMAIN Trace["new"]
Single == -1
Workers == 0 .. Max({c.worker_num : c \in Commands}) - 1
Names == {Single} \cup Workers

NoFile == [trace |-> "none", of |-> 1, compact |-> FALSE, whole |-> FALSE]
NoFiles == [n \in Names |-> NoFile]
NoPerf == [state |-> "none", trace |-> "none", forked |-> 0, known |-> 0,
           workers |-> [k \in {} |-> "born"], sig |-> FALSE, told |-> {}]
NoReport == [all |-> <<>>, callers |-> Empty, calls |-> Empty]

CommandLines == [history : 0 .. 3, verbose : BOOLEAN, parallel : BOOLEAN, worker_num : Nat,
                 compact : BOOLEAN, target : BOOLEAN]
ASSUME CommandsAssumption == Commands \subseteq CommandLines
ASSUME SharesAssumption == Shares \in [{"old", "new"} -> Nat]

Default == [history |-> 0, verbose |-> FALSE, parallel |-> FALSE, worker_num |-> 10,
            compact |-> TRUE, target |-> FALSE]

-----------------------------------------------------------------------------
(* check_parameter(), as far as it decides which files are written and     *)
(* read: the compact format is for parallel scripts, and one worker is no  *)
(* parallel script.                                                        *)
ReadOptions(c) ==
  [c EXCEPT !.compact = @ /\ c.parallel, !.parallel = @ /\ c.worker_num # 1]

(* The workers perf forks, and the files a complete perf script leaves: a  *)
(* file has the n-th of `of' shares of a recording.                        *)
Forked(c, trace) == Min({Shares[trace], c.worker_num})
FileOf(c, trace, whole) ==
  [trace |-> trace, of |-> IF c.parallel THEN Forked(c, trace) ELSE 1, compact |-> c.compact,
   whole |-> whole]
Written(c, trace) ==
  LET names == IF c.parallel THEN 0 .. Forked(c, trace) - 1 ELSE {Single}
  IN  [n \in Names |-> IF n \in names THEN FileOf(c, trace, TRUE) ELSE NoFile]

Stale == [n \in Names |-> [trace |-> "old", of |-> Cardinality(Workers), compact |-> TRUE,
                           whole |-> TRUE]]

(* The use of --history=2 and 3 presupposes what they are to read; earlier *)
(* uses that were interrupted or ran with -v may have left any files.      *)
Init ==
  /\ cmd \in Commands
  /\ param = Default
  /\ pc = "start"
  /\ perf_data \in IF cmd.history >= 2 THEN {"old"} ELSE {"old", "none"}
  /\ script_out \in IF cmd.history = 3 THEN {Written(ReadOptions(cmd), "old")}
                    ELSE {NoFiles, Stale}
  /\ recorded = FALSE
  /\ perf = NoPerf
  /\ current_cmd = FALSE
  /\ pool = FALSE
  /\ sigint = "none"
  /\ late = {}
  /\ todo = {}
  /\ parsed = NoFiles
  /\ stats = [t \in Threads |-> EmptyStat]
  /\ total = EmptyStat
  /\ added = [t \in Threads |-> 0]
  /\ report = NoReport

-----------------------------------------------------------------------------
(* main(), up to the end of perf script *)
ParseOptions ==
  /\ pc = "start"
  /\ pc' = "check"
  /\ param' = cmd
  /\ UNCHANGED <<cmd, files, recorded, perf, current_cmd, fate, job>>

check_parameter ==
  /\ pc = "check"
  /\ IF param.target
     THEN pc' = "record" /\ param' = ReadOptions(param)
     ELSE pc' = "exit" /\ UNCHANGED param
  /\ UNCHANGED <<cmd, files, recorded, perf, current_cmd, fate, job>>

(* perf_record() and what main() does after it *)
perf_record ==
  /\ pc = "record"
  /\ pc' = IF param.history >= 2 THEN "recorded" ELSE "recording"
  /\ UNCHANGED <<cmd, param, files, recorded, perf, current_cmd, fate, job>>

(* perf record ends, by itself or because of a SIGINT from the terminal;   *)
(* its result is not looked at.  One that fails leaves perf.data as it     *)
(* was, or a file that perf script cannot read.                            *)
RecordEnds ==
  /\ pc = "recording"
  /\ pc' = "recorded"
  /\ \/ perf_data' = "new" /\ recorded' = TRUE
     \/ perf_data' \in {perf_data, "torn"} /\ UNCHANGED recorded
  /\ UNCHANGED <<cmd, param, script_out, perf, current_cmd, fate, job>>

(* --history=1 ends with exit(0); otherwise worker_pool.start(). *)
start ==
  /\ pc = "recorded"
  /\ pc' = IF param.history = 1 THEN "exit" ELSE "script"
  /\ pool' = (param.history # 1)
  /\ UNCHANGED <<cmd, param, files, recorded, perf, current_cmd, sigint, late, job>>

(* Mutant: the files of an earlier use stay. *)
perf_script_unclean ==
  /\ pc = "script"
  /\ pc' = IF param.history < 3 THEN "fork" ELSE "analyze"
  /\ UNCHANGED <<cmd, param, files, recorded, perf, current_cmd, fate, job>>

(* perf_script(), which --history=3 skips: first clear_script_files() *)
perf_script ==
  /\ pc = "script"
  /\ pc' = IF param.history < 3 THEN "rm_stale" ELSE "analyze"
  /\ UNCHANGED <<cmd, param, files, recorded, perf, current_cmd, fate, job>>

(* A SIGINT from the terminal ends an rm that system() runs, in the middle *)
(* of its work; main() goes on.                                            *)
RmKilled == sigint = "none" /\ sigint' = "no rm"

(* rm -f script_out*, at the begin of perf_script() and at the end of main() *)
ScriptsRemoved ==
  /\ pc \in {"rm_stale", "rm_scripts"}
  /\ pc' = IF pc = "rm_stale" THEN "fork" ELSE "exit"
  /\ \/ script_out' = NoFiles /\ UNCHANGED sigint
     \/ /\ RmKilled
        /\ \E K \in SUBSET Names :
             script_out' = [n \in Names |-> IF n \in K THEN script_out[n] ELSE NoFile]
  /\ UNCHANGED <<cmd, param, perf_data, recorded, perf, current_cmd, pool, late, job>>

(* exec_cmd_killable(): fork() and the assignment of its result are two *)
fork ==
  /\ pc = "fork"
  /\ pc' = "forked"
  /\ perf' = [perf EXCEPT !.state = "copy"]
  /\ UNCHANGED <<cmd, param, files, recorded, current_cmd, fate, job>>

SetPid ==
  /\ pc = "forked"
  /\ pc' = "wait"
  /\ current_cmd' = TRUE
  /\ UNCHANGED <<cmd, param, files, recorded, perf, fate, job>>

waitpid ==
  /\ pc = "wait"
  /\ perf.state = "done"
  /\ pc' = "analyze"
  /\ current_cmd' = FALSE
  /\ UNCHANGED <<cmd, param, files, recorded, perf, fate, job>>

-----------------------------------------------------------------------------
(* perf script *)
Finished(n) == script_out' = [script_out EXCEPT ![n].whole = @ \/ script_out[n].trace # "none"]

(* execl(): until then the process is a copy of func_latency. *)
Exec ==
  /\ perf.state = "copy"
  /\ perf' = [perf EXCEPT !.state = "born"]
  /\ UNCHANGED <<cmd, param, pc, files, recorded, current_cmd, fate, job>>

(* It opens perf.data; without a recording it fails, but then the shell    *)
(* has already made the file its output was to go to.                      *)
Readable(trace) == trace \in {"old", "new"}
Open ==
  /\ perf.state = "born"
  /\ perf' = [perf EXCEPT !.trace = perf_data,
                          !.state = IF ~Readable(perf_data) THEN "done"
                                    ELSE IF param.parallel THEN "forking" ELSE "single"]
  /\ script_out' = IF param.parallel THEN script_out
                   ELSE [script_out EXCEPT ![Single] =
                           [trace |-> IF Readable(perf_data) THEN perf_data ELSE "empty",
                            of |-> 1, compact |-> param.compact, whole |-> FALSE]]
  /\ UNCHANGED <<cmd, param, pc, perf_data, recorded, current_cmd, fate, job>>

DecodeAll ==
  /\ perf.state = "single"
  /\ perf' = [perf EXCEPT !.state = "done"]
  /\ Finished(Single)
  /\ UNCHANGED <<cmd, param, pc, perf_data, recorded, current_cmd, fate, job>>

(* auxtrace_queues__process_index_entry(): a worker per share, whose pid   *)
(* the parent notes after the fork                                         *)
ForkWorker ==
  /\ perf.state = "forking"
  /\ perf.known = perf.forked
  /\ perf.forked < Forked(param, perf.trace)
  /\ perf' = [perf EXCEPT !.forked = @ + 1,
                          !.workers = [k \in DOMAIN @ \cup {perf.forked} |-> At(@, k, "born")]]
  /\ UNCHANGED <<cmd, param, pc, files, recorded, current_cmd, fate, job>>

(* Mutant: as many workers are expected as were asked for. *)
NotePidAll ==
  /\ perf.state = "forking"
  /\ perf.known < perf.forked
  /\ perf' = [perf EXCEPT !.known = @ + 1,
                          !.state = IF perf.forked = param.worker_num THEN "waiting" ELSE @]
  /\ UNCHANGED <<cmd, param, pc, files, recorded, current_cmd, fate, job>>

NotePid ==
  /\ perf.state = "forking"
  /\ perf.known < perf.forked
  /\ perf' = [perf EXCEPT !.known = @ + 1,
                          !.state = IF perf.forked = Forked(param, perf.trace) THEN "waiting" ELSE @]
  /\ UNCHANGED <<cmd, param, pc, files, recorded, current_cmd, fate, job>>

Gone(p, k) == [p EXCEPT !.workers = [j \in DOMAIN @ \ {k} |-> @[j]], !.told = @ \ {k}]

WorkerOpens(k) ==
  /\ k \in DOMAIN perf.workers
  /\ perf.workers[k] = "born"
  /\ perf' = [perf EXCEPT !.workers[k] = "open"]
  /\ script_out' = [script_out EXCEPT ![k] = FileOf(param, perf.trace, FALSE)]
  /\ UNCHANGED <<cmd, param, pc, perf_data, recorded, current_cmd, fate, job>>

WorkerDone(k) ==
  /\ k \in DOMAIN perf.workers
  /\ perf.workers[k] = "open"
  /\ perf' = Gone(perf, k)
  /\ Finished(k)
  /\ UNCHANGED <<cmd, param, pc, perf_data, recorded, current_cmd, fate, job>>

WaitWorkers ==
  /\ perf.state = "waiting"
  /\ DOMAIN perf.workers = {}
  /\ perf' = [perf EXCEPT !.state = "done"]
  /\ UNCHANGED <<cmd, param, pc, files, recorded, current_cmd, fate, job>>

Alive == perf.state \notin {"none", "done", "stuck"}

(* The SIGINT reaches the process that func_latency forked.  The copy      *)
(* still has its handler, whose exit() waits for threads that fork() did   *)
(* not copy (what it removes the parent removes too).  perf has none of    *)
(* its own at first, and then one that only sets session_done; once it has *)
(* workers it tells those it knows, and goes on.                           *)
PerfInterrupted ==
  /\ Alive /\ perf.sig
  /\ \/ /\ perf.state = "copy"
        /\ perf' = [perf EXCEPT !.sig = FALSE, !.state = "stuck"]
     \/ /\ perf.state \in {"born", "single"}
        /\ perf' = [perf EXCEPT !.sig = FALSE, !.state = "done"]
     \/ /\ perf.state = "born"
        /\ perf' = [perf EXCEPT !.sig = FALSE]
     \/ /\ perf.state \in {"forking", "waiting"}
        /\ perf' = [perf EXCEPT !.sig = FALSE,
                                !.told = @ \cup (DOMAIN perf.workers \cap 0 .. perf.known - 1)]
  /\ UNCHANGED <<cmd, param, pc, files, recorded, current_cmd, fate, job>>

(* It reaches a worker, which exits, unless it has just been forked and    *)
(* still takes itself for the parent.                                      *)
WorkerInterrupted(k) ==
  /\ k \in perf.told /\ k \in DOMAIN perf.workers
  /\ \/ perf' = Gone(perf, k)
     \/ perf.workers[k] = "born" /\ perf' = [perf EXCEPT !.told = @ \ {k}]
  /\ UNCHANGED <<cmd, param, pc, files, recorded, current_cmd, fate, job>>

-----------------------------------------------------------------------------
(* main(), the analysis *)
assign_parse_jobs ==
  /\ pc = "analyze"
  /\ pc' = "parse"
  /\ todo' = IF param.parallel THEN 0 .. param.worker_num - 1 ELSE {Single}
  /\ UNCHANGED <<cmd, param, files, recorded, perf, current_cmd, fate, parsed, added, stats, total, report>>

(* A worker reads one file, which need not exist. *)
ParseJob(n) ==
  /\ pc = "parse"
  /\ n \in todo
  /\ todo' = todo \ {n}
  /\ parsed' = [parsed EXCEPT ![n] = script_out[n]]
  /\ UNCHANGED <<cmd, param, pc, files, recorded, perf, current_cmd, fate, added, stats, total, report>>

(* The invocations of thread t in the files read.  Of a file cut short, or *)
(* in the other format, nothing can be relied on: none is found.           *)
Found(t) ==
  LET In(n) == IF parsed[n].whole /\ parsed[n].compact = param.compact
               THEN SelectSeq(Trace[parsed[n].trace][t],
                              LAMBDA inv : n = Single \/ inv.share % parsed[n].of = n)
               ELSE <<>>
  IN  FlattenSeq([j \in 1 .. Cardinality(Names) |-> In(j - 2)])

assign_thread_jobs ==
  /\ pc = "parse"
  /\ todo = {}
  /\ pc' = "jobs"
  /\ todo' = {t \in Threads : Found(t) # <<>>}
  /\ UNCHANGED <<cmd, param, files, recorded, perf, current_cmd, fate, parsed, added, stats, total, report>>

(* A worker analyses one thread: it adds the next invocation to the        *)
(* FuncStat of that thread.                                                *)
ThreadJob(t) ==
  /\ pc = "jobs"
  /\ t \in todo
  /\ \E found \in {Found(t)} : \E inv \in {found[added[t] + 1]} :
       /\ stats' = [stats EXCEPT ![t] = add(@, inv)]
       /\ added' = [added EXCEPT ![t] = @ + 1]
       /\ todo' = IF added'[t] = Len(found) THEN todo \ {t} ELSE todo
  /\ UNCHANGED <<cmd, param, pc, files, recorded, perf, current_cmd, fate, parsed, total, report>>

wait_all_idle ==
  /\ pc = "jobs"
  /\ todo = {}
  /\ pc' = "merge"
  /\ todo' = {t \in Threads : Found(t) # <<>>}
  /\ UNCHANGED <<cmd, param, files, recorded, perf, current_cmd, fate, parsed, added, stats, total, report>>

(* print_stat() merges the threads in whatever order the map has them. *)
Merge(t) ==
  /\ pc = "merge"
  /\ t \in todo
  /\ todo' = todo \ {t}
  /\ total' = merge(total, stats[t])
  /\ UNCHANGED <<cmd, param, pc, files, recorded, perf, current_cmd, fate, parsed, added, stats, report>>

print_stat ==
  /\ pc = "merge"
  /\ todo = {}
  /\ pc' = "clear"
  /\ report' = print(total)
  /\ UNCHANGED <<cmd, param, files, recorded, perf, current_cmd, fate, todo, parsed, added, stats, total>>

(* The end of main(): two commands, if nothing is to be kept *)
clear_record ==
  /\ pc = "clear"
  /\ pc' = IF ~param.verbose /\ param.history = 0 THEN "rm_data" ELSE "clear_script"
  /\ UNCHANGED <<cmd, param, files, recorded, perf, current_cmd, fate, job>>

RecordRemoved ==
  /\ pc = "rm_data"
  /\ pc' = "clear_script"
  /\ \/ perf_data' = "none" /\ UNCHANGED sigint
     \/ RmKilled /\ UNCHANGED perf_data
  /\ UNCHANGED <<cmd, param, script_out, recorded, perf, current_cmd, pool, late, job>>

clear_script ==
  /\ pc = "clear_script"
  /\ pc' = IF ~param.verbose /\ param.history < 3 THEN "rm_scripts" ELSE "exit"
  /\ UNCHANGED <<cmd, param, files, recorded, perf, current_cmd, fate, job>>

(* exit() ends the program.  With a pool it runs the pool's destructor     *)
(* first, which may wait for ever (ExitTerminates of ParallelWorker).      *)
Exit ==
  /\ pc = "exit"
  /\ pc' = "ended"
  /\ UNCHANGED <<cmd, param, files, recorded, perf, current_cmd, fate, job>>

-----------------------------------------------------------------------------
(* SIGINT *)
Commanding == {"recording", "rm_stale", "rm_data", "rm_scripts"}

(* While a command runs in system() SIGINT is ignored. *)
SignalIgnored ==
  /\ sigint = "none"
  /\ pc \in Commanding
  /\ sigint' = "ignored"
  /\ UNCHANGED <<cmd, param, pc, files, recorded, perf, current_cmd, pool, late, job>>

(* Otherwise sig_handler() runs, also inside exit(). *)
Signal ==
  /\ sigint = "none"
  /\ pc \notin Commanding \cup {"ended"}
  /\ sigint' = "came"
  /\ pc' = "abort"
  /\ \/ UNCHANGED perf                                                   \* kill
     \/ perf' = [perf EXCEPT !.sig = Alive, !.told = DOMAIN perf.workers] \* the terminal
  /\ UNCHANGED <<cmd, param, files, recorded, current_cmd, pool, late, job>>

(* sig_handler(): abort_cmd_killable(), then rm twice, while perf runs on *)
abort_cmd_killable ==
  /\ pc = "abort"
  /\ pc' = "rm_record"
  /\ perf' = [perf EXCEPT !.sig = @ \/ (current_cmd /\ Alive)]
  /\ current_cmd' = FALSE
  /\ UNCHANGED <<cmd, param, files, recorded, fate, job>>

(* Mutant: the recording is removed whoever made it. *)
clear_record_always ==
  /\ pc = "rm_record"
  /\ pc' = "rm_script"
  /\ perf_data' = "none"
  /\ UNCHANGED <<cmd, param, script_out, recorded, perf, current_cmd, fate, job>>

clear_record_files ==
  /\ pc = "rm_record"
  /\ pc' = "rm_script"
  /\ perf_data' = IF param.history < 2 THEN "none" ELSE perf_data
  /\ UNCHANGED <<cmd, param, script_out, recorded, perf, current_cmd, fate, job>>

(* The files that processes of perf have yet to open: those of workers     *)
(* that were forked, and of those that will be                             *)
Unopened == {k \in DOMAIN perf.workers : perf.workers[k] = "born"}
Unforked ==
  IF perf.state \in {"copy", "born"}
  THEN IF ~param.parallel THEN {Single}
       ELSE IF Readable(perf_data) THEN 0 .. Forked(param, perf_data) - 1 ELSE {}
  ELSE IF perf.state = "forking" THEN perf.forked .. Forked(param, perf.trace) - 1 ELSE {}
ToOpen == Unopened \cup Unforked

(* Mutant: the files of the workers are forgotten. *)
clear_script_files_single ==
  /\ pc = "rm_script"
  /\ pc' = "exit"
  /\ script_out' = [script_out EXCEPT ![Single] = NoFile]
  /\ late' = ToOpen
  /\ UNCHANGED <<cmd, param, perf_data, recorded, perf, current_cmd, pool, sigint, job>>

clear_script_files ==
  /\ pc = "rm_script"
  /\ pc' = "exit"
  /\ script_out' = NoFiles
  /\ late' = ToOpen
  /\ UNCHANGED <<cmd, param, perf_data, recorded, perf, current_cmd, pool, sigint, job>>

-----------------------------------------------------------------------------
Main ==
  \/ ParseOptions \/ check_parameter \/ perf_record \/ RecordEnds \/ start
  \/ perf_script \/ ScriptsRemoved \/ fork \/ SetPid \/ waitpid
  \/ assign_parse_jobs \/ (\E n \in Names : ParseJob(n))
  \/ assign_thread_jobs \/ wait_all_idle \/ (\E t \in Threads : ThreadJob(t) \/ Merge(t))
  \/ print_stat \/ clear_record \/ RecordRemoved \/ clear_script
  \/ abort_cmd_killable \/ clear_record_files \/ clear_script_files

Perf ==
  \/ Exec \/ Open \/ DecodeAll \/ ForkWorker \/ NotePid \/ WaitWorkers \/ PerfInterrupted
  \/ \E k \in Workers : WorkerOpens(k) \/ WorkerDone(k) \/ WorkerInterrupted(k)

Next == Main \/ Perf \/ Exit \/ SignalIgnored \/ Signal

(* Every process runs on, and exit() returns if there is no pool. *)
Spec == Init /\ [][Next]_vars /\ WF_vars(Main) /\ WF_vars(Perf) /\ WF_vars(Exit /\ ~pool)

-----------------------------------------------------------------------------
(* What the report on a recording should say, from all its invocations at  *)
(* once: x is <<thread, index>>, a call <<x, j>>, the target's own time    *)
(* the call number 0.                                                      *)
Invocations(trace) == UNION {{<<t, i>> : i \in DOMAIN Trace[trace][t]} : t \in DOMAIN Trace[trace]}
Sum(f(_), S) == MapThenSumSet(f, S)
Average(f(_), S) == IF S = {} THEN 0 ELSE Sum(f, S) \div Cardinality(S)

Histogram(values(_), S) ==
  LET top == Max({-1} \cup {CHOOSE i \in 0 .. 29 : values(x) <= High(i)
                                     /\ \A h \in 0 .. i - 1 : values(x) > High(h) : x \in S})
  IN  [j \in 1 .. top + 1 |-> Cardinality({x \in S : Low(j - 1) <= values(x) /\ values(x) <= High(j - 1)})]

Reference(trace) ==
  LET Inv(x) == Trace[trace][x[1]][x[2]]
      all == Invocations(trace)
      T(x) == Inv(x).t
      S(x) == Inv(x).s
      known == {x \in all : T(x) # Unknown /\ LatencyMin <= T(x) /\ T(x) <= LatencyMax}
      unknown == {x \in all : T(x) = Unknown}
      From(k, X) == {x \in X : Inv(x).caller = k}
      named == unknown \ From(UNKNOWN, unknown)
      Children(x) == {<<x, j>> : j \in DOMAIN Inv(x).child}
      Call(c) == Inv(c[1]).child[c[2]]
      CallT(c) == Call(c).t
      CallS(c) == Call(c).s
      OwnT(x) == Max({0, T(x) - Sum(CallT, Children(x))})
      OwnS(x) == Max({0, S(x) - Sum(CallS, Children(x))})
      Latency(X, more) ==
        [slots |-> Histogram(T, X), sched_slots |-> Histogram(S, {x \in X : S(x) > 0}),
         trace_count |-> Cardinality(X) + more, avg |-> Average(T, X), sched |-> Average(S, X)]
      Row(n, t, s) == [cnt |-> n, avg |-> t \div n, sched |-> s \div n, oncpu |-> t - s]
      Rows(X) ==
        LET calls == UNION {Children(x) : x \in X}
            own == IF CodeBlock THEN {} ELSE X \cap known
        IN  [name \in {Call(c).name : c \in calls} \cup (IF own = {} THEN {} ELSE {SELF}) |->
               IF name = SELF THEN Row(Cardinality(own), Sum(OwnT, own), Sum(OwnS, own))
               ELSE LET C == {c \in calls : Call(c).name = name}
                    IN  Row(Cardinality(C), Sum(CallT, C), Sum(CallS, C))]
      complete == Sum(T, known) > 0
  IN  [all |-> IF complete THEN <<Latency(known, Cardinality(named)), Rows(known \cup named)>> ELSE <<>>,
       callers |-> [k \in {Inv(x).caller : x \in known} |-> Latency(From(k, known), 0)],
       calls |-> [k \in {Inv(x).caller : x \in known \cup IF complete THEN named ELSE unknown} |->
                    Rows(From(k, known \cup unknown))]]

(* What main() prints is the statistics of the whole recording it was      *)
(* asked about, of every thread, every share and nothing else: it depends  *)
(* neither on files an earlier use left, nor on the order in which perf's  *)
(* workers end or the threads are merged, nor on the format and the number *)
(* of workers.  The recording is the new one if perf record made one.  An  *)
(* rm of old scripts that a SIGINT ended early is left out.                *)
ReportTrue ==
  pc = "clear" /\ sigint # "no rm" =>
    /\ recorded => perf_data = "new"
    /\ report = IF Readable(perf_data) THEN Reference(perf_data) ELSE NoReport

Exiting == pc \in {"exit", "ended"}

(* The recording that --history=2 or 3 was given is never touched, by      *)
(* main() or by the handler, once the options are read (before that the    *)
(* handler goes by --history=0).  The one that --history=1 made is kept,   *)
(* and so are the scripts --history=3 was given, if the handler does not   *)
(* run: it removes both, even after perf record has ended.                 *)
HistoryKept ==
  /\ param.history >= 2 => perf_data = "old"
  /\ Exiting /\ sigint # "came" =>
       /\ param.history = 1 /\ recorded => perf_data = "new"
       /\ param.history = 3 /\ param.target => script_out = Written(param, "old")

(* When the program ends no file of it is left and none will appear,       *)
(* unless -v or --history asked for it.  After a SIGINT only files are     *)
(* left that perf had not opened when the handler removed the others: of   *)
(* workers born or still to be forked, never of one that was writing; and  *)
(* none at all if perf had not opened perf.data, which is removed first.   *)
NothingLeft ==
  Exiting =>
    /\ sigint \in {"none", "ignored"} /\ param.target /\ ~param.verbose =>
         /\ param.history \notin {1, 3} => script_out = NoFiles
         /\ param.history = 0 => perf_data = "none"
    /\ sigint = "came" =>
         /\ param.history < 2 => perf_data = "none"
         /\ {n \in Names : script_out[n] # NoFile} \subseteq late
         /\ late # {} => perf.trace # "none" \/ ~param.parallel \/ param.history = 2

(* The program and all the processes it started come to an end.  Two may   *)
(* wait for ever: an exit() with a pool, for its threads (which is in the  *)
(* hands of ParallelWorker), and the copy that fork() made, if a SIGINT    *)
(* finds it before its execl().  No perf and no worker is left behind.     *)
EverythingEnds ==
  <>[](/\ perf.state \in {"none", "done", "stuck"} /\ DOMAIN perf.workers = {}
       /\ pc = "ended" \/ (pc = "exit" /\ pool))

=============================================================================
