-------------------------- MODULE MainProgramProofs --------------------------
(***************************************************************************)
(* The files of func_latency, for every set of command lines and every     *)
(* division of the recordings: what is to be kept is kept (HistoryIsKept), *)
(* and nothing is left behind but what perf had still to open when the     *)
(* handler of a SIGINT removed the files (NothingIsLeft).  The inductive   *)
(* invariant says which processes of perf can still write a file: before   *)
(* perf script is started and after it was waited for there is none, and   *)
(* the set of files they have to open never grows.                         *)
(***************************************************************************)
EXTENDS MainProgram, TLAPS

(* The processes of perf script *)
PerfOK(p) ==
  /\ DOMAIN p = {"state", "trace", "forked", "known", "workers", "sig", "told"}
  /\ p.state \in {"none", "copy", "born", "single", "forking", "waiting", "done", "stuck"}
  /\ p.forked \in Nat
  /\ p.state \in {"none", "copy", "born"} => p.trace = "none"
  /\ p.state \in {"forking", "waiting"} => p.trace \in {"old", "new"}
  /\ p.state \notin {"forking", "waiting"} => DOMAIN p.workers = {}

Left == {n \in Names : script_out[n] # NoFile}

Before == {"start", "check", "record", "recording", "recorded", "script", "rm_stale", "fork"}
Analysis == {"analyze", "parse", "jobs", "merge", "clear"}
Closing == {"rm_data", "clear_script", "rm_scripts"}
Aborting == {"abort", "rm_record", "rm_script"}
Over == {"exit", "ended"}

Types ==
  /\ cmd \in CommandLines /\ param \in CommandLines
  /\ pc \in Before \cup {"forked", "wait"} \cup Analysis \cup Closing \cup Aborting \cup Over
  /\ DOMAIN script_out = Names

(* What the command line presupposes is there until it is read, and no     *)
(* command that would remove it is given *)
Given ==
  /\ pc = "start" => /\ param.history = 0
                     /\ cmd.history >= 2 => perf_data = "old"
                     /\ cmd.history = 3 => script_out = Written(ReadOptions(cmd), "old")
  /\ pc = "check" /\ param.history = 3 => script_out = Written(ReadOptions(param), "old")
  /\ param.history >= 2 => perf_data = "old" /\ pc \notin {"recording", "rm_data"}
  /\ param.history = 3 => perf.state = "none" /\ pc \notin {"rm_stale", "fork", "forked", "wait", "rm_scripts"}
  /\ param.history = 3 /\ sigint # "came" /\ param.target /\ pc \notin {"start", "check"}
       => script_out = Written(param, "old")

(* What perf record made *)
Made ==
  /\ pc \in {"start", "check", "record", "recording"} => recorded = FALSE
  /\ param.history = 1 /\ recorded /\ sigint # "came" => pc \in {"recorded"} \cup Over /\ perf_data = "new"

(* Who can write *)
Writers ==
  /\ PerfOK(perf)
  /\ pc \in Before => perf.state = "none"
  /\ sigint # "came" /\ pc \in Analysis \cup Closing \cup Over => perf.state \in {"none", "done"}

(* Where main() is after the SIGINT *)
Signals ==
  /\ sigint \in {"none", "ignored", "no rm", "came"}
  /\ sigint = "came" => pc \in Aborting \cup Over
  /\ pc \in Aborting => sigint = "came"

(* What is left, or may still come, after it *)
Late ==
  /\ sigint = "came" /\ pc \in {"rm_script"} \cup Over /\ param.history < 2 => perf_data = "none"
  /\ sigint = "came" /\ pc \in Over =>
       /\ Left \subseteq late /\ ToOpen \subseteq late
       /\ late # {} => perf.trace # "none" \/ ~param.parallel \/ param.history = 2

(* The end without one *)
Cleared ==
  sigint \in {"none", "ignored"} /\ ~param.verbose =>
    /\ pc \in {"clear_script", "rm_scripts"} /\ param.history = 0 => perf_data = "none"
    /\ pc \in Over /\ param.target =>
         /\ param.history \notin {1, 3} => script_out = NoFiles
         /\ param.history = 0 => perf_data = "none"

FilesInv == Types /\ Given /\ Made /\ Writers /\ Signals /\ Late /\ Cleared

-----------------------------------------------------------------------------
(* What check_parameter() does not change *)
LEMMA ReadKeeps ==
  ASSUME NEW c \in CommandLines
  PROVE  /\ ReadOptions(c) \in CommandLines /\ c.history \in 0 .. 3
         /\ ReadOptions(c).history = c.history /\ ReadOptions(c).target = c.target
         /\ ReadOptions(c).verbose = c.verbose
<1>1. (c.worker_num # 1) \in BOOLEAN
  BY Zenon
<1>. QED
  BY <1>1, Zenon DEF ReadOptions, CommandLines

(* The number of workers is a number *)
LEMMA ForkedNat ==
  ASSUME NEW c \in CommandLines, NEW trace \in {"old", "new"}
  PROVE  Forked(c, trace) \in Nat
<1>1. Shares[trace] \in Nat /\ c.worker_num \in Nat
  BY SharesAssumption, Zenon DEF CommandLines
<1>2. ASSUME NEW a \in Nat, NEW b \in Nat
      PROVE  Min({a, b}) \in Nat
  <2>1. \E x \in {a, b} : \A y \in {a, b} : x <= y
    OBVIOUS
  <2>. QED
    BY <2>1, Zenon DEF Min
<1>. QED
  BY <1>1, <1>2, Zenon DEF Forked

(* What a step of perf may do, and may not *)
PerfMay ==
  /\ PerfOK(perf') /\ perf.state \notin {"none", "done", "stuck"}
  /\ DOMAIN script_out' = Names
  /\ Left' \subseteq Left \cup ToOpen /\ ToOpen' \subseteq ToOpen
  /\ perf.trace # "none" => perf'.trace # "none"
  /\ UNCHANGED <<cmd, param, pc, perf_data, recorded, current_cmd, pool, sigint, late>>

(* Opening a file, and finishing one *)
LEMMA OneFile ==
  ASSUME DOMAIN script_out = Names, NEW n, NEW v, script_out' = [script_out EXCEPT ![n] = v]
  PROVE  DOMAIN script_out' = Names /\ Left' \subseteq Left \cup {n}
BY Zenon DEF Left

LEMMA FinishedFile ==
  ASSUME DOMAIN script_out = Names, NEW n, Finished(n)
  PROVE  DOMAIN script_out' = Names /\ Left' \subseteq Left
<1>1. /\ DOMAIN script_out' = Names
      /\ \A m \in Names : m # n => script_out'[m] = script_out[m]
  BY Zenon DEF Finished
<1>2. ASSUME n \in Names, script_out[n] = NoFile
      PROVE  script_out'[n] = NoFile
  <2>1. PICK f : f = NoFile
    BY Zenon
  <2>2. PICK w : w = (f.whole \/ f.trace # "none")
    BY Zenon
  <2>3. script_out'[n] = [f EXCEPT !.whole = w]
    BY <1>2, <2>1, <2>2, Zenon DEF Finished
  <2>4. f = [x \in DOMAIN f |-> f[x]]
    BY <2>1, Zenon DEF NoFile
  <2>5. f.whole = FALSE /\ f.trace = "none"
    BY <2>1, Zenon DEF NoFile
  <2>6. f.whole = w
    BY <2>2, <2>5, Zenon
  <2>7. [f EXCEPT !.whole = w] = f
    BY <2>4, <2>6, SMT
  <2>. QED
    BY <2>1, <2>3, <2>7, Zenon
<1>. QED
  BY <1>1, <1>2, Zenon DEF Left

(* The parent of the workers: it starts, opens perf.data, forks, and waits *)
LEMMA ParentSteps ==
  ASSUME Types, PerfOK(perf), Exec \/ Open \/ DecodeAll \/ ForkWorker \/ NotePid \/ WaitWorkers
  PROVE  PerfMay
<1>. DOMAIN script_out = Names /\ param \in CommandLines
  BY Zenon DEF Types
<1>1. CASE Exec
  <2>1. /\ perf.state = "copy" /\ perf' = [perf EXCEPT !.state = "born"]
        /\ UNCHANGED <<cmd, param, pc, perf_data, script_out, recorded, current_cmd, pool, sigint, late>>
    BY <1>1, Zenon DEF Exec, files, fate
  <2>2. PerfOK(perf') /\ perf'.workers = perf.workers /\ perf'.state = "born" /\ perf.trace = "none"
    BY <2>1 DEF PerfOK
  <2>3. Unopened' = Unopened /\ Unforked' = Unforked /\ Left' = Left
    BY <2>1, <2>2 DEF Unopened, Unforked, Left
  <2>. QED
    BY <2>1, <2>2, <2>3 DEF PerfMay, ToOpen
<1>2. CASE Open
  <2>1. /\ perf.state = "born" /\ DOMAIN perf.workers = {} /\ perf.trace = "none" /\ perf.forked \in Nat
        /\ UNCHANGED <<cmd, param, pc, perf_data, recorded, current_cmd, pool, sigint, late>>
    BY <1>2, Zenon DEF Open, PerfOK, fate
  <2>2. /\ DOMAIN perf' = DOMAIN perf /\ perf'.trace = perf_data
        /\ perf'.forked = perf.forked /\ perf'.workers = perf.workers
        /\ \/ perf'.state = "done"
           \/ perf'.state = "single"
           \/ perf'.state = "forking" /\ Readable(perf_data) /\ param.parallel
    BY <1>2, Zenon DEF Open, PerfOK
  <2>3. PerfOK(perf')
    BY <2>1, <2>2 DEF PerfOK, Readable
  <2>4. Unopened' = Unopened
    BY <2>2, Zenon DEF Unopened
  <2>5. Unforked' \subseteq Unforked
    <3>1. CASE perf'.state = "forking"
      <4>1. perf_data \in {"old", "new"}
        BY <2>2, <3>1, Zenon DEF Readable
      <4>2. PICK k : k = Forked(param, perf_data) /\ k \in Nat
        BY <4>1, ForkedNat, Zenon
      <4>3. Unforked' = perf.forked .. k - 1 /\ Unforked = 0 .. k - 1
        BY <2>1, <2>2, <3>1, <4>2 DEF Unforked, Readable, Forked
      <4>. QED
        BY <2>1, <4>2, <4>3
    <3>2. CASE perf'.state # "forking"
      BY <2>2, <3>2, Zenon DEF Unforked
    <3>. QED
      BY <3>1, <3>2, Zenon
  <2>6. DOMAIN script_out' = Names /\ Left' \subseteq Left \cup Unforked
    <3>1. CASE param.parallel
      BY <1>2, <3>1, Zenon DEF Open, Left
    <3>2. CASE ~param.parallel
      <4>1. \E v : script_out' = [script_out EXCEPT ![Single] = v]
        BY <1>2, <3>2, Zenon DEF Open
      <4>2. Single \in Unforked
        BY <2>1, <3>2, Zenon DEF Unforked
      <4>. QED
        BY <4>1, <4>2, OneFile, Zenon
    <3>. QED
      BY <3>1, <3>2, Zenon
  <2>. QED
    BY <2>1, <2>3, <2>4, <2>5, <2>6 DEF PerfMay, ToOpen
<1>3. CASE DecodeAll
  <2>1. /\ perf.state = "single" /\ perf' = [perf EXCEPT !.state = "done"] /\ Finished(Single)
        /\ UNCHANGED <<cmd, param, pc, perf_data, recorded, current_cmd, pool, sigint, late>>
    BY <1>3, Zenon DEF DecodeAll, fate
  <2>2. PerfOK(perf') /\ perf'.workers = perf.workers /\ perf'.state = "done" /\ perf'.trace = perf.trace
    BY <2>1 DEF PerfOK
  <2>3. Unopened' = Unopened /\ Unforked' = {}
    BY <2>2, Zenon DEF Unopened, Unforked
  <2>4. DOMAIN script_out' = Names /\ Left' \subseteq Left
    BY <2>1, FinishedFile, Zenon
  <2>. QED
    BY <2>1, <2>2, <2>3, <2>4 DEF PerfMay, ToOpen
<1>4. CASE ForkWorker
  <2>1. /\ perf.state = "forking" /\ perf.forked \in Nat /\ perf.forked < Forked(param, perf.trace)
        /\ UNCHANGED <<cmd, param, pc, perf_data, script_out, recorded, current_cmd, pool, sigint, late>>
    BY <1>4, Zenon DEF ForkWorker, PerfOK, files, fate
  <2>2. /\ DOMAIN perf' = DOMAIN perf /\ perf'.state = perf.state /\ perf'.trace = perf.trace
        /\ perf'.forked = perf.forked + 1
        /\ perf'.workers = [k \in DOMAIN perf.workers \cup {perf.forked} |-> At(perf.workers, k, "born")]
    BY <1>4, Zenon DEF ForkWorker, PerfOK
  <2>3. PerfOK(perf')
    BY <2>1, <2>2 DEF PerfOK
  <2>4. Unopened' \subseteq Unopened \cup {perf.forked}
    BY <2>2, Zenon DEF Unopened, At
  <2>5. perf.forked \in Unforked /\ Unforked' \subseteq Unforked
    <3>1. PICK k : k = Forked(param, perf.trace) /\ k \in Nat
      BY <2>1, ForkedNat, Zenon DEF PerfOK
    <3>2. Unforked = perf.forked .. k - 1 /\ Unforked' = perf.forked + 1 .. k - 1
      BY <2>1, <2>2, <3>1 DEF Unforked, Forked
    <3>. QED
      BY <2>1, <3>1, <3>2
  <2>6. Left' = Left
    BY <2>1, Zenon DEF Left
  <2>. QED
    BY <2>1, <2>2, <2>3, <2>4, <2>5, <2>6 DEF PerfMay, ToOpen
<1>5. CASE NotePid \/ WaitWorkers
  <2>1. /\ perf.state \in {"forking", "waiting"}
        /\ UNCHANGED <<cmd, param, pc, perf_data, script_out, recorded, current_cmd, pool, sigint, late>>
    BY <1>5, Zenon DEF NotePid, WaitWorkers, files, fate
  <2>2. /\ DOMAIN perf' = DOMAIN perf /\ perf'.trace = perf.trace /\ perf'.forked = perf.forked
        /\ perf'.workers = perf.workers
        /\ \/ perf'.state = "forking" /\ perf.state = "forking"
           \/ perf'.state = "waiting"
           \/ perf'.state = "done" /\ DOMAIN perf.workers = {}
    BY <1>5, Zenon DEF NotePid, WaitWorkers, PerfOK
  <2>3. PerfOK(perf')
    BY <2>1, <2>2 DEF PerfOK
  <2>4. Unopened' = Unopened /\ Unforked' \subseteq Unforked /\ Left' = Left
    BY <2>1, <2>2 DEF Unopened, Unforked, Left, Forked
  <2>. QED
    BY <2>1, <2>2, <2>3, <2>4 DEF PerfMay, ToOpen
<1>. QED
  BY <1>1, <1>2, <1>3, <1>4, <1>5, Zenon

(* A worker, and the SIGINT in each process *)
LEMMA WorkerSteps ==
  ASSUME Types, PerfOK(perf), NEW k, WorkerOpens(k) \/ WorkerDone(k) \/ WorkerInterrupted(k)
  PROVE  PerfMay
<1>1. /\ k \in DOMAIN perf.workers /\ DOMAIN script_out = Names
      /\ UNCHANGED <<cmd, param, pc, perf_data, recorded, current_cmd, pool, sigint, late>>
  BY Zenon DEF Types, WorkerOpens, WorkerDone, WorkerInterrupted, files, fate
<1>2. perf.state \in {"forking", "waiting"}
  BY <1>1, Zenon DEF PerfOK
<1>3. /\ DOMAIN perf' = DOMAIN perf /\ perf'.state = perf.state /\ perf'.trace = perf.trace
      /\ perf'.forked = perf.forked
  <2>1. CASE WorkerOpens(k)
    BY <2>1, Zenon DEF WorkerOpens, PerfOK
  <2>2. CASE WorkerDone(k)
    BY <2>2, Zenon DEF WorkerDone, Gone, PerfOK
  <2>3. CASE WorkerInterrupted(k)
    BY <2>3, Zenon DEF WorkerInterrupted, Gone, PerfOK
  <2>. QED
    BY <2>1, <2>2, <2>3, Zenon
<1>4. PerfOK(perf')
  BY <1>2, <1>3 DEF PerfOK
<1>5. Unforked' = Unforked
  BY <1>1, <1>2, <1>3 DEF Unforked, Forked
<1>6. CASE WorkerOpens(k)
  <2>1. perf'.workers = [perf.workers EXCEPT ![k] = "open"] /\ k \in Unopened
    BY <1>6, Zenon DEF WorkerOpens, PerfOK, Unopened
  <2>2. Unopened' \subseteq Unopened
    BY <2>1 DEF Unopened
  <2>3. DOMAIN script_out' = Names /\ Left' \subseteq Left \cup {k}
    BY <1>1, <1>6, OneFile, Zenon DEF WorkerOpens
  <2>. QED
    BY <1>1, <1>2, <1>3, <1>4, <1>5, <2>1, <2>2, <2>3 DEF PerfMay, ToOpen
<1>7. CASE WorkerDone(k) \/ WorkerInterrupted(k)
  <2>1. \/ perf'.workers = perf.workers
        \/ perf'.workers = [j \in DOMAIN perf.workers \ {k} |-> perf.workers[j]]
    BY <1>7, Zenon DEF WorkerDone, WorkerInterrupted, Gone, PerfOK
  <2>2. Unopened' \subseteq Unopened
    BY <2>1, Zenon DEF Unopened
  <2>3. DOMAIN script_out' = Names /\ Left' \subseteq Left
    <3>1. CASE WorkerDone(k)
      BY <1>1, <3>1, FinishedFile, Zenon DEF WorkerDone
    <3>2. CASE WorkerInterrupted(k)
      BY <1>1, <3>2, Zenon DEF WorkerInterrupted, files, Left
    <3>. QED
      BY <1>7, <3>1, <3>2, Zenon
  <2>. QED
    BY <1>1, <1>2, <1>3, <1>4, <1>5, <2>2, <2>3 DEF PerfMay, ToOpen
<1>. QED
  BY <1>6, <1>7, Zenon

LEMMA PerfStep ==
  ASSUME Types, PerfOK(perf), Perf
  PROVE  PerfMay
<1>1. CASE PerfInterrupted
  <2>1. /\ perf.state \notin {"none", "done", "stuck"} /\ DOMAIN script_out = Names
        /\ UNCHANGED <<cmd, param, pc, perf_data, script_out, recorded, current_cmd, pool, sigint, late>>
    BY <1>1, Zenon DEF PerfInterrupted, Alive, Types, files, fate
  <2>2. /\ DOMAIN perf' = DOMAIN perf /\ perf'.trace = perf.trace /\ perf'.forked = perf.forked
        /\ perf'.workers = perf.workers
        /\ \/ perf'.state = perf.state
           \/ perf'.state \in {"done", "stuck"} /\ perf.state \in {"copy", "born", "single"}
    BY <1>1, Zenon DEF PerfInterrupted, PerfOK
  <2>3. PerfOK(perf')
    BY <2>2 DEF PerfOK
  <2>4. Unopened' = Unopened /\ Unforked' \subseteq Unforked /\ Left' = Left
    BY <2>1, <2>2 DEF Unopened, Unforked, Left, Forked
  <2>. QED
    BY <2>1, <2>2, <2>3, <2>4 DEF PerfMay, ToOpen
<1>. QED
  BY <1>1, ParentSteps, WorkerSteps, Zenon DEF Perf

-----------------------------------------------------------------------------
LEMMA FilesInit ==
  ASSUME Init
  PROVE  FilesInv
<1>1. /\ cmd \in Commands /\ param = Default /\ pc = "start" /\ recorded = FALSE /\ perf = NoPerf
      /\ sigint = "none" /\ perf_data \in (IF cmd.history >= 2 THEN {"old"} ELSE {"old", "none"})
      /\ script_out \in IF cmd.history = 3 THEN {Written(ReadOptions(cmd), "old")} ELSE {NoFiles, Stale}
  BY Zenon DEF Init
<1>2. /\ Default \in CommandLines /\ Default.history = 0 /\ cmd \in CommandLines
  BY <1>1, CommandsAssumption DEF Default, CommandLines
<1>3. PerfOK(NoPerf) /\ NoPerf.state = "none"
  BY DEF PerfOK, NoPerf
<1>4. DOMAIN script_out = Names
  BY <1>1, Zenon DEF Written, NoFiles, Stale
<1>. QED
  BY <1>1, <1>2, <1>3, <1>4
     DEF FilesInv, Types, Given, Made, Writers, Signals, Late, Cleared, Before, Analysis, Closing,
         Aborting, Over

(* The analysis leaves every file, every option and perf alone *)
LEMMA AnalysisSteps ==
  ASSUME NEW n, NEW t,
         \/ assign_parse_jobs \/ ParseJob(n) \/ assign_thread_jobs \/ ThreadJob(t)
         \/ wait_all_idle \/ Merge(t) \/ print_stat
  PROVE  /\ pc \in Analysis /\ pc' \in Analysis
         /\ UNCHANGED <<cmd, param, perf_data, script_out, recorded, perf, sigint, late>>
<1>1. CASE assign_parse_jobs \/ ParseJob(n)
  BY <1>1, Zenon DEF assign_parse_jobs, ParseJob, files, fate, Analysis
<1>2. CASE assign_thread_jobs \/ wait_all_idle
  BY <1>2, Zenon DEF assign_thread_jobs, wait_all_idle, files, fate, Analysis
<1>3. CASE ThreadJob(t)
  BY <1>3, Zenon DEF ThreadJob, files, fate, Analysis
<1>4. CASE Merge(t) \/ print_stat
  BY <1>4, Zenon DEF Merge, print_stat, files, fate, Analysis
<1>. QED
  BY <1>1, <1>2, <1>3, <1>4, Zenon

(* Before the analysis *)
LEMMA OptionSteps ==
  ASSUME FilesInv, ParseOptions \/ check_parameter
  PROVE  FilesInv'
<1>1. /\ UNCHANGED <<cmd, perf_data, script_out, recorded, perf, sigint, late>>
      /\ cmd \in CommandLines /\ param \in CommandLines
  BY Zenon DEF ParseOptions, check_parameter, files, fate, FilesInv, Types
<1>2. pc \in {"start", "check"} /\ sigint # "came"
  BY Zenon DEF ParseOptions, check_parameter, FilesInv, Signals, Aborting, Over
<1>3. CASE ParseOptions
  <2>1. pc = "start" /\ pc' = "check" /\ param' = cmd
    BY <1>3, Zenon DEF ParseOptions
  <2>2. cmd.history \in 0 .. 3
    BY <1>1, ReadKeeps, Zenon
  <2>. QED
    BY <1>1, <1>2, <2>1, <2>2, Zenon
       DEF FilesInv, Types, Given, Made, Writers, Signals, Late, Cleared, Before, Analysis, Closing,
         Aborting, Over
<1>4. CASE check_parameter
  <2>1. /\ pc = "check" /\ pc' \in {"record", "exit"}
        /\ pc' = "record" => param' = ReadOptions(param)
        /\ pc' = "exit" => param' = param /\ ~param.target
    BY <1>4, Zenon DEF check_parameter
  <2>2. /\ param.history \in 0 .. 3 /\ param' \in CommandLines /\ param'.history = param.history
        /\ param'.target = param.target
    BY <1>1, <2>1, ReadKeeps, Zenon
  <2>. QED
    BY <1>1, <1>2, <2>1, <2>2
       DEF FilesInv, Types, Given, Made, Writers, Signals, Late, Cleared, Before, Analysis, Closing,
         Aborting, Over
<1>. QED
  BY <1>3, <1>4, Zenon

LEMMA RecordSteps ==
  ASSUME FilesInv, perf_record \/ RecordEnds \/ start
  PROVE  FilesInv'
<1>1. /\ UNCHANGED <<cmd, param, script_out, perf, sigint, late>> /\ param.history \in 0 .. 3
      /\ pc \in Before /\ sigint # "came"
  BY ReadKeeps, Zenon
     DEF perf_record, RecordEnds, start, files, fate, FilesInv, Types, Signals, Before, Aborting, Over
<1>2. \/ /\ pc = "record" /\ UNCHANGED <<perf_data, recorded>>
         /\ pc' = "recorded" \/ (pc' = "recording" /\ param.history < 2)
      \/ /\ pc = "recording" /\ pc' = "recorded"
         /\ (perf_data' = "new" /\ recorded' = TRUE) \/ UNCHANGED recorded
      \/ /\ pc = "recorded" /\ UNCHANGED <<perf_data, recorded>>
         /\ (pc' = "exit" /\ param.history = 1) \/ (pc' = "script" /\ param.history # 1)
  BY <1>1 DEF perf_record, RecordEnds, start, files
<1>3. Types' /\ Given'
  BY <1>1, <1>2 DEF FilesInv, Types, Given, Before, Analysis, Closing, Over
<1>4. Made' /\ Cleared'
  BY <1>1, <1>2 DEF FilesInv, Made, Cleared, Analysis, Over
<1>5. Writers' /\ Signals'
  BY <1>1, <1>2 DEF FilesInv, Writers, Signals, Before, Analysis, Closing, Aborting, Over
<1>6. Late'
  BY <1>1, <1>2 DEF FilesInv, Late, Signals, Analysis, Aborting, Over
<1>. QED
  BY <1>3, <1>4, <1>5, <1>6, Zenon DEF FilesInv

LEMMA ScriptSteps ==
  ASSUME FilesInv, perf_script \/ fork \/ SetPid \/ waitpid
  PROVE  FilesInv'
<1>1. /\ UNCHANGED <<cmd, param, perf_data, script_out, recorded, sigint, late>>
      /\ param.history \in 0 .. 3 /\ sigint # "came"
  BY ReadKeeps, Zenon
     DEF perf_script, fork, SetPid, waitpid, files, fate, FilesInv, Types, Signals, Aborting, Over
<1>2. CASE perf_script
  <2>1. /\ pc = "script" /\ UNCHANGED perf
        /\ \/ param.history < 3 /\ pc' = "rm_stale"
           \/ param.history = 3 /\ pc' = "analyze"
    BY <1>1, <1>2 DEF perf_script
  <2>2. Types' /\ Given'
    BY <1>1, <2>1 DEF FilesInv, Types, Given, Before, Analysis, Closing, Over
  <2>3. Made' /\ Cleared'
    BY <1>1, <2>1 DEF FilesInv, Made, Cleared, Analysis, Over
  <2>4. Writers' /\ Signals'
    BY <1>1, <2>1 DEF FilesInv, Writers, Signals, Before, Analysis, Closing, Aborting, Over
  <2>5. Late'
    BY <1>1, <2>1 DEF FilesInv, Late, Signals, Analysis, Aborting, Over
  <2>. QED
    BY <2>2, <2>3, <2>4, <2>5, Zenon DEF FilesInv
<1>3. CASE fork
  <2>1. pc = "fork" /\ pc' = "forked" /\ perf' = [perf EXCEPT !.state = "copy"]
    BY <1>3, Zenon DEF fork
  <2>2. PerfOK(perf) /\ perf.state = "none"
    BY <2>1, Zenon DEF FilesInv, Writers, Before
  <2>3. PerfOK(perf')
    BY <2>1, <2>2 DEF PerfOK
  <2>. QED
    BY <1>1, <2>1, <2>2, <2>3
       DEF FilesInv, Types, Given, Made, Writers, Signals, Late, Cleared, Before, Analysis, Closing,
         Aborting, Over
<1>4. CASE SetPid \/ waitpid
  <2>1. /\ UNCHANGED perf
        /\ \/ pc = "forked" /\ pc' = "wait"
           \/ pc = "wait" /\ pc' = "analyze" /\ perf.state = "done"
    BY <1>4, Zenon DEF SetPid, waitpid
  <2>. QED
    BY <1>1, <2>1
       DEF FilesInv, Types, Given, Made, Writers, Signals, Late, Cleared, Before, Analysis, Closing,
         Aborting, Over
<1>. QED
  BY <1>2, <1>3, <1>4, Zenon

-----------------------------------------------------------------------------
(* The commands rm, and the end of main() *)
LEMMA RmSteps ==
  ASSUME FilesInv, ScriptsRemoved \/ RecordRemoved
  PROVE  FilesInv'
<1>1. /\ UNCHANGED <<cmd, param, recorded, perf, late>> /\ param.history \in 0 .. 3
      /\ sigint # "came" /\ (sigint' = sigint \/ sigint' = "no rm")
  BY ReadKeeps, Zenon
     DEF ScriptsRemoved, RecordRemoved, RmKilled, FilesInv, Types, Signals, Aborting, Over
<1>2. CASE ScriptsRemoved
  <2>1. /\ (pc = "rm_stale" /\ pc' = "fork") \/ (pc = "rm_scripts" /\ pc' = "exit")
        /\ UNCHANGED perf_data /\ DOMAIN script_out' = Names
        /\ sigint' # "no rm" => script_out' = NoFiles
    BY <1>2, Zenon DEF ScriptsRemoved, RmKilled, NoFiles
  <2>. QED
    BY <1>1, <2>1
       DEF FilesInv, Types, Given, Made, Writers, Signals, Late, Cleared, Before, Analysis, Closing,
         Aborting, Over
<1>3. CASE RecordRemoved
  <2>1. /\ pc = "rm_data" /\ pc' = "clear_script" /\ UNCHANGED script_out
        /\ perf_data' = "none" \/ sigint' = "no rm"
    BY <1>3, Zenon DEF RecordRemoved, RmKilled
  <2>. QED
    BY <1>1, <2>1
       DEF FilesInv, Types, Given, Made, Writers, Signals, Late, Cleared, Before, Analysis, Closing,
         Aborting, Over
<1>. QED
  BY <1>2, <1>3, Zenon

LEMMA ClearSteps ==
  ASSUME FilesInv, clear_record \/ clear_script \/ Exit
  PROVE  FilesInv'
<1>1. /\ UNCHANGED <<cmd, param, perf_data, script_out, perf, recorded, sigint, late>>
      /\ param.history \in 0 .. 3
  BY ReadKeeps, Zenon DEF clear_record, clear_script, Exit, files, fate, FilesInv, Types
<1>2. \/ pc = "clear" /\ pc' = "rm_data" /\ param.history = 0
      \/ pc = "clear" /\ pc' = "clear_script" /\ ~(~param.verbose /\ param.history = 0)
      \/ pc = "clear_script" /\ pc' = "rm_scripts" /\ param.history # 3
      \/ pc = "clear_script" /\ pc' = "exit" /\ (param.verbose \/ param.history = 3)
      \/ pc = "exit" /\ pc' = "ended"
  BY <1>1 DEF clear_record, clear_script, Exit
<1>3. Left' = Left /\ ToOpen' = ToOpen
  BY <1>1, Zenon DEF Left, ToOpen, Unopened, Unforked, Forked
<1>4. Types' /\ Given'
  BY <1>1, <1>2, <1>3 DEF FilesInv, Types, Given, Before, Analysis, Closing, Over
<1>5. Made' /\ Cleared'
  BY <1>1, <1>2, <1>3 DEF FilesInv, Made, Cleared, Analysis, Over
<1>6. Writers' /\ Signals'
  BY <1>1, <1>2, <1>3 DEF FilesInv, Writers, Signals, Before, Analysis, Closing, Aborting, Over
<1>7. Late'
  BY <1>1, <1>2, <1>3 DEF FilesInv, Late, Signals, Analysis, Aborting, Over
<1>. QED
  BY <1>4, <1>5, <1>6, <1>7, Zenon DEF FilesInv

(* The SIGINT, and the handler of func_latency *)
LEMMA SignalSteps ==
  ASSUME FilesInv, SignalIgnored \/ Signal \/ abort_cmd_killable
  PROVE  FilesInv'
<1>1. UNCHANGED <<cmd, param, perf_data, script_out, recorded, late>>
  BY Zenon DEF SignalIgnored, Signal, abort_cmd_killable, files, fate
<1>2. PerfOK(perf') /\ perf'.state = perf.state
  <2>1. PerfOK(perf) /\ \E s, t : perf' \in {perf, [perf EXCEPT !.sig = s], [perf EXCEPT !.sig = s, !.told = t]}
    BY Zenon DEF SignalIgnored, Signal, abort_cmd_killable, FilesInv, Writers
  <2>2. PICK s, t : perf' \in {perf, [perf EXCEPT !.sig = s], [perf EXCEPT !.sig = s, !.told = t]}
    BY <2>1, Zenon
  <2>. QED
    BY <2>1, <2>2 DEF PerfOK
<1>3. \/ /\ pc' = pc /\ pc \notin Aborting \cup Over /\ sigint = "none" /\ sigint' = "ignored"
      \/ pc' = "abort" /\ sigint = "none" /\ sigint' = "came"
      \/ pc = "abort" /\ pc' = "rm_record" /\ sigint' = sigint
  BY Zenon DEF SignalIgnored, Signal, abort_cmd_killable, Commanding, Aborting, Over, fate
<1>. QED
  BY <1>1, <1>2, <1>3
     DEF FilesInv, Types, Given, Made, Writers, Signals, Late, Cleared, Before, Analysis, Closing,
         Aborting, Over

LEMMA RemoveSteps ==
  ASSUME FilesInv, clear_record_files \/ clear_script_files
  PROVE  FilesInv'
<1>1. UNCHANGED <<cmd, param, recorded, perf, sigint>> /\ param.history \in 0 .. 3 /\ sigint = "came"
  BY ReadKeeps, Zenon
     DEF clear_record_files, clear_script_files, fate, FilesInv, Types, Signals, Aborting
<1>2. CASE clear_record_files
  <2>1. /\ pc = "rm_record" /\ pc' = "rm_script" /\ UNCHANGED script_out
        /\ param.history < 2 => perf_data' = "none"
        /\ param.history >= 2 => perf_data' = perf_data
    BY <1>1, <1>2 DEF clear_record_files
  <2>. QED
    BY <1>1, <2>1
       DEF FilesInv, Types, Given, Made, Writers, Signals, Late, Cleared, Before, Analysis, Closing,
         Aborting, Over
<1>3. CASE clear_script_files
  <2>1. /\ pc = "rm_script" /\ pc' = "exit" /\ UNCHANGED perf_data /\ script_out' = NoFiles /\ late' = ToOpen
    BY <1>3, Zenon DEF clear_script_files
  <2>2. Left' = {} /\ ToOpen' = ToOpen /\ DOMAIN script_out' = Names
    BY <1>1, <2>1, Zenon DEF Left, NoFiles, ToOpen, Unopened, Unforked, Forked
  <2>3. ASSUME ToOpen # {}
        PROVE  perf.trace # "none" \/ ~param.parallel \/ param.history = 2
    <3>1. /\ PerfOK(perf) /\ (param.history = 3 => perf.state = "none")
          /\ param.history < 2 => perf_data = "none"
      BY <1>1, <2>1, Zenon DEF FilesInv, Writers, Given, Late
    <3>2. CASE perf.state \in {"forking", "waiting"}
      BY <3>1, <3>2 DEF PerfOK
    <3>3. CASE perf.state \notin {"forking", "waiting"}
      <4>1. Unopened = {}
        BY <3>1, <3>3, Zenon DEF PerfOK, Unopened
      <4>2. Unforked # {}
        BY <2>3, <4>1, Zenon DEF ToOpen
      <4>3. perf.state \in {"copy", "born"} /\ (param.parallel => Readable(perf_data))
        BY <3>3, <4>2, Zenon DEF Unforked
      <4>. QED
        BY <1>1, <3>1, <4>3 DEF Readable
    <3>. QED
      BY <3>2, <3>3, Zenon
  <2>. QED
    BY <1>1, <2>1, <2>2, <2>3
       DEF FilesInv, Types, Given, Made, Writers, Signals, Late, Cleared, Before, Analysis, Closing,
         Aborting, Over
<1>. QED
  BY <1>2, <1>3, Zenon

-----------------------------------------------------------------------------
LEMMA FilesNext ==
  ASSUME FilesInv, [Next]_vars
  PROVE  FilesInv'
<1>1. CASE UNCHANGED vars
  <2>1. UNCHANGED <<cmd, param, pc, perf_data, script_out, recorded, perf, sigint, late>>
    BY <1>1, Zenon DEF vars
  <2>2. Types' /\ Made' /\ Cleared'
    BY <2>1 DEF FilesInv, Types, Made, Cleared
  <2>3. Given'
    BY <2>1 DEF FilesInv, Given
  <2>4. Writers' /\ Signals'
    BY <2>1 DEF FilesInv, Writers, Signals
  <2>5. Late'
    <3>1. Left' = Left /\ ToOpen' = ToOpen
      BY <2>1, Zenon DEF Left, ToOpen, Unopened, Unforked, Forked
    <3>. QED
      BY <2>1, <3>1 DEF FilesInv, Late
  <2>. QED
    BY <2>2, <2>3, <2>4, <2>5, Zenon DEF FilesInv
<1>2. CASE Perf
  <2>1. PerfMay /\ Types /\ PerfOK(perf)
    BY <1>2, PerfStep, Zenon DEF FilesInv, Writers
  <2>2. /\ pc \notin Before /\ ~(sigint # "came" /\ pc \in Analysis \cup Closing \cup Over)
        /\ param.history # 3
    BY <2>1, Zenon DEF FilesInv, Writers, Given, PerfMay
  <2>3. Types' /\ Made' /\ Cleared' /\ Signals'
    BY <2>1, <2>2 DEF FilesInv, Types, Made, Cleared, Signals, PerfMay, Closing
  <2>4. Given' /\ Writers'
    BY <2>1, <2>2 DEF FilesInv, Given, Writers, PerfMay, Before
  <2>5. Late'
    BY <2>1 DEF FilesInv, Late, PerfMay
  <2>. QED
    BY <2>3, <2>4, <2>5, Zenon DEF FilesInv
<1>3. CASE \E n, t : \/ assign_parse_jobs \/ ParseJob(n) \/ assign_thread_jobs \/ ThreadJob(t)
                     \/ wait_all_idle \/ Merge(t) \/ print_stat
  <2>1. /\ pc \in Analysis /\ pc' \in Analysis
        /\ UNCHANGED <<cmd, param, perf_data, script_out, recorded, perf, sigint, late>>
    BY <1>3, AnalysisSteps, Zenon
  <2>2. Types' /\ Given'
    BY <2>1 DEF FilesInv, Types, Given, Before, Analysis, Closing, Over
  <2>3. Made' /\ Cleared'
    BY <2>1 DEF FilesInv, Made, Cleared, Analysis, Over
  <2>4. Writers' /\ Signals'
    BY <2>1 DEF FilesInv, Writers, Signals, Before, Analysis, Closing, Aborting, Over
  <2>5. Late'
    BY <2>1 DEF FilesInv, Late, Signals, Analysis, Aborting, Over
  <2>. QED
    BY <2>2, <2>3, <2>4, <2>5, Zenon DEF FilesInv
<1>4. CASE ParseOptions \/ check_parameter \/ perf_record \/ RecordEnds \/ start
  BY <1>4, OptionSteps, RecordSteps, Zenon
<1>5. CASE perf_script \/ ScriptsRemoved \/ fork \/ SetPid \/ waitpid
  BY <1>5, ScriptSteps, RmSteps, Zenon
<1>6. CASE clear_record \/ RecordRemoved \/ clear_script \/ Exit
  BY <1>6, ClearSteps, RmSteps, Zenon
<1>7. CASE SignalIgnored \/ Signal \/ abort_cmd_killable \/ clear_record_files \/ clear_script_files
  BY <1>7, SignalSteps, RemoveSteps, Zenon
<1>. QED
  BY <1>1, <1>2, <1>3, <1>4, <1>5, <1>6, <1>7, Zenon DEF Next, Main

(* perf's processes, main() and its signal handler keep the invariant of   *)
(* the files, in every interleaving.                                       *)
THEOREM FilesInvariant == Spec => []FilesInv
BY FilesInit, FilesNext, PTL DEF Spec

(* The recording that --history=2 or 3 was given is never touched, also    *)
(* when a SIGINT arrives; the recording --history=1 made and the scripts   *)
(* of --history=3 are kept if the handler does not run.                    *)
THEOREM HistoryIsKept == Spec => []HistoryKept
<1>1. FilesInv => HistoryKept
  BY Zenon DEF FilesInv, Given, Made, HistoryKept, Exiting, Over
<1>. QED
  BY <1>1, FilesInvariant, PTL

(* Nothing is left when the program ends; after a SIGINT nothing but files *)
(* that perf had still to open when the handler removed the others, and    *)
(* none of a worker of a perf that had yet to open the recording the       *)
(* handler removed.                                                        *)
THEOREM NothingIsLeft == Spec => []NothingLeft
<1>1. FilesInv => NothingLeft
  BY Zenon DEF FilesInv, Signals, Late, Left, Cleared, NothingLeft, Exiting, Over
<1>. QED
  BY <1>1, FilesInvariant, PTL

=============================================================================
