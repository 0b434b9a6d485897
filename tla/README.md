# TLA+ specifications of pt_perf

`func_latency` measures the latency of one function from an Intel PT trace.
It records with `perf record`, has `perf script` print every branch, parses the
printed branches in a pool of worker threads, replays the branches of each
traced thread to pair calls with returns, and prints statistics. The repository
carries a modified Linux perf: its `perf script` can fork workers that decode
shares of the trace in parallel, filters branches while it decodes, and writes a
compact binary format. This directory holds TLA+ models of that pipeline, from
the kernel's ring buffers to the printed report, the TLC configurations that
check them, and TLAPS proofs of their main properties. `PROJECT.json` maps every
definition to the lines it models and lists what is hard to test in the code.

## Inventory of the system

| Part | State | Operations | What is hard about it |
|---|---|---|---|
| Main program: `main`, `pt_linux_perf.cc`, `sys_tools.cc` | parameters, child processes, `perf.data`, `script_out*` | parameter checks, signals, killable commands, removal of files | a signal while perf and its workers create files; files of earlier uses |
| perf session: `builtin-record.c`, `session.c`, `ordered-events.c` | ring buffers, `perf.data`, the queue of ordered events | passes over the buffers, rounds, flushes | records of several CPUs must be delivered in order of time |
| Intel PT queues: `intel-pt.c`, the heap of `auxtrace.c` | a decoder per queue, a heap, the thread of each CPU | `process_queues`, `sample`, `context_switch` | two sources tell when the thread changes; a queue that waits may wait for ever |
| Parallel `perf script`: the changes in `auxtrace.c`, `auxtrace.h`, `intel-pt.c` | counters copied by `fork`, `worker_pids`, a cache entry per queue | `process_index`, `add_event`, `get_trace`, `lookahead`, `waitpid` | children must cover the trace without overlap although a decoder can start only at a PSB |
| Script filter and dlfilter: `intel-pt.c`, `auxtrace.c`, `perf_dlfilter.cc` | none | filters by symbol, address, thread, name | what perf drops and what the analysis needs are decided in two programs |
| Compact script format: `pt_compact_format.h` | blocks, symbol cache, symbol table | writer in perf, reader in `func_latency` | two programs must agree on a file, also on one that was cut off |
| Worker pool: `include/worker.h`, `src/worker.cc` | per worker a job queue, `job_doing`, `should_stop`, `alive`, a mutex, three condition variables | `run`, `add_job`, `wait_idle`, `wait_all_idle`, `stop`, destructor | variables that wait predicates read are written without the mutex; spurious and lost wake-ups; three phases share the queues |
| Analysis phases: `analyze_funcs` and what it calls | parse jobs, action sets per thread, thread jobs, `gstat.real` | `assign_parse_jobs`, `ParseJob::exec`, `assign_thread_jobs`, `extract_actions` | a script divided among jobs must give the same sequence of actions as a whole one |
| Action parsing: `src/pt_action.cc`, `include/pt_action.h` | flags and sets of actions | `init_for_sched`, `init_for_ancestor`, `create_action_from_*`, `read_actions_from_*` | two input formats |
| Thread analysis: `ThreadJob::do_analyze` | call stack, child latencies, two off-CPU accumulators, code-block cursor, ancestor filter | one iteration per action | lost data, interrupts on the first instruction, exceptions, tail calls, recursion, ip filtering |
| Source-line map: `SrclineMap`, and `RwSpinLock` of `include/sys_tools.h` | two maps; one atomic counter and a mutex | `get`, `put`, `process_address`; `s_lock`, `x_lock` and their unlocks | check and insert are two critical sections; read and exchange are two steps |
| Statistics: `stat_tools` | buckets, distribution slots, totals | `add`, `merge`, `update_real`, `print` | the report must not depend on the order of merging |
| Text histograms, flame graph, the rest of perf | none of their own | | |

The parts interact in this order. `perf record` drains the ring buffers of all
CPUs into `perf.data`. `perf script` sorts the records, decodes the queues up to
the time of each record, filters the branches and writes them, in one process or
in several, one file each. The main thread makes one parse job per file or per
range of lines and gives them to the pool. After `wait_all_idle` it makes one
thread job per thread that has a branch of the target. A thread job merges the
action sets of all parse jobs and runs `do_analyze`, which records code blocks in
the shared source-line map. After a second `wait_all_idle` the main thread
resolves addresses, merges the statistics and prints; a third phase frees all
jobs, the files are removed, and `exit` runs the pool's destructor.

## Modules

| Module | Models | Runs |
|---|---|---|
| `ParallelWorker` | the pool and `analyze_funcs` as its client | `ParallelWorkerAll`, `ParallelWorkerExit` |
| `ActionMerge` | division of scripts, parse jobs, sorting, merge | `ActionMergeAll` |
| `TracedThread` | environment: CPU, kernel, PT driver, stock decoder | with `ThreadAnalyze` |
| `ThreadAnalyze` | `decode_to_actions` and `do_analyze` | `AnalyzeAll`, `AnalyzeBlockSyscall`, `AnalyzeUserSyscall` |
| `ParallelScript` | the forking `perf script` | `ScriptAll`, `ScriptSplitOnce` |
| `RwSpinLock` | the spin lock | through `SrclineMap` |
| `SrclineMap` | the map, its clients, on top of `RwSpinLock` | `SrclineAll` |
| `CompressedInt` | the variable-length integers | with `CompactScript` |
| `CompactFile` | records, blocks, stdio buffer of the compact format | with `CompactScript` |
| `BranchFilter` | perf's filters and `init_action` | with `CompactScript` |
| `CompactScript` | a perf worker, its symbol cache, the file and the parse job that reads it | `CompactAll` |
| `BranchStream` | abstract specification of the script: a stream of needed branches | refined by `CompactScript` |
| `OrderedEvents` | the queue of ordered events | with `PerfSession` |
| `AuxtraceHeap` | the heap of queues | with `IntelPtQueues` |
| `IntelPtQueues` | turns of the queues, context switches | with `PerfSession` |
| `PerfSession` | rounds of `perf record`, delivery of records, on top of the three above | `SessionAll` |
| `FuncStat` | distributions, buckets, `add`, `merge`, `print` | with `MainProgram` |
| `MainProgram` | `main`, perf's processes, signals, files, on top of `FuncStat` | `MainAll` |

The theorems are in `ParallelWorkerProofs`, `ActionMergeProofs`,
`ParallelScriptProofs`, `SrclineMapProofs` (with those of the lock),
`CompactFileProofs` (with those of the integers), `CompactScriptProofs`,
`PerfSessionProofs` (with those of the ordered events) and `MainProgramProofs`.
An `MC` module gives each checked
specification its small instance. A constant such as `Scenario`, `Traces`, `Inputs`,
`Params` or `Commands` is a set of ways of using the program; the initial state
picks one, so that one run covers several of them.

### ParallelWorker

The variables have the names of the members they stand for. `wpc` and `mpc` are
the program counters of `run()` and of the main thread; `done` is a history of
the calls of `exec()` that returned. A condition variable has at most one
waiter, so its wait set is a program-counter value. Evaluating a wait predicate
and blocking are separate steps, because `job_doing`, `should_stop` and `alive`
are written without the mutex. `job_doing` is not initialised by the
constructor, so it starts as null or as `Garbage`. Every wait may wake
spuriously, and the predicate is evaluated again each time (`RunRelock`, then
`RunWoken` or `RunNoJob`). `RunBreak` asks only whether the queue is empty, as the code
does; what its assertion says is the property `BreakAsserted`.

### ActionMerge

A line of the script is a thread, a time stamp and a kind (what
`init_action` will make of it); the kind `noise` is a line that
`create_action_from_string` rejects. `AssignParseJobs` divides, `ReadLine` is one
turn of `read_actions_from_text_file`, `SortActions` the rest of
`ParseJob::exec()`, `AssignThreadJobs` finds the threads and the range of time,
`ExtractNext` and `ExtractDone` are the loop of `extract_actions()`. The position
of a line in its file is kept in the action as history, so that the properties
can tell two equal actions apart. `std::stable_sort` is modelled by its contract:
the one permutation that is sorted by time and then by position. That the
branches of a thread are in order of time when `out_of_order` is unset is an
assumption on perf (`InTime`, in `InputAssumption`); `ActionSet::add_action` asserts it.

### TracedThread and ThreadAnalyze

`TracedThread` is not pt_perf code. It generates what the trace of one thread can
contain: a call stack with calls, returns, interrupts, system calls, schedules,
exceptions, tail calls, jumps inside the target (also one that is the only
instruction of its run) and losses of data, and for each transfer the branch record that the tracing mode shows. Frames also carry what
really happened. The analyser never reads that; the properties compare with it.

`ThreadAnalyze` has one action per exit of the loop body of `do_analyze()`.
`ctx` holds its local variables, `stat` what it leaves in `FuncStat` and
`gstat`. A transfer of the thread and its analysis are one step: the analyser
is a function of the sequence of actions, so the order of these steps does not
matter. Names of children and text are abstracted; a latency that is added to a
child is an element of the sequence `child`.

### ParallelScript

`procs[1]` is the parent, the others are children with the counters that `fork`
copied. An event is a queue and a sequence of atoms: a PSB, the two parts of a
split PSB, or other data. `Share` is the part of a buffer that `get_trace()` and
`lookahead()` hand on. `trace`, `seen`, `batch` and `looks` are history.

### RwSpinLock and SrclineMap

One action per atomic operation of the lock. `SrclineMap` calls the lock's
actions and does its own work only while the thread is at `s_held` or `x_held`.

### The compact script: CompressedInt, CompactFile, BranchFilter, CompactScript

A file is what is on disk and what is in stdio's buffer (`disk`, `base`, `buf`). A
byte is `<<k, i>>`, byte `i` of record `k`, so that the reader's walk can be
compared with what was written; the *sizes* come from the real encodings
(`write_compressed`, `get_compressed_size`). A record that does not fit moves to
the next block, and what that leaves behind is modelled as the code leaves it: an
UNDEFINE byte, the record once more, `fseek`, the record again. `Branch` is a
branch that the decoder finds, from the filters to the record, the symbol records
before it included. `Killed` ends the worker with any part of its buffer on disk;
a name that is too long ends it through `exit(1)`. The reader goes block by block
(`NextBlock`) and record by record (`ReadRecord`). `Garbled` is what it does with bytes
that are no whole record: it does not notice, takes them and what an earlier block
left in its buffer for records, adds symbols and actions that perf never wrote
(`Stray`), and goes on from a later place of the block, or crashes. A symbol number
that is read from a freed cache entry is the old one, that of any other symbol, or
one that no symbol has (`Junk`). `wanted` and `off` are history: the branches that the
decoder found and `init_action` would add, and whether anything was read that perf
did not mean.

`BranchStream` says what the analysis may expect of a script in any format: the
needed branches, each once, unchanged and in order. If the writer failed, the rest
may be missing, or the reader goes astray (`GoAstray`) and anything may follow; what
arrived before stays right. `StreamImplemented` is that specification under the mapping `seen <- actions`
and the phase; `AllArrive` adds that without a fault they do arrive.

### The session: OrderedEvents, AuxtraceHeap, IntelPtQueues, PerfSession

`KernelWrites` puts a record into the ring buffer of a CPU, or loses it when the
buffer is full. `ReadMmap` is `perf record` emptying the next buffer; a pass that
wrote something ends with a FINISHED_ROUND mark. `QueueEvent`, `SkipAux` (a parallel
worker drops PERF_RECORD_AUX events), `FinishedRound` and `EndOfFile` are
`perf script` reading; `Deliver` takes one record off the queue,
after which `RunQueues` decodes every queue up to its time and `Handled` applies it.
What the decoder returns for a queue is given (`items`): the packet decoder is
stock perf. Each item also carries the thread that really ran, which only the
property `Attributed` reads.

### FuncStat and MainProgram

`FuncStat` is a set of operators: a `Distribution` is its slots and totals, a
`Bucket` a function of names. `MainProgram` drives them: `Trace` gives the
invocations that each thread of a recording holds, a thread job adds them, `Merge`
merges the threads in any order, and `print` is what is printed. Around it are the
processes: `main`, perf's parent and its workers. A command that `system()` runs is a
call and its end (`perf_record`, `RecordEnds`; `perf_script`, `ScriptsRemoved`;
`clear_record`, `RecordRemoved`), and `exec_cmd_killable` is a fork, the note of its
result and, in the child, `execl()` (`fork`, `SetPid`, `Exec`).

One SIGINT may arrive at any time. During a command of `system()` it is ignored in
`func_latency` (`SignalIgnored`), but from the terminal it reaches the command: `perf
record` ends, `rm` may be killed with part of its work done (`RmKilled`). Otherwise
`sig_handler` runs to its end (`Signal`, `abort_cmd_killable`, `clear_record_files`,
`clear_script_files`), also when `exit()` has been called. It sends perf a signal, or
the terminal has sent one to all; perf handles it in a later step
(`PerfInterrupted`), in which it tells the workers it knows, and each of these in a
step of its own (`WorkerInterrupted`). Meanwhile all of them run on and may create
files. `late` is history: the files that perf had yet to open when the handler
removed the scripts. `exit()` is a step of its own (`Exit`), since with a pool it waits
for the pool's threads.

## Runs

| Run | Instance | Question | Result |
|---|---|---|---|
| `ParallelWorkerAll` | 2 workers, 3 parse jobs, 0 to 2 threads | Do the phase barriers hold, is every job executed once and in order, is `run()`'s assertion right, do the phases finish? | holds |
| `ParallelWorkerExit` | 2 workers, 2 parse jobs, 0 to 1 threads | Does `exit()` terminate? | violated |
| `ActionMergeAll` | 2 to 4 workers, scripts of 2 to 5 lines, up to 2 threads | Are actions ordered, stable, complete, and is the real trace time right? | holds |
| `AnalyzeAll` | six scenarios, stack depth 3 or 4, clock up to 8, 9 or 11 | Is what is recorded real, complete, exact? | holds |
| `AnalyzeBlockSyscall` | code blocks with system calls | Does the assertion of `add_code_block` hold? | violated |
| `AnalyzeUserSyscall` | user space only, system calls | Is every return recorded? | violated |
| `ScriptAll` | five scenarios, 2 or 3 workers, 4 or 5 buffers, 1 or 2 queues | Do the children partition and cover the trace? | holds |
| `ScriptSplitOnce` | a PSB split over two buffers | Is nothing decoded twice? | violated |
| `SrclineAll` | 2 jobs and main, 2 blocks | Does the lock exclude, does the first put win, has every block its line, does every thread get the lock? | holds |
| `CompactAll` | 11 branches, 2 errors, 3 events, blocks of 64 bytes, offsets below 320, a cache of 4 symbols, 2 sets of options | Does the compact script implement the abstract stream, and does every needed branch arrive? | holds |
| `SessionAll` | 41 recordings of up to 2 CPUs or 5 threads | Are records and samples in order, is every sample given its thread, is nothing left undecoded, does reading end? | holds |
| `MainAll` | 97 command lines, 2 recordings, 2 threads, up to 3 workers, a SIGINT | Is the report that of the recording, are the right files kept and removed, does everything end? | holds |

### Why the bounds are enough

- Pool: three jobs on two workers give a worker two jobs in one phase and the
  other one job, so a worker can finish early, be passed by `wait_all_idle`, and
  get work again in the next phase. The free phase has up to five jobs, so the
  round robin wraps. The safety properties are also proved for every size.
- Merge: the instances contain one job for a short file, ranges of unequal
  length, an empty last range that begins behind the end of the file (four
  workers, five lines), a missing script file, equal time stamps in one set and
  across sets, and unsorted input with `out_of_order`. `LinesPerWorker` is 1
  instead of 100, `UINT32_MAX` and `UINT64_MAX` are 100: what matters is only
  that they are above every line number and time stamp. All four properties are
  also proved for every input.
- Analysis: nine transfers (eleven in the complete trace, eight with code blocks) are a call of the target, an interrupt with a
  schedule inside it, the return, and a second call that a stale value of the
  first could spoil. Depth 4 is one recursive call with a child.
- Script: four buffers for three workers make steps that round up and a last
  child without a full share. The look-ahead is bounded by one per child. All five
  properties are also proved for every index, number of workers and bound.
- Lock: `WRITE` is scaled from 0x20000000 to the least value above the number of
  threads, the tightest value the assumption allows.
- Compact: a block of 64 bytes holds one or two records, so three events with
  their symbols cross several blocks, end exactly at one, and leave gaps of
  different sizes; thread numbers take one to four bytes; the names include one that
  just fits a block and one that does not; a cache of four is dropped within the
  run. `OffSpace` is five blocks, so offsets wrap where many symbols move to a new
  block. One stray symbol or action at a time (`MaxStray`) is enough to make every
  number and every place behind it wrong; several steps add several. Placement, sizes
  and the refinement are proved for every block size, under the assumptions below.
  `KeySpace` is above what the instance reaches.
- Session: each recording interleaves two switches of CPU 0 with one of CPU 1, at
  six places; with exact and with coarse clocks; kernel and user tracing; a thread
  that migrates; an error in the middle of a switch; a ring buffer of one record;
  branches in front of the first time stamp, which `intel_pt_setup_queue` drops.
  Five queues make a heap with a left child that has no sibling. The order of
  delivery is proved for every recording.
- Main: every combination of the options that decide about files, with files of
  earlier uses present or not. The two recordings divide into three and two shares,
  so there are fewer shares than workers, and as many. One SIGINT, since
  the handler ends the program, and while it runs the signal is blocked.

### Properties that hold

Pool: `PhaseBarrier` (no job runs before every job of the earlier phases was
executed), `NothingAbandoned` (the destructor finds nothing left to do),
`ExecutedOnceInOrder`, `BreakAsserted` (the assertion behind the wait of `run()`: no
spurious or late wake-up leads to an empty queue without `should_stop`),
`PhasesFinish`, and the type invariant.

Merge: `ThreadOrder` (by time, errors included), `FileOrder` (equal stamps in
script order, separately for branches and errors), `NothingDropped` (an extracted
thread has exactly the kept lines of the script), `RealSpansActions`. An error
and a branch with the same time stamp may change places when the number of
workers changes; `FileOrder` says nothing of that pair.

Analysis: `LatencyIsReal` (a latency is that of one real invocation),
`ExactWhenComplete` and `RecordedWhenComplete` (in a complete trace off-CPU and
child time are exact and no invocation is missed), `ChildrenFit`,
`LossWithinTrace` (the trace count and the missing time stay within what
happened), `BlockStartsReached` (a code block begins where its run began, or at an
earlier jump that was a run by itself; see the limits), `BlockSchedFits`,
`OnlyInsideAncestor`.

Script: `WorkerPidsInBounds`, `BatchesPartition`, `WholeDecodedOnce`,
`NothingLost`, `LookaheadInShare`.

Map and lock: `MutualExclusion`, `FirstPutWins`, `EveryBlockHasLine`,
`ReportPrinted`.

Compact script: `StreamImplemented` (the refinement: exact without a fault, and with
one up to the first torn record or wrong number), `AllArrive`, `WellPlaced` (no
record crosses a block, and the reader's walk reaches each one).

Session: `DeliveredInOrder` (when the queues are decoded up to a record's time, no
earlier record is in the queue or in the file), `HeapSound`, `OutInOrder`,
`Attributed` (a sample has the thread that ran the branch), `AllDecoded` (no queue
is left stopped at `__switch_to`), `ScriptEnds`.

Main: `ReportTrue` (the report equals a reference computed from all invocations at
once, whatever files were left, in whatever order the workers end and the threads
are merged), `HistoryKept` (once the options are read nothing touches the recording of
`--history=2` and 3; that of `--history=1` and the scripts of `--history=3` are kept if
the handler does not run), `NothingLeft` (no file is left that was not asked for; after
a SIGINT only files that perf had yet to open), `EverythingEnds` (every process ends,
except an `exit()` that waits for the pool and a copy of `func_latency` that the SIGINT
finds before its `execl()`).

### Disagreements found

- `ParallelWorkerExit`: `run()` clears `alive` and notifies `close_cv` without
  the mutex, so both can fall between the predicate and the block of `stop()`.
  The notification is lost and `exit()` waits for ever.
- `AnalyzeBlockSyscall`: a system call moves the code-block cursor but keeps
  `sched_in_child`, so the next block can be off CPU for longer than it takes.
  The assertion at `func_latency.cc:245` fails.
- `AnalyzeUserSyscall`: a `TR_END_SYSCALL` is pushed, but no `TR_START` pops it.
  Without kernel tracing an invocation with a system call is not recorded.
- `ScriptSplitOnce`: `memmem` does not see a PSB that crosses two buffers, so the
  segment behind it is decoded by two children.

### Fairness

`ParallelWorker`: weak fairness for each thread, since the operating system runs
every thread that can run, and strong fairness for the steps that take a mutex,
which is released again and again. Spurious wake-ups get no fairness, so no
progress depends on them. `SrclineMap`: weak fairness for each thread, strong
fairness for taking `m_writer`, for a load that can see a positive counter, for a
compare-exchange that can succeed and for the writer's load that can see zero. A
spin lock without queue gives no more by itself: the assumption is that the
scheduler does not let one thread miss every opportunity.

`CompactScript`: weak fairness of the reader, which is one thread that never
waits; none for the decoder, the kill or the close. `PerfSession`: weak fairness of
`perf script`, also a single process; the kernel and `perf record` may stop at any
time. `MainProgram`: weak fairness of `main`, whose `perf record` is assumed to end
(it runs `sleep` or the given command), of perf's processes, and of `exit()` while
there is no pool; with a pool its end is not assumed, because `ParallelWorkerExit`
shows that it may not come. A signal need not come. The other modules check safety only.

`CHECK_DEADLOCK FALSE` is set everywhere because each of these programs ends:
the pool when `exit()` returns, the others when the input is used up or a clock
reaches its bound.

## Proofs

TLAPS checks the following for every value of the constants that the named
assumptions allow. Where the last column names a property, a run checks the same
property on its instance.

| Theorem | Statement | Property |
|---|---|---|
| `PoolTypeCorrect` | `Spec => []TypeOK` | `TypeOK` |
| `BarrierSound` | `Spec => []PhaseBarrier` | `PhaseBarrier` |
| `NoJobAbandoned` | `Spec => []NothingAbandoned` | `NothingAbandoned` |
| `BreakOnlyOnStop` | `Spec => []BreakAsserted` | `BreakAsserted` |
| `WorkersInOrder` | `Spec => []ExecutedOnceInOrder` | `ExecutedOnceInOrder` |
| `MergeKeepsOrder` | `Spec => []ThreadOrder` | `ThreadOrder` |
| `ScriptInvariant` | `Spec => []ScriptInv`, the invariant of the next three | |
| `MergeKeepsFileOrder` | `Spec => []FileOrder` | `FileOrder` |
| `MergeDropsNothing` | `Spec => []NothingDropped` | `NothingDropped` |
| `RealIsSpan` | `Spec => []RealSpansActions` | `RealSpansActions` |
| `PidsInBounds` | `Spec => []WorkerPidsInBounds` | `WorkerPidsInBounds` |
| `Partition` | `Spec => []BatchesPartition` | `BatchesPartition` |
| `LookaheadStays` | `Spec => []LookaheadInShare` | `LookaheadInShare` |
| `DecodedByOne` | `Spec => []WholeDecodedOnce` | `WholeDecodedOnce` |
| `ChildrenDecodeAll` | `Spec => []NothingLost` | `NothingLost` |
| `LockCounts`, `LockExcludes` | `LockSpec => []WordCounts`, `LockSpec => []MutualExclusion` | |
| `ClientsLock` | `Spec => LockSpec`: the map's threads are clients of the lock | |
| `MapExcludes` | `Spec => []MutualExclusion` | `MutualExclusion` |
| `AddressesKept` | `Spec => FirstPutWins`, an action property | `FirstPutWins` |
| `LinesComplete` | `Spec => []EveryBlockHasLine` | `EveryBlockHasLine` |
| `SizeAgrees`, `RoundTrip` | what `write_compressed` writes has the size `get_compressed_size` says, and a 32-bit value is read back, whatever follows it | |
| `ReadsWhatWasWritten` | `ReadSize(r) = WriteSize(r)` for a record whose numbers have 32 bits | |
| `RecordsWellPlaced` | `Spec => []WellPlaced`, given `NamesFit` | `WellPlaced` |
| `StreamImplements` | `Spec /\ []OffsetsFit => StreamImplemented`, given `Assumed` (with `FiltersMatch`) | `StreamImplemented` |
| `RecordsInOrder` | `Spec => []DeliveredInOrder` | `DeliveredInOrder` |
| `QueueStaysSound` | `Spec => []QueueSound` | |
| `FilesInvariant` | `Spec => []FilesInv`, the invariant of the next two | |
| `HistoryIsKept` | `Spec => []HistoryKept` | `HistoryKept` |
| `NothingIsLeft` | `Spec => []NothingLeft` | `NothingLeft` |

### What they assume

- Pool (`PoolAssumption`, `NullAssumption`): at least one worker, any number of jobs.
- Merge (`InputAssumption`): time stamps and line numbers below their maxima, no more
  files than workers, and perf's order of branches (`InTime`) unless `out_of_order` is set.
- Parallel script (`ScriptAssumption`): more than one worker, any index of events.
- Lock (`LockAssumption`) and map (`MapAssumption`): finitely many threads, fewer than
  `WRITE`, main among them.
- Compact script: `FileAssumption` and `ScriptAssumption` are types and sizes. `Assumed`
  is what the code takes for granted: no name has the one length that the writer's
  check lets pass wrongly (`NamesFit`); the low 32 bits of an address tell the printed
  symbols apart (`KeysTell`); thread numbers have 32 bits and there are fewer symbols
  than a number can count (`NumbersFit`); the target, the ancestor and the schedule
  function are where perf's filters look for them (`FiltersMatch`). So the theorem is
  not about every program: where the target has symbols outside `--binary`, or a
  recursive ancestor meets the dlfilter, perf drops branches that the analysis needs
  (see the limits). The instance of `CompactAll` satisfies it (`InstanceFits`). `[]OffsetsFit` says that no offset of a
  file passes 32 bits; beyond that `output_symbols_lookup_and_add` may take a symbol
  for one that was not written.
- Session (`TraceAssumption`): the records of all CPUs have monotonic times.
- Main program (`CommandsAssumption`): options as on the command line, with
  `--history` from 0 to 3, the documented values.

### The arguments

The pool. `PhaseBarrier` is not inductive, since `wait_all_idle()` looks at one
worker after the other. `PoolInv` adds that a worker that was passed has an empty
queue and is not executing (`Settled`; main adds nothing meanwhile, and `job_doing`
is null only when the worker holds no job), that every job added in this phase
is in its worker's queue, in its hand or done (`Accounted`), and that the phases
that are over are done (`PhasesDone`). When `wait_all_idle()` returns, `Settled`
for all workers turns `Accounted` into `PhasesDone` of the phase. For
`WorkersInOrder`, `HandledInOrder` says that what a worker has done, then what it
holds, then its queue, is one strictly increasing sequence of jobs, and that main
adds a job behind all of it. For `BreakOnlyOnStop`, a worker that has left the wait
(`woken`) has a job or was told to stop: it holds the mutex since the predicate was
true, nobody else takes jobs, and `should_stop` is never reset.

The merge. `MergeInv` says that the set of a finished job is in order
(`SetsOrdered`), and that nothing that a source has left is older than what was
taken (`RestIsLater`). For parsed actions that are not sorted the order comes
from the script, through the lines the actions were read from (`FromLines`). One
turn takes the least of the next actions, and the sources are in order, so it
takes the least of all that is left (`TakenIsOldest`). `ScriptInv` adds which lines
are whose: a job's set holds exactly the kept lines of its range that it has read,
with equal time stamps in the order of the lines (`SetsHold`, `SetsInLineOrder`; a
permutation loses no element, by a pigeonhole argument), and what a thread's merge
has taken comes before what the sources have left (`TakeInv`). The ranges divide each
file, and a tie between two sources goes to the first, which makes `FileOrder`.

The parallel script. The parent and every child walk the same events, but not at
the same time, and each keeps counters of its own. `Sums` says what the counters are
at event `i`, as two functions of `i` that all processes share; the total is their
last value. So the event at which the parent forks child `k + 1` is the one at which
child `k` stops counting (`InBatch`), although the child gets there later or earlier.
The step is the total divided by the number of workers, rounded down, plus one, so
the thresholds of all workers exceed the total and one more fork cannot happen.

What the children decode has an invariant of its own, `DInv`. A child has queued
exactly the unfiltered buffers from the first of its batch on, with those of its
batch first (`QueueOK`). Its counters say how far `get_trace()` is and whether there
was a PSB behind the batch (`EntryOK`), so what it was handed is its share of these
buffers (`TraceOK`): all of the batch, and what follows up to the next PSB.
`lookahead()` runs ahead with counters of its own and has shown nothing but the
share (`SeenOK`). A child that exits has been handed its whole share, which is
`LookaheadInShare`. A decoder starts at a PSB. When no PSB is split, the PSBs that a
later child has are those of its batch and behind, and an earlier child's share ends
before them (`Stops`, `Ahead`), so nothing is decoded twice. Nothing is lost
because the last PSB up to an atom is in the batch of one child, by `Partition`, and
that child's share goes on up to the next PSB (`Holding`); a PSB split over two
buffers begins in the batch, and the share has its second half too. The stream of a
queue and the loop of `lookahead()` are recursive functions; that they exist and what
they return is proved by looking at the least argument at which it would fail, which
needs only that sets of natural numbers have least elements (`WellOrder`).

The lock and the map. `MutualExclusion` needs to know what the counter means:
`WordCounts` says that it is `WRITE` less one per reader and less `WRITE` for the
writer that subtracted, that `m_writer` belongs to the thread past it, and that a
reader about to exchange expects a positive value. With fewer threads than `WRITE`
the counter is zero or below while a writer has subtracted, so no exchange succeeds.
Every step of the map is a step of the lock or leaves it alone (`ClientsLock`), so
what is proved of the lock holds in the map. `MapInv` adds where a thread holds the
lock (`Discipline`), that the result of `find()` is still true where it is used
(`FindHolds`), and who has yet to record a block (`Recorded`).

The compact script. The integers are proved form by form, with the bytes of a
number as the quotients by powers of 256. `WellPlaced` rests on `WorkerOK`: the
worker's file is as perf leaves it between two records (`FileOK`: the position is
right behind the last record, every record sits in one block, every gap has its
mark), and the numbers it will write are naturals. A record is at most as long as
a block, so the block of the byte behind it is the same block or the next one. When
it is the same, the record fits; when it is the next, the record moves to its start
and the mark is where the walk would look.

The refinement. The reader comes long after the writer, when the cache may have been
dropped several times, so what a record means has to be remembered. `Hist` gives the
symbols `V` in the order of their numbers, and for each record how many symbols
(`c[k]`) and how many of the wanted actions (`d[k]`) are known once it is read. `Means`
says that a symbol record carries the next element of `V`, and that a branch record
names two elements of `V` that are already there and, unless `init_action` drops
it, makes the next wanted action of them. The writer extends the history with
each record (`HistGoesOn`), more symbols and actions do not change what earlier records
mean (`MeansStill`), and a file that is cut off keeps the history of what is left. The
reader's state is a place in it (`ReadAt`: `m_vec` is the first part of `V`, `actions`
the first part of the wanted ones). A step of the reader moves that place by one
record, which is a step of `BranchStream` or a stutter. A record whose number was read
from freed memory, or one that is torn, ends the correspondence: from there on `off`
is set and the steps of the reader are those of `GoAstray`. `Garbled` is not reachable
without a fault: `WellPlaced` brings the walk to each record, `ReadsWhatWasWritten` to
its end, and the numbers of a branch are below `c[k]`. That perf's filters drop nothing
wanted is `FiltersMatch` applied to each kind of branch that `init_action` keeps.

The session. That times are in order two rounds apart (`Spread`) is what
`perf record` provides: `RecordOK` says that a record still in a buffer is not
before those of all complete rounds but the last, and not before the last either
once the pass has been to its buffer. `perf script` turns this into `ReadBound`: what
comes behind the next mark is not before `next_flush`, and behind the one after it
not before `max_timestamp`, which becomes `next_flush` then. `DeliveredFirst` is
the conclusion, kept along the flush. `QueueSound` needs `LastSurvives`: a flush
that does not reset `last` does not delete it.

The main program. That no file is left says nothing of who might still write
one. `FilesInv` does. Before perf script is started and after it was waited for there
is no writer (`Writers`). After the handler every file that exists, and every file that
a process may still open (`ToOpen`), is in `late` (`Late`): a worker can only open the
file of its own share, and perf forks no more of them than it had to when the handler
ran. With `--history` below 2 the recording is removed before the scripts, so a
perf that has not opened it finds nothing and forks nobody. `Given` says that
what the command line presupposes is there until it is read, and which commands
are never given; `Made` that the recording of `--history=1` is there from the end of
`perf record` on; `Cleared` what main() has removed when no SIGINT disturbed it.

### Only model-checked

- Liveness (`PhasesFinish`, `ReportPrinted`, `AllArrive`, `ScriptEnds`,
  `EverythingEnds`): temporal reasoning with fairness and `ENABLED` is out of reach of
  the prover.
- `ReportTrue`: the totals, slots and buckets are folds over the invocations, and that
  they do not depend on the order needs induction over data. The provers cannot
  instantiate the induction theorems of the library; the argument by a least
  counterexample that `ParallelScriptProofs` uses instead was not carried through
  these folds. `Attributed`, `OutInOrder` and `AllDecoded` speak of what the decoder
  returns for a whole recording, and `HeapSound` of loops over the heap, for which the
  same holds.
- Everything about `ThreadAnalyze` (`LatencyIsReal`, `ExactWhenComplete`,
  `RecordedWhenComplete`, `ChildrenFit`, `LossWithinTrace`, `BlockStartsReached`,
  `BlockSchedFits`, `OnlyInsideAncestor`): an inductive invariant would relate the
  analyser's stack to that of the thread under every kind of transfer and of
  loss, in six scenarios with hypotheses of their own. TLC does that on traces up to
  eleven transfers.

## Limits of the models

How much is covered. The mapped lines are about half of `src/src` and
`src/include` (without the histogram header), most of the compact format, and the
parts of perf that the trace passes through. They are about one percent of the
whole tree, because the tree contains a complete copy of Linux perf, of which this
program uses a small part.

Pool, lock and merge:

- Memory is sequentially consistent. The memory orders of `RwSpinLock` and the
  data race on `job_doing` beyond its first, uninitialised read are not modelled.
- `stop()` may return, and the worker be deleted, before `run()` has called
  `notify_one()` on the worker's condition variable. The state is reachable in
  `ParallelWorker` (`deleted` and `wpc = "notify"`); nothing in the repository
  states the contrary.
- Line numbers of a text script are 32 bits wide (`pt_action.h:152`); the instance
  is far below that.

Analysis:

- The time of one schedule is kept in 32 bits of nanoseconds
  (`func_latency.cc:359`), so a sleep of more than 4.29 seconds is charged modulo
  that. `SchedMod` is above the clock of the instance; with a smaller value
  `ExactWhenComplete` fails.
- With ip filtering an interrupt on the first instruction is a `TR_END_HW_INT`,
  which does not clear `no_hw_int_from_head` (`func_latency.cc:388`). Its resumption is
  taken for a new call, and `LatencyIsReal` fails on such a trace. The scenario
  with ip filtering has no interrupt there.
- The scenarios keep interrupts away from the first instruction of the target
  when data can be lost: the `IRET` to `target+0x0` after a lost interrupt is
  taken for a call.
- The trace of a recursive target contains no tail calls: a stack of flags
  cannot tell which frame such a pair belongs to.
- Jumps inside the target do not land on its first instruction, and a function
  is not split into a hot and a cold part.
- A code block is, in the repository's README (line 143), the code "from the point one
  branch ends to the point another branch starts". The blocks of `add_code_block()` are
  not always that: a jump that is the only instruction of its run returns early
  (`func_latency.cc:233`) and leaves the cursor behind, so the next block begins
  at that jump and contains it. `BlockStartsReached` allows for exactly this, in a
  scenario in which it happens; the stronger statement, that a block contains no other
  branch, fails there.
- An ancestor that is left by an exception keeps the filter open
  (`func_latency.cc:343` closes it at a return only); no scenario combines the two.
- The look-ahead of `ancestor_latency` over the following actions is a free
  choice between its two outcomes.

Parallel script:

- The parent does not look at the exit status of its children; children do not
  fail in `ParallelScript` (they do in `CompactScript` and `MainProgram`).

Compact script:

- A run in which the cache is dropped between the two symbols of a branch counts
  as faulty: the number of the first is read from freed memory. What is read before
  the first wrong number is still exact, also when the freed memory still held
  the right one for a while. A file of 4 GiB, where an offset kept in a `uint32_t`
  wraps, is faulty from its start, since its records overwrite each other.
- What the reader makes of bytes that are no record is abstracted to `Stray`: no
  property speaks of it, and it may do anything but repair the actions it has.
- The cache is keyed by the low 32 bits of an address (`auxtrace.c:164`). Two
  addresses that agree in them get one symbol; the instance has none.
- The check that a symbol fits a block (`pt_compact_format.h:254`) lets a name of
  `PT_FILE_BLOCK_SIZE - 20` bytes pass, which does not fit.
- `assert(sym_mgr.create(...))` (`pt_action.cc:184`) reads symbols only when
  assertions are compiled in, which is assumed.
- The dlfilter drops every branch between two symbols of the same name, also the
  recursive call of an ancestor. An ancestor in a library is filtered out by its
  address. What `init_action` needs (`Needed`) agrees with what perf prints for the
  instance's programs, in which neither occurs; a "tr end return" from
  `__schedule` does not occur either.

Session:

- Times are monotonic across CPUs, as the comment in `session.c` assumes. A queue
  size limit is not configured, so the HALF flush does not occur.
- A lost switch-out record leaves a queue that stopped at `__switch_to` off the heap
  for good (`intel-pt.c:3455`); `Attributed` and `AllDecoded` are stated for
  recordings without loss.
- With kernel tracing per task the branches between the start of the trace and the
  switch-in record belong to the thread before; with coarse clocks the first
  switch of a queue may be misattributed. `Certain` says which items the property
  covers.
- `intel_pt_setup_queue` drops decoding errors before the first time stamp.

Main program:

- The handler is installed before the options are parsed (`func_latency.cc:846`): a
  SIGINT in between acts on the default history of 0 and removes a `perf.data` that
  `--history=2` was to read. `HistoryKept` speaks of the parsed option.
- A SIGINT after `perf record` removes the recording that `--history=1` was to keep,
  up to the end of `exit(0)`, and one at any time removes the scripts of `--history=3`:
  the handler asks only whether `--history` is below 2, and for the scripts not at all.
  `HistoryKept` promises these only if the handler does not run.
- After a SIGINT files may be left: those of workers that were born but had
  not opened them, or were forked later, because a signal takes two hops to reach them,
  and because a worker in its first instructions still takes itself for the parent
  (`builtin-script.c:2802`). `NothingLeft` says that there are no others.
- A SIGINT that finds the process between `fork()` and `execl()` runs the handler of
  `func_latency` in the copy, whose `exit()` waits for threads that it does not have. It is
  left behind (`stuck`), and `EverythingEnds` says that nothing else is.
- The SIGINT is handled by the main thread, the handler's calls run to their end, and
  its `rm` removes what is there at one moment.
- After a failed `perf record` an older `perf.data` is analysed. `ReportTrue` says
  that the report is that of the file, and of the new one if there is one.
- A shell that does not know `&>` runs perf in the background; bash is assumed. A
  second SIGINT, and one that is sent to a process of perf alone, are left out.
- The totals are unbounded integers and latencies are below 2^30.

Not modelled: text histograms and the flame graph (layout and external scripts, no
state that outlives a call); the timeline, `sched_count` and the time interval of
`FuncStat`; the tokens of a text line; guests, PEBS, power events and timeless
decoding in `intel-pt.c`; pipes and `perf.data` directories in `session.c`; the packet
decoder, symbol tables and other commands of perf, which are environment.

## What could be added

- The composition of the pool with the steps of `ActionMerge`, whose phase guards
  the pool implements.
- Proofs of `HeapSound` and `OutInOrder`, and of the safety of `ThreadAnalyze`.
- The composition of `PerfSession` with `ParallelScript`: the batch of a worker as the
  items of its queues.
