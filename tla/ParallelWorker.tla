--------------------------- MODULE ParallelWorker ---------------------------
(***************************************************************************)
(* The worker threads of include/worker.h and src/worker.cc, driven by the *)
(* main thread the way analyze_funcs() (src/func_latency.cc) drives them:  *)
(*                                                                         *)
(*   start the pool; add the parse jobs, wait_all_idle(); add one thread   *)
(*   job per traced thread, wait_all_idle(); add one MemoryFreeJob per     *)
(*   job created so far, wait_all_idle(); exit(), which runs the pool's    *)
(*   destructor: stop() and delete every worker.                           *)
(*                                                                         *)
(* A condition variable of a worker has at most one waiter (the worker on  *)
(* jobs_cv, the main thread on idle_cv and close_cv), so the wait set is   *)
(* a program-counter value: a thread at "jobs_wait", "idle_wait" or        *)
(* "close_wait" is blocked, and a notify moves it to the matching          *)
(* "_relock".  Evaluating a wait predicate and blocking are two steps,     *)
(* because other threads write what the predicates read without holding    *)
(* the mutex (job_doing in run(), should_stop in stop(), alive in run()).  *)
(***************************************************************************)
EXTENDS Naturals, Sequences

CONSTANTS PoolSize,    \* param.worker_num
          ParseJobs,   \* number of parse jobs assign_parse_jobs() creates
          MaxThreads,  \* bound on the traced threads a parse can find
          NULL,        \* the null job pointer
          Garbage      \* job_doing before run() first writes it

ASSUME PoolAssumption ==
  /\ PoolSize \in Nat \ {0}
  /\ ParseJobs \in Nat
  /\ MaxThreads \in Nat

Phases == 1..3          \* 1 parse, 2 analyse, 3 free memory
Worker == 0..(PoolSize - 1)
Main == PoolSize        \* the main thread, as a mutex owner
Free == PoolSize + 1    \* nobody owns the mutex

(* A job is the pair of its phase and its index in that phase. *)
Job == Phases \X Nat

ASSUME NullAssumption == NULL \notin Job /\ Garbage \notin Job /\ NULL # Garbage

VARIABLES
  jobs,         \* [Worker -> Seq(Job)]: ParallelWorker::jobs
  job_doing,    \* [Worker -> Job \cup {NULL, Garbage}]
  should_stop,  \* [Worker -> BOOLEAN]
  alive,        \* [Worker -> BOOLEAN]
  m_mutex,      \* [Worker -> owner]
  wpc,          \* [Worker -> program counter of run()]
  deleted,      \* [Worker -> BOOLEAN]: delete workers[i] was executed
  done,         \* [Worker -> Seq(Job)]: history of exec() calls that returned
  mpc,          \* program counter of the main thread
  phase,        \* the phase of analyze_funcs() main is in
  next,         \* index of the next job main adds in this phase
  cur,          \* index of the worker main's loop is at
  threads       \* number of thread jobs, known once phase 1 is parsed

mainVars == <<mpc, phase, next, cur, threads>>
workerVars == <<jobs, job_doing, should_stop, alive, m_mutex, wpc, deleted, done>>
vars == <<workerVars, mainVars>>

(* How many jobs analyze_funcs() adds in phase p. *)
JobCount(p) == IF p = 1 THEN ParseJobs
               ELSE IF p = 2 THEN threads ELSE ParseJobs + threads

WorkerPC == {"unborn", "test", "reset", "lock", "pred", "jobs_block", "jobs_wait",
             "jobs_relock", "woken", "exec", "exit", "notify", "gone"}
MainPC == {"start", "add", "idle_lock", "idle_pred", "idle_block", "idle_wait",
           "idle_relock", "stop_set", "stop_lock", "stop_pred", "close_block",
           "close_wait", "close_relock", "delete", "exited"}

Init ==
  /\ jobs = [w \in Worker |-> <<>>]
  /\ job_doing \in [Worker -> {NULL, Garbage}]
  /\ should_stop = [w \in Worker |-> FALSE]
  /\ alive = [w \in Worker |-> FALSE]
  /\ m_mutex = [w \in Worker |-> Free]
  /\ wpc = [w \in Worker |-> "unborn"]
  /\ deleted = [w \in Worker |-> FALSE]
  /\ done = [w \in Worker |-> <<>>]
  /\ mpc = "start" /\ phase = 1 /\ next = 0 /\ cur = 0
  /\ threads = 0

-----------------------------------------------------------------------------
(* ParallelWorker::run() *)

(* while (!should_stop.load()) *)
RunTest(w) ==
  /\ wpc[w] = "test"
  /\ wpc' = [wpc EXCEPT ![w] = IF should_stop[w] THEN "exit" ELSE "reset"]
  /\ UNCHANGED <<jobs, job_doing, should_stop, alive, m_mutex, deleted, done, mainVars>>

(* job_doing = nullptr, before the mutex is taken *)
RunReset(w) ==
  /\ wpc[w] = "reset"
  /\ job_doing' = [job_doing EXCEPT ![w] = NULL]
  /\ wpc' = [wpc EXCEPT ![w] = "lock"]
  /\ UNCHANGED <<jobs, should_stop, alive, m_mutex, deleted, done, mainVars>>

(* Mutant: idle_cv is not notified. *)
RunLockSilent(w) ==
  /\ wpc[w] = "lock"
  /\ m_mutex[w] = Free
  /\ m_mutex' = [m_mutex EXCEPT ![w] = w]
  /\ wpc' = [wpc EXCEPT ![w] = IF jobs[w] = <<>> THEN "pred" ELSE "woken"]
  /\ UNCHANGED <<jobs, job_doing, should_stop, alive, deleted, done, mainVars>>

(* Take the mutex; with no job left, idle_cv.notify_one() and jobs_cv.wait(). *)
RunLock(w) ==
  /\ wpc[w] = "lock"
  /\ m_mutex[w] = Free
  /\ m_mutex' = [m_mutex EXCEPT ![w] = w]
  /\ wpc' = [wpc EXCEPT ![w] = IF jobs[w] = <<>> THEN "pred" ELSE "woken"]
  /\ mpc' = IF jobs[w] = <<>> /\ mpc = "idle_wait" /\ cur = w THEN "idle_relock" ELSE mpc
  /\ UNCHANGED <<jobs, job_doing, should_stop, alive, deleted, done, phase, next, cur, threads>>

(* The predicate of jobs_cv.wait() is false: about to block. *)
RunNoJob(w) ==
  /\ wpc[w] = "pred"
  /\ jobs[w] = <<>> /\ ~should_stop[w]
  /\ wpc' = [wpc EXCEPT ![w] = "jobs_block"]
  /\ UNCHANGED <<jobs, job_doing, should_stop, alive, m_mutex, deleted, done, mainVars>>

(* jobs_cv.wait() releases the mutex and blocks, atomically. *)
RunBlock(w) ==
  /\ wpc[w] = "jobs_block"
  /\ m_mutex' = [m_mutex EXCEPT ![w] = Free]
  /\ wpc' = [wpc EXCEPT ![w] = "jobs_wait"]
  /\ UNCHANGED <<jobs, job_doing, should_stop, alive, deleted, done, mainVars>>

(* A wait may return without a notification. *)
RunSpurious(w) ==
  /\ wpc[w] = "jobs_wait"
  /\ wpc' = [wpc EXCEPT ![w] = "jobs_relock"]
  /\ UNCHANGED <<jobs, job_doing, should_stop, alive, m_mutex, deleted, done, mainVars>>

(* The predicate holds: jobs_cv.wait() returns, with the mutex held. *)
RunWoken(w) ==
  /\ wpc[w] = "pred"
  /\ jobs[w] # <<>> \/ should_stop[w]
  /\ wpc' = [wpc EXCEPT ![w] = "woken"]
  /\ UNCHANGED <<jobs, job_doing, should_stop, alive, m_mutex, deleted, done, mainVars>>

(* Mutant: a wait without a predicate, which any wake-up ends. *)
RunRelockReturns(w) ==
  /\ wpc[w] = "jobs_relock"
  /\ m_mutex[w] = Free
  /\ m_mutex' = [m_mutex EXCEPT ![w] = w]
  /\ wpc' = [wpc EXCEPT ![w] = "woken"]
  /\ UNCHANGED <<jobs, job_doing, should_stop, alive, deleted, done, mainVars>>

(* The wake-up takes the mutex again and re-evaluates the predicate. *)
RunRelock(w) ==
  /\ wpc[w] = "jobs_relock"
  /\ m_mutex[w] = Free
  /\ m_mutex' = [m_mutex EXCEPT ![w] = w]
  /\ wpc' = [wpc EXCEPT ![w] = "pred"]
  /\ UNCHANGED <<jobs, job_doing, should_stop, alive, deleted, done, mainVars>>

(* Mutant: the job is not popped. *)
RunTakeNoPop(w) ==
  /\ wpc[w] = "woken"
  /\ jobs[w] # <<>>
  /\ job_doing' = [job_doing EXCEPT ![w] = Head(jobs[w])]
  /\ m_mutex' = [m_mutex EXCEPT ![w] = Free]
  /\ wpc' = [wpc EXCEPT ![w] = "exec"]
  /\ UNCHANGED <<jobs, should_stop, alive, deleted, done, mainVars>>

(* job_doing = jobs.front(); jobs.pop(); unlock *)
RunTake(w) ==
  /\ wpc[w] = "woken"
  /\ jobs[w] # <<>>
  /\ job_doing' = [job_doing EXCEPT ![w] = Head(jobs[w])]
  /\ jobs' = [jobs EXCEPT ![w] = Tail(@)]
  /\ m_mutex' = [m_mutex EXCEPT ![w] = Free]
  /\ wpc' = [wpc EXCEPT ![w] = "exec"]
  /\ UNCHANGED <<should_stop, alive, deleted, done, mainVars>>

(* No job: assert(should_stop), and break, which unlocks. *)
RunBreak(w) ==
  /\ wpc[w] = "woken"
  /\ jobs[w] = <<>>
  /\ m_mutex' = [m_mutex EXCEPT ![w] = Free]
  /\ wpc' = [wpc EXCEPT ![w] = "exit"]
  /\ UNCHANGED <<jobs, job_doing, should_stop, alive, deleted, done, mainVars>>

(* job_doing->exec() returns. *)
RunExec(w) ==
  /\ wpc[w] = "exec"
  /\ done' = [done EXCEPT ![w] = Append(@, job_doing[w])]
  /\ wpc' = [wpc EXCEPT ![w] = "test"]
  /\ UNCHANGED <<jobs, job_doing, should_stop, alive, m_mutex, deleted, mainVars>>

(* alive.store(false), without the mutex *)
RunExit(w) ==
  /\ wpc[w] = "exit"
  /\ alive' = [alive EXCEPT ![w] = FALSE]
  /\ wpc' = [wpc EXCEPT ![w] = "notify"]
  /\ UNCHANGED <<jobs, job_doing, should_stop, m_mutex, deleted, done, mainVars>>

(* close_cv.notify_one(), without the mutex: lost unless main is blocked *)
RunNotify(w) ==
  /\ wpc[w] = "notify"
  /\ wpc' = [wpc EXCEPT ![w] = "gone"]
  /\ mpc' = IF mpc = "close_wait" /\ cur = w THEN "close_relock" ELSE mpc
  /\ UNCHANGED <<jobs, job_doing, should_stop, alive, m_mutex, deleted, done,
                 phase, next, cur, threads>>

Run(w) ==
  \/ RunTest(w) \/ RunReset(w) \/ RunLock(w) \/ RunNoJob(w) \/ RunBlock(w)
  \/ RunWoken(w) \/ RunRelock(w) \/ RunTake(w) \/ RunBreak(w) \/ RunExec(w)
  \/ RunExit(w) \/ RunNotify(w)

-----------------------------------------------------------------------------
(* The main thread *)

(* ParallelWorkerPool::start(): create a worker and its detached thread. *)
Start ==
  /\ mpc = "start"
  /\ should_stop' = [should_stop EXCEPT ![cur] = FALSE]
  /\ alive' = [alive EXCEPT ![cur] = TRUE]
  /\ wpc' = [wpc EXCEPT ![cur] = "test"]
  /\ IF cur + 1 < PoolSize THEN cur' = cur + 1 /\ mpc' = mpc
                           ELSE cur' = 0 /\ mpc' = "add"
  /\ UNCHANGED <<jobs, job_doing, m_mutex, deleted, done, phase, next, threads>>

(* ParallelWorkerPool::add_job(job, i): push on worker i % pool_size and   *)
(* jobs_cv.notify_one(), in one critical section.                          *)
AddJob ==
  /\ mpc = "add"
  /\ next < JobCount(phase)
  /\ LET w == next % PoolSize
     IN  /\ m_mutex[w] = Free
         /\ jobs' = [jobs EXCEPT ![w] = Append(@, <<phase, next>>)]
         /\ wpc' = [wpc EXCEPT ![w] = IF @ = "jobs_wait" THEN "jobs_relock" ELSE @]
  /\ next' = next + 1
  /\ UNCHANGED <<job_doing, should_stop, alive, m_mutex, deleted, done,
                 mpc, phase, cur, threads>>

(* Mutant: the last phase has no wait_all_idle(). *)
AllAddedNoWait ==
  /\ mpc = "add"
  /\ next = JobCount(phase)
  /\ mpc' = IF phase = 3 THEN "stop_set" ELSE "idle_lock"
  /\ cur' = 0
  /\ UNCHANGED <<workerVars, phase, next, threads>>

(* The loop over the jobs ends: wait_all_idle() starts at worker 0. *)
AllAdded ==
  /\ mpc = "add"
  /\ next = JobCount(phase)
  /\ mpc' = "idle_lock" /\ cur' = 0
  /\ UNCHANGED <<workerVars, phase, next, threads>>

(* wait_idle() of worker cur: take the mutex ... *)
IdleLock ==
  /\ mpc \in {"idle_lock", "idle_relock"}
  /\ m_mutex[cur] = Free
  /\ m_mutex' = [m_mutex EXCEPT ![cur] = Main]
  /\ mpc' = "idle_pred"
  /\ UNCHANGED <<jobs, job_doing, should_stop, alive, wpc, deleted, done,
                 phase, next, cur, threads>>

(* Mutant: the job that is being executed is forgotten. *)
WorkerIdleQueueOnly(w) == jobs[w] = <<>>

WorkerIdle(w) == job_doing[w] = NULL /\ jobs[w] = <<>>

(* ... the predicate is false: about to block on idle_cv ... *)
IdleBusy ==
  /\ mpc = "idle_pred"
  /\ ~WorkerIdle(cur)
  /\ mpc' = "idle_block"
  /\ UNCHANGED <<workerVars, phase, next, cur, threads>>

IdleBlock ==
  /\ mpc = "idle_block"
  /\ m_mutex' = [m_mutex EXCEPT ![cur] = Free]
  /\ mpc' = "idle_wait"
  /\ UNCHANGED <<jobs, job_doing, should_stop, alive, wpc, deleted, done,
                 phase, next, cur, threads>>

IdleSpurious ==
  /\ mpc = "idle_wait"
  /\ mpc' = "idle_relock"
  /\ UNCHANGED <<workerVars, phase, next, cur, threads>>

(* ... or it holds: unlock, go on to the next worker ... *)
IdleNext ==
  /\ mpc = "idle_pred"
  /\ WorkerIdle(cur)
  /\ cur + 1 < PoolSize
  /\ m_mutex' = [m_mutex EXCEPT ![cur] = Free]
  /\ cur' = cur + 1 /\ mpc' = "idle_lock"
  /\ UNCHANGED <<jobs, job_doing, should_stop, alive, wpc, deleted, done,
                 phase, next, threads>>

(* ... and after the last worker wait_all_idle() returns.  The parse finds *)
(* the threads to analyse; after the last phase exit() runs the pool's     *)
(* destructor.                                                             *)
IdleReturn ==
  /\ mpc = "idle_pred"
  /\ WorkerIdle(cur)
  /\ cur + 1 = PoolSize
  /\ m_mutex' = [m_mutex EXCEPT ![cur] = Free]
  /\ cur' = 0
  /\ threads' \in (IF phase = 1 THEN 0..MaxThreads ELSE {threads})
  /\ IF phase < 3 THEN mpc' = "add" /\ phase' = phase + 1 /\ next' = 0
                  ELSE mpc' = "stop_set" /\ UNCHANGED <<phase, next>>
  /\ UNCHANGED <<jobs, job_doing, should_stop, alive, wpc, deleted, done>>

(* stop(): should_stop.store(true), before the mutex is taken *)
StopSet ==
  /\ mpc = "stop_set"
  /\ should_stop' = [should_stop EXCEPT ![cur] = TRUE]
  /\ mpc' = "stop_lock"
  /\ UNCHANGED <<jobs, job_doing, alive, m_mutex, wpc, deleted, done,
                 phase, next, cur, threads>>

(* lock, jobs_cv.notify_one() *)
StopLock ==
  /\ mpc = "stop_lock"
  /\ m_mutex[cur] = Free
  /\ m_mutex' = [m_mutex EXCEPT ![cur] = Main]
  /\ wpc' = [wpc EXCEPT ![cur] = IF @ = "jobs_wait" THEN "jobs_relock" ELSE @]
  /\ mpc' = "stop_pred"
  /\ UNCHANGED <<jobs, job_doing, should_stop, alive, deleted, done,
                 phase, next, cur, threads>>

(* The predicate of close_cv.wait() reads alive ... *)
StopPred ==
  /\ mpc = "stop_pred"
  /\ IF alive[cur]
       THEN mpc' = "close_block" /\ m_mutex' = m_mutex
       ELSE mpc' = "delete" /\ m_mutex' = [m_mutex EXCEPT ![cur] = Free]
  /\ UNCHANGED <<jobs, job_doing, should_stop, alive, wpc, deleted, done,
                 phase, next, cur, threads>>

(* ... and the wait blocks in a later step. *)
CloseBlock ==
  /\ mpc = "close_block"
  /\ m_mutex' = [m_mutex EXCEPT ![cur] = Free]
  /\ mpc' = "close_wait"
  /\ UNCHANGED <<jobs, job_doing, should_stop, alive, wpc, deleted, done,
                 phase, next, cur, threads>>

CloseSpurious ==
  /\ mpc = "close_wait"
  /\ mpc' = "close_relock"
  /\ UNCHANGED <<workerVars, phase, next, cur, threads>>

CloseRelock ==
  /\ mpc = "close_relock"
  /\ m_mutex[cur] = Free
  /\ m_mutex' = [m_mutex EXCEPT ![cur] = Main]
  /\ mpc' = "stop_pred"
  /\ UNCHANGED <<jobs, job_doing, should_stop, alive, wpc, deleted, done,
                 phase, next, cur, threads>>

(* Mutant: one worker too many. *)
DeleteOneMore ==
  /\ mpc = "delete"
  /\ deleted' = [deleted EXCEPT ![cur] = TRUE]
  /\ IF cur < PoolSize THEN cur' = cur + 1 /\ mpc' = "stop_set"
                       ELSE mpc' = "exited" /\ cur' = cur
  /\ UNCHANGED <<jobs, job_doing, should_stop, alive, m_mutex, wpc, done,
                 phase, next, threads>>

(* delete workers[i], then the next worker or the end of the destructor *)
Delete ==
  /\ mpc = "delete"
  /\ deleted' = [deleted EXCEPT ![cur] = TRUE]
  /\ IF cur + 1 < PoolSize THEN cur' = cur + 1 /\ mpc' = "stop_set"
                           ELSE mpc' = "exited" /\ cur' = cur
  /\ UNCHANGED <<jobs, job_doing, should_stop, alive, m_mutex, wpc, done,
                 phase, next, threads>>

MainStep ==
  \/ Start \/ AddJob \/ AllAdded \/ IdleLock \/ IdleBusy \/ IdleBlock
  \/ IdleNext \/ IdleReturn \/ StopSet \/ StopLock \/ StopPred
  \/ CloseBlock \/ CloseRelock \/ Delete

Spurious == (\E w \in Worker : RunSpurious(w)) \/ IdleSpurious \/ CloseSpurious

Next == (\E w \in Worker : Run(w)) \/ MainStep \/ Spurious

(* The operating system schedules every thread that can run: no fairness   *)
(* for the spurious wake-ups, strong fairness where a thread competes for  *)
(* a mutex that is released again and again.                               *)
Fairness ==
  /\ \A w \in Worker : WF_vars(Run(w)) /\ SF_vars(RunLock(w)) /\ SF_vars(RunRelock(w))
  /\ WF_vars(MainStep) /\ SF_vars(AddJob) /\ SF_vars(IdleLock)
  /\ SF_vars(StopLock) /\ SF_vars(CloseRelock)

Spec == Init /\ [][Next]_vars
FairSpec == Spec /\ Fairness

-----------------------------------------------------------------------------
(* Properties *)

TypeOK ==
  /\ jobs \in [Worker -> Seq(Job)]
  /\ job_doing \in [Worker -> Job \cup {NULL, Garbage}]
  /\ should_stop \in [Worker -> BOOLEAN]
  /\ alive \in [Worker -> BOOLEAN]
  /\ m_mutex \in [Worker -> Worker \cup {Main, Free}]
  /\ wpc \in [Worker -> WorkerPC]
  /\ deleted \in [Worker -> BOOLEAN]
  /\ done \in [Worker -> Seq(Job)]
  /\ mpc \in MainPC /\ phase \in Phases /\ next \in Nat /\ cur \in Worker
  /\ threads \in 0..MaxThreads

Executed == UNION {{done[w][i] : i \in 1..Len(done[w])} : w \in Worker}
JobsOf(p) == {p} \X (0..(JobCount(p) - 1))

(* The barrier of analyze_funcs(): a job executes only after every job of  *)
(* the earlier phases has been executed.  A thread job reads the action    *)
(* sets of all parse jobs and a MemoryFreeJob deletes a job, so a          *)
(* wait_all_idle() that returns early is a read of half-parsed data or of  *)
(* freed memory.                                                           *)
PhaseBarrier ==
  \A w \in Worker : wpc[w] = "exec" =>
    \A p \in 1..(job_doing[w][1] - 1) : JobsOf(p) \subseteq Executed

(* Once exit() runs the destructor every job of every phase is executed.   *)
NothingAbandoned ==
  mpc \in {"stop_set", "stop_lock", "stop_pred", "close_block", "close_wait",
           "close_relock", "delete", "exited"}
    => \A p \in Phases : JobsOf(p) \subseteq Executed

InHand(w) == IF wpc[w] = "exec" THEN <<job_doing[w]>> ELSE <<>>
Handled(w) == done[w] \o InHand(w) \o jobs[w]

(* Each worker executes what it was given once, in the order add_job() was *)
(* called: an executed job, the job in hand and the queue never repeat a   *)
(* job and are sorted by phase and index.                                  *)
Before(a, b) == a[1] < b[1] \/ (a[1] = b[1] /\ a[2] < b[2])
ExecutedOnceInOrder ==
  \A w \in Worker : \A i, j \in 1..Len(Handled(w)) :
    i < j => Before(Handled(w)[i], Handled(w)[j])

(* The assertion of worker.cc:15: behind the wait, with the queue empty,   *)
(* should_stop is set, whatever wake-ups jobs_cv produces and whenever     *)
(* stop() comes; so run() leaves its loop only when it was told to.        *)
BreakAsserted ==
  \A w \in Worker :
    (wpc[w] = "woken" /\ jobs[w] = <<>>) \/ wpc[w] \in {"exit", "notify", "gone"}
      => should_stop[w]

(* Every wait_all_idle() returns: the three phases finish.                 *)
PhasesFinish == <>(mpc = "stop_set")

(* exit() terminates: stop() returns for every worker.                     *)
ExitTerminates == <>(mpc = "exited")
=============================================================================
